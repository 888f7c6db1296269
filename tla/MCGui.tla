-------------------------------- MODULE MCGui --------------------------------
(* Windows of a few widgets for TLC: a menu and a slider that share an       *)
(* element, menus and sliders of their own elements with a plot, a toggle    *)
(* and a tree, two trees of a dictionary, a menu of a second element, and a  *)
(* toggle that may not be read-only.                                         *)
EXTENDS Gui

MCWindows == {<<"mode", "gain">>, <<"mode", "stiff">>, <<"stiff", "plot">>, <<"power", "param">>,
              <<"param", "view">>, <<"mode2", "power">>, <<"param", "lamp">>}
MCType == [mode |-> "M3GuiModes", mode2 |-> "M3GuiModes", gain |-> "M3GuiSliders",
           stiff |-> "M3GuiSliders", plot |-> "M3GuiSliders", power |-> "M3GuiToggle",
           lamp |-> "M3GuiToggle", param |-> "M3GuiTree", view |-> "M3GuiTree"]
MCLoc == [mode |-> "m", mode2 |-> "m", gain |-> "m", stiff |-> "m", plot |-> "m",
          power |-> "t", lamp |-> "t", param |-> "p", view |-> "p"]
MCReadonly == [w \in DOMAIN MCType |-> w \in {"plot", "view", "lamp"}]
MCIndices == [mode |-> <<1>>, mode2 |-> <<2>>, gain |-> <<2, 1>>, stiff |-> <<2>>, plot |-> <<1, 2>>,
              power |-> <<1>>, lamp |-> <<1>>, param |-> <<1>>, view |-> <<1>>]
MCSize == [m |-> 2, t |-> 1, p |-> 1]
=============================================================================
