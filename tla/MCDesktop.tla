------------------------------ MODULE MCDesktop ------------------------------
(* Instances of Desktop for TLC.                                             *)
EXTENDS Desktop

CONSTANTS t1, t2, t3, w1, w2, w3, o1, o2, o3, l1, l2, k1, k2

Two == {t1, t2}
Three == {t1, t2, t3}

At(kinds, windows, connected, spaces) ==
  [kinds |-> kinds, windows |-> windows, connected |-> connected, spaces |-> spaces]

(* One monitor with one workspace, or with two.                              *)
Single(kinds, windows) == At(kinds, windows, <<o1>>, o1 :> <<w1>>)
Both(kinds) == At(kinds, Two, <<o1>>, o1 :> <<w1, w2>>)

(* Grabs by clients, and drags.                                              *)
Grabs == Both({"float", "client grab", "drag", "button", "change", "motion"})

(* Windows go while clients move or resize them.                             *)
Mishaps == Both({"float", "unmap pointed", "client grab", "motion"})

(* Three windows, so that slaves have an order to be dropped into.           *)
Drops == Single({"command grab", "button", "direction", "motion"}, Three)

(* Grabs by keys.                                                            *)
Keys == At({"float", "key", "button", "motion", "change"}, {t1}, <<o1>>, o1 :> <<w1, w2>>)

(* Workspaces come and go.                                                   *)
Desks == Both({"float", "move to", "create", "destroy"})

(* They do by the workspace protocol while windows are held.                 *)
Remotes == At({"remote", "client grab", "motion", "float"}, {t1}, <<o1>>, o1 :> <<w1, w2>>)

Panels == Single({"fullscreen", "layer", "relayer"}, Two)

(* Monitors come and go.                                                     *)
Monitors == At({"hotplug", "move to", "change", "float"}, {t1},
               <<o1, o2>>, o1 :> <<w1, w3>> @@ o2 :> <<w2>>)

(* Two monitors side by side.                                                *)
Neighbours == At({"direction", "float"}, Two, <<o1, o2>>, o1 :> <<w1>> @@ o2 :> <<w2>>)

Everywhere == {Grabs, Drops, Keys, Desks, Remotes, Panels, Monitors, Neighbours}
OnlyMishaps == {Mishaps}


(* Windows are interchangeable, though only two of them are everywhere, and  *)
(* so are panels.                                                            *)
Symmetry == Permutations(Two) \cup Permutations({l1, l2})
=============================================================================
