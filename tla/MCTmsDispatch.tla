--------------------------- MODULE MCTmsDispatch ---------------------------
(* A small instance of TmsDispatch: two cars.                              *)
EXTENDS TmsDispatch

MCCar  == {7, 8}
MCLink == {11, 12, 13, 21, 31, 41}

Entry(car, position, gap, passage, last, best) ==
  [car |-> car, position |-> position, gap |-> gap, passage |-> passage,
   last |-> last, best |-> best]

(* Car 8 has the best lap of the session; car 7, whose best is 90 s, laps  *)
(* in 95 s and then in 93 s.  The first snapshot has no positions and a    *)
(* gap that is smaller than the one of the car ahead, the second is out of *)
(* order, and the third has the largest gap a frame can carry and an entry *)
(* without a car.                                                          *)
MCFeed == <<
  <<Entry(7, 0, 2000, 600000, 0, 90000), Entry(8, 0, 1500, 0, 0, 0)>>,
  <<Entry(7, 2, 1500, 695000, 95000, 90000), Entry(8, 1, 0, 696500, 89000, 89000)>>,
  <<Entry(8, 1, 0, 696500, 89000, 89000), Entry(0, 3, 0, 0, 0, 0),
    Entry(7, 2, 1638399, 695000, 93000, 90000)>> >>

(* No links before the first telemetry; then one of the cars has a link,   *)
(* and then it gets another and so does the other car.                     *)
MCLinkTables == << (7 :> 0) @@ (8 :> 0), (7 :> 11) @@ (8 :> 0), (7 :> 13) @@ (8 :> 12) >>

MCTyped  == {41}
MCEdited == { [EmptyShown EXCEPT !.front = 16383, !.frontColor = "purple"] }
(* An earlier run may have left nothing, the mode for all cars, or the     *)
(* real-time mode with an id that was typed, which is no link of a car.    *)
MCStored == { defaultTmsUiConfig, [defaultTmsUiConfig EXCEPT !.autoAll = TRUE],
              [defaultTmsUiConfig EXCEPT !.realtime = TRUE, !.primary = 41] }

(* The links of the instance are apart, as the theorem about ScreensCurrent *)
(* takes them to be.                                                        *)
ASSUME MCLinksApart == LinksApart

=============================================================================
