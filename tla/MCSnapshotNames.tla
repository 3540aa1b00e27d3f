---------------------------- MODULE MCSnapshotNames ----------------------------
(* Instances of SnapshotNames for TLC: names that begin alike, a name with *)
(* a dot, and for the cStor plugin names that do not begin alike.          *)
EXTENDS SnapshotNames

SmallOrder ==
    <<"-", ".", "1", "20240101000000", "20240102000000", "20240103000000", "a", "b", "pvc",
      "-velero-bkp-">>

ZfsAlike   == [plugin |-> "zfs", schedules |-> {<<"a">>, <<"a", "-", "1">>},
               singles |-> {<<"1", "-", "a">>, <<"a", ".", "1">>}]
CstorAlike == [ZfsAlike EXCEPT !.plugin = "cstor"]
CstorApart == [plugin |-> "cstor", schedules |-> {<<"a">>, <<"b", "-", "1">>},
               singles |-> {<<"1", "-", "a">>, <<"b", ".", "1">>}]

SmallSetups == {ZfsAlike, CstorAlike, CstorApart}
===============================================================================
