---------------------------- MODULE MCLabStartup ----------------------------
(***************************************************************************)
(* Home directories to start from: none of the user's files, all of them,  *)
(* and each kind of dask configuration, alone and next to another, one     *)
(* that no dask file may be among them.                                    *)
(***************************************************************************)
EXTENDS LabStartup

McDask == {{}, {"own", "clash"}, {"own", "clash", "old"}, {"own", "site"}, {"site"}}
McOther == {{}, {"own", "old"}, {"own", "odd"}}

McHome(own, dashboard, other) ==
    [f \in Files |->
        CASE f = "dashboard" -> dashboard
          [] f = "other" -> other
          [] own /\ f = "credentials" -> {"own", "clash"}
          [] own /\ f # "skel" -> {"own"}
          [] ~own /\ f = "profile" -> {"old"}
          [] OTHER -> {}]

McInitially ==
    {McHome(own, d, o) : own \in BOOLEAN, d \in McDask, o \in McOther}
        \cup {[f \in Files |-> {}]}
=============================================================================
