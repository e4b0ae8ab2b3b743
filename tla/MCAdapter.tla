------------------------------- MODULE MCAdapter -------------------------------
(***************************************************************************)
(* Adapter for TLC: the constants that are not sets of names.               *)
(***************************************************************************)
EXTENDS Adapter

----------------------------------------------------------------------------
(* The call: a host with a T4, an Ampere and a Volta GPU, seen in another   *)
(* order.  The requests are about the window and the calibration, or about  *)
(* the devices.                                                             *)

Number(n) == [by |-> "number", list |-> <<>>, number |-> n]
Listed(by, list) == [by |-> by, list |-> list, number |-> 0]

MCRowLimit == [e \in {"cutlass", "libtorch"} |-> IF e = "cutlass" THEN 16 ELSE 8]
MCGpus == <<"t4", "ampere", "volta">>
MCVisible == <<2, 1, 3>>
MCSelections ==
    {Number(1), Number(2), Number(4),
     Listed("devices", <<2, 1>>), Listed("devices", <<3>>), Listed("devices", <<4>>),
     Listed("graph", <<-1>>), Listed("graph", <<1, -1>>), Listed("graph", <<1, 1>>),
     Listed("graph", <<2>>), Listed("graph", <<>>)}

Possible == INSTANCE SearchCall WITH Asked <- {}

WindowCalls == {r \in Possible!Requests :
    r.backend = "auto" /\ ~r.ensemble /\ r.select = Number(2) /\ r.beam \in {0, 2}}
DeviceCalls == {r \in Possible!Requests :
    /\ r.mode = "auto" /\ ~r.controls /\ ~r.solved /\ ~r.collect /\ ~r.bare /\ ~r.discover
    /\ r.steps = 3 /\ r.beam # 2}
MCAsked == WindowCalls \cup DeviceCalls

----------------------------------------------------------------------------
(* An ensemble of a live module, a plain directory and two heads of one     *)
(* bundle.                                                                  *)

MCMembers == <<"live", "plain", "bundle", "bundle">>
================================================================================
