----------------------------- MODULE GuestInstrs -----------------------------
(***************************************************************************)
(* The instructions of a guest that the hypervisor may have a hand in, as  *)
(* far as the exit loops tell them apart: [op, what, rt].                  *)
(*                                                                         *)
(*   set     x1 := zero or one; never traps                                *)
(*   run     an instruction that lies in a place stage-2 may not map yet,  *)
(*           and sets x1                                                   *)
(*   ldr     load into rt from a place; str: store; ldp: a load whose      *)
(*           abort has no valid syndrome (ISS.ISV = 0)                     *)
(*   mrs     CNTP register into rt; msr: rt into CNTP register             *)
(*   sgi     write of ICC_SGI1R_EL1                                        *)
(*   hvc     with function what in x0; smc: the same                       *)
(*   wfx     anything no loop has a case for                               *)
(*                                                                         *)
(* Places: "device" (one the loop emulates), "block" (another 1 GiB block  *)
(* of addresses, not mapped at first), "high" (beyond the 512 GiB that     *)
(* stage-2 covers, at an address whose entry in the table, the index being *)
(* taken modulo 512, belongs to no place a guest uses).  A value is 0 or,  *)
(* for all the others, 1.                                                  *)
(***************************************************************************)

CntpRegs == {"ctl", "cval", "tval"}

I(op, what, rt) == [op |-> op, what |-> what, rt |-> rt]

Sets == {I("set", v, "x1") : v \in {"zero", "one"}}

Accesses(place) ==
  {I("ldr", place, "x1"), I("ldr", place, "xzr"), I("ldp", place, "x1"), I("str", place, "x1")}

RunsIn(place) == {I("run", place, "x1")}

CntpAccesses ==
  {I(op, r, rt) : op \in {"mrs", "msr"}, r \in CntpRegs, rt \in {"x1", "xzr"}}

SgiWrites == {I("sgi", "sgi1r", "x1")}

PsciFns == {"version", "on", "off", "unknown"}

Hvcs == {I("hvc", fn, "x0") : fn \in PsciFns \union {"yield"}}
Smcs == {I("smc", fn, "x0") : fn \in PsciFns}

Others == {I("wfx", "none", "xzr")}

AllInstrs ==
  Sets \union Accesses("device") \union Accesses("block") \union Accesses("high")
       \union RunsIn("block") \union RunsIn("high") \union CntpAccesses \union SgiWrites \union Hvcs \union Smcs \union Others

None == I("none", "none", "xzr")
=============================================================================
