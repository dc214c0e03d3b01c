---------------------------- MODULE StreamDecode ----------------------------
(***************************************************************************)
(* The contract of the streaming core with any caller: the caller sets up  *)
(* a window of at least Prefetch bytes and calls minx86dec_sdecode8086,    *)
(* again and again; the core calls fetch8 back for every byte it misses.   *)
(* x86_core_macros.h:11 says that the callback may or may not move the     *)
(* fence; sdecode8086.c moves it by as much as its buffer takes, and       *)
(* testemu8088.c by one byte or not at all.                                *)
(***************************************************************************)
EXTENDS Decode8086, Flat8086

Init == CoreInit /\ win = << >>

(* One call of fetch8 from stream_fill.                                    *)
Callback ==
    /\ tries > 0
    /\ tries' = tries - 1
    /\ UNCHANGED <<cip, pc, todo, ins, overruns, failed, unbacked>>
    /\ \E n \in 0 .. WindowMax - Len(win) :
          \E more \in [1 .. n -> Bytes] : win' = win \o more

(* The caller takes the result and calls again with a new window.          *)
(* sdecode8086.c clears the overrun count before each call and             *)
(* testemu8088.c never does.                                               *)
Call ==
    /\ pc \in {"idle", "done"}
    /\ Enter
    /\ overruns' \in {0, overruns}
    /\ \E n \in Prefetch .. PrefetchMax : win' \in [1 .. n -> Bytes]

Next == CoreStep \/ Callback \/ Call

Spec == Init /\ [][Next]_vars

(* The core is straight-line code and the callback returns: each decode    *)
(* runs on by itself.  Nothing is assumed of the caller.                   *)
FairSpec == Spec /\ WF_vars(CoreStep \/ Callback)

-----------------------------------------------------------------------------
(* A decode in which every fetch succeeded and every peek was backed gives *)
(* what the flat core gives on the same bytes, however the callback cut    *)
(* them up.                                                                *)
StreamEqualsFlat ==
    (pc = "done" /\ ~failed /\ ~unbacked /\ ins.op # "UD_OVERRUN")
        => ins = FlatDecode(win)

(* Every call returns.                                                     *)
Returns == (pc = "opcode") ~> (pc = "done")
=============================================================================
