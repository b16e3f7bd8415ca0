------------------------------- MODULE MCMcu -------------------------------
(***************************************************************************)
(* Small instances of McuExecutor: a ring of four pages of five cells,     *)
(* lines of two cells, three for a transition, six for the command "big".  *)
(***************************************************************************)
EXTENDS McuExecutor

MCData == {"a", "b"}
MCUpdatePayload(u, d) == d
MCIoType == {"http"}

(* 2 is the request of a first command, 4 that of one after an answer. *)
MCAnswerId == {2, 4}

MCSize(f) == IF f.body.type = "Command" /\ f.body.instr = "big" THEN 6
             ELSE IF f.body.type = "StateTransition" THEN 3 ELSE 2

Flip(d) == CHOOSE e \in MCData : e # d

Res(kind, d, push, consume) ==
    {[kind |-> kind, data |-> d, push |-> push, consume |-> consume, io_type |-> "http"]}

(* The instructions of MCReactor that the executor can meet. *)
MCTransition(i, d, S) ==
    CASE i = "set"  -> Res("State", Flip(d), <<>>, {})
      [] i = "two"  -> Res("State", d, <<"set", "io">>, {})
      [] i = "many" -> Res("State", d, <<"set", "io", "skip">>, {})
      [] i = "io"   -> IF "http" \in S THEN Res("State", Flip(d), <<>>, {"http"})
                                       ELSE Res("IoRequired", d, <<>>, {})
      [] i = "halt" -> Res("Halted", d, <<>>, {})
      [] i = "skip" -> Res("Ignored", d, <<>>, {})
      [] i \in {"bad", "big"} -> Res("Err", d, <<>>, {})

AllInstructions == {"set", "two", "many", "io", "halt", "skip", "bad", "big"}
SetIo   == {"set", "io"}

Limits(run_, resume, cut) ==
    [e \in Events |-> CASE e = "run" -> run_ [] e = "resume" -> resume [] e = "cut" -> cut]

FlashBudget == Limits(2, 1, 2)
SaysBudget  == Limits(2, 2, 1)
=============================================================================
