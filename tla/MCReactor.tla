----------------------------- MODULE MCReactor -----------------------------
(***************************************************************************)
(* Small instances of Reactor.  The instructions stand for what the rules  *)
(* of core_eval.json make of an instruction.                               *)
(***************************************************************************)
EXTENDS Reactor

MCData == {"a", "b"}
MCUpdate == {"put", "bad"}
MCUpdatePayload(u, d) == IF u = "bad" THEN "rejected" ELSE "b"
MCIoType == {"http", "fs"}
MCKnownIoTypes == {"http"}

AnyPayload(d) == TRUE
OnlyA(d) == d = "a"

Flip(d) == CHOOSE e \in MCData : e # d

Res(kind, d, push, consume, t) ==
    [kind |-> kind, data |-> d, push |-> push, consume |-> consume, io_type |-> t]

Drops(kind, d) == {Res(kind, d, <<>>, {}, "http")}
Sets(d, push, consume) == {Res("State", d, push, consume, "http")}
Asks(t, d) == {Res("IoRequired", d, <<>>, {}, t)}

(* "io*" instructions follow the two-path idiom of the I/O rules: request   *)
(* the I/O unless a result is there, else use the result up.                *)
MCTransition(i, d, S) ==
    CASE i = "set"    -> Sets(Flip(d), <<>>, {})
      [] i = "seq"    -> Sets(d, <<"set", "io">>, {})
      [] i = "loop"   -> Sets(Flip(d), <<"loop">>, {})
      [] i = "io"     -> IF "http" \in S THEN Sets(Flip(d), <<>>, {"http"})
                                         ELSE Asks("http", d)
      [] i = "ioseq"  -> IF "http" \in S THEN Sets(Flip(d), <<"set", "set">>, {"http"})
                                         ELSE Asks("http", d)
      [] i = "iofail" -> IF "http" \in S THEN Drops("Err", d) ELSE Asks("http", d)
      [] i = "halt"   -> Drops("Halted", d)
      [] i = "skip"   -> Drops("Ignored", d)
      [] i = "bad"    -> Drops("Err", d)
      [] i = "unk"    -> Asks("fs", d)

AllInstructions == {"set", "seq", "loop", "io", "ioseq", "iofail",
                    "halt", "skip", "bad", "unk"}
IoInstructions  == {"seq", "io", "set", "loop"}
SetHalt         == {"set", "halt"}
IoPair          == {"io", "iofail"}
IoSeq           == {"ioseq", "set"}
ChainInstructions == {"set", "ioseq", "iofail"}
OnlySet         == {"set"}

Limits(command, update, response, irq, cancel, close, restart) ==
    [e \in Events |-> CASE e = "command"   -> command
                        [] e = "update"    -> update
                        [] e = "response"  -> response
                        [] e = "interrupt" -> irq
                        [] e = "cancel"    -> cancel
                        [] e = "close"     -> close
                        [] e = "restart"   -> restart]

\*                     command update response interrupt cancel close restart
IoBudget       == Limits(2,      0,     2,       0,        1,     0,    0)
FaultBudget    == Limits(1,      1,     1,       0,        0,     1,    0)
ChainBudget    == Limits(2,      1,     1,       1,        0,     0,    1)
WithRestart    == Limits(2,      0,     0,       0,        0,     0,    1)
WithInterrupt  == Limits(2,      0,     2,       1,        0,     0,    0)
OneCommand     == Limits(1,      0,     1,       0,        0,     0,    0)
OneUpdate      == Limits(1,      1,     0,       0,        0,     0,    0)

Healthy == {TRUE}
Flaky   == {TRUE, FALSE}
Broken  == {FALSE}
=============================================================================
