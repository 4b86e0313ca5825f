---------------------------- MODULE MCPlayground ----------------------------
(***************************************************************************)
(* Playground for TLC: scripts that meet in one batch.                     *)
(***************************************************************************)
EXTENDS Playground, TLC

Token(kind)          == [kind |-> kind, step |-> Unset, code |-> ""]
AtStep(kind, step)   == [kind |-> kind, step |-> step, code |-> "write_failed"]
Message(tokens)      == [key |-> "k", payload |-> [kind |-> "script", script |-> tokens],
                         headers |-> [trace |-> Text("t")]]

\* A message replayed at its second attempt.
Again(message)       == [message EXCEPT !.headers = @ @@ (HeaderRetryAttempt :> Itoa(1))]

\* A script that does not parse, because ok takes no step; ok/ko:step=2/panic,
\* at its second attempt; and batchko:step=1/ok, behind it in the retry topic and
\* due before it.
Together == <<Message(<<AtStep("ok", 1)>>),
              Again(Message(<<Token("ok"), AtStep("ko", 2), Token("panic")>>)),
              Message(<<AtStep("batchko", 1), Token("ok")>>)>>

Double    == <<2, 1>>
NoBackoff == <<>>

=============================================================================
