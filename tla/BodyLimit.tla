----------------------------- MODULE BodyLimit -----------------------------
(***************************************************************************)
(* BodySizeLimitMiddleware around one HTTP request.  The application is    *)
(* free: it may read and answer in any order, from several tasks, fail or  *)
(* return at any point, within the order ASGI prescribes for an answer.    *)
(* The client sends a body of any length, whatever it has declared, and    *)
(* may disconnect.  A message being sent or received is a step of its own, *)
(* because the middleware awaits in between its tests.                     *)
(***************************************************************************)
EXTENDS Naturals, Sequences, SequencesExt

CONSTANTS
    MaxBytes,       \* max_bytes
    Chunks,         \* sizes of the pieces a body arrives in
    MaxChunks,      \* bound of the model: pieces of a body
    None

ASSUME BodyLimitAssumption ==
    /\ MaxBytes \in Nat \ {0} /\ MaxChunks \in Nat
    /\ Chunks \subseteq Nat
    /\ None \notin Nat

VARIABLES
    declared,       \* Content-Length, or None (absent or malformed)
    stage,          \* "begin", "app" (self.app runs), "after", "reject",
                    \* "done", or "error" (an exception leaves __call__)
    chunks,         \* pieces the client has sent so far
    received,       \* bytes counted
    forwarded,      \* bytes handed to the application
    too_large,
    response_started,
    answering,      \* the application's answer: "none", "started", "complete"
    sending,        \* the message guarded_send has let through, or None
    wire,           \* the messages sent to the client, with their sender
    raised          \* the application has raised

request == <<declared, chunks, received, forwarded>>
reply == <<answering, sending, wire>>
vars == <<declared, stage, chunks, received, forwarded, too_large,
          response_started, answering, sending, wire, raised>>

Message == [from: {"app", "middleware"}, part: {"start", "body"}]

ASSUME NoneAssumption == None \notin Message

TypeOK ==
    /\ declared \in Nat \cup {None}
    /\ stage \in {"begin", "app", "after", "reject", "done", "error"}
    /\ chunks \in 0..MaxChunks
    /\ {received, forwarded} \subseteq Nat /\ forwarded <= received
    /\ {too_large, response_started, raised} \subseteq BOOLEAN
    /\ answering \in {"none", "started", "complete"}
    /\ sending \in Message \cup {None}
    /\ wire \in Seq(Message)
    /\ too_large = (received > MaxBytes)

Init ==
    /\ declared \in {None, MaxBytes, MaxBytes + 1}
    /\ stage = "begin" /\ chunks = 0 /\ received = 0 /\ forwarded = 0
    /\ too_large = FALSE /\ response_started = FALSE /\ raised = FALSE
    /\ answering = "none" /\ sending = None /\ wire = <<>>

From(sender, part) == [from |-> sender, part |-> part]

-----------------------------------------------------------------------------
(* Plausible bugs.  No action uses these definitions.                      *)

(* The flag is set once the message is on its way.                         *)
AppStartsUnmarked ==
    /\ stage = "app" /\ sending = None /\ answering = "none"
    /\ answering' = "started"
    /\ IF too_large THEN UNCHANGED <<sending, response_started>>
       ELSE sending' = From("app", "start") /\ response_started' = response_started
    /\ UNCHANGED <<request, stage, too_large, wire, raised>>

(* The limit itself is already too large.                                  *)
ReceiveOffByOne(size) ==
    /\ stage = "app" /\ chunks < MaxChunks /\ ~too_large
    /\ chunks' = chunks + 1
    /\ received' = received + size
    /\ too_large' = (received' >= MaxBytes)
    /\ forwarded' = (IF too_large' THEN forwarded ELSE received')
    /\ UNCHANGED <<declared, stage, response_started, reply, raised>>

(* Every error of the application is taken for an effect of the limit.     *)
AppRaisesSwallowed ==
    /\ stage = "app" /\ sending = None
    /\ stage' = "after" /\ raised' = TRUE
    /\ UNCHANGED <<request, too_large, response_started, reply>>

(* No error is: without the except clause.                                 *)
AppRaisesThrough ==
    /\ stage = "app" /\ sending = None
    /\ stage' = "error" /\ raised' = TRUE
    /\ UNCHANGED <<request, too_large, response_started, reply>>

-----------------------------------------------------------------------------
TooMuchDeclared == declared # None /\ declared > MaxBytes

RefuseDeclared ==
    /\ stage = "begin" /\ TooMuchDeclared
    /\ stage' = "reject"
    /\ UNCHANGED <<request, too_large, response_started, reply, raised>>

EnterApp ==
    /\ stage = "begin" /\ ~TooMuchDeclared
    /\ stage' = "app"
    /\ UNCHANGED <<request, too_large, response_started, reply, raised>>

(* limited_receive: the piece that crosses the limit is not handed over,   *)
(* and nothing is read after it.                                           *)
ReceiveChunk(size) ==
    /\ stage = "app" /\ chunks < MaxChunks /\ ~too_large
    /\ chunks' = chunks + 1
    /\ received' = received + size
    /\ too_large' = (received' > MaxBytes)
    /\ forwarded' = (IF too_large' THEN forwarded ELSE received')
    /\ UNCHANGED <<declared, stage, response_started, reply, raised>>

(* guarded_send: the application goes on with its answer; past the limit   *)
(* its messages are dropped without its knowing.                           *)
AppStarts ==
    /\ stage = "app" /\ sending = None /\ answering = "none"
    /\ answering' = "started"
    /\ IF too_large THEN UNCHANGED <<sending, response_started>>
       ELSE sending' = From("app", "start") /\ response_started' = TRUE
    /\ UNCHANGED <<request, stage, too_large, wire, raised>>

AppSendsBody ==
    /\ stage = "app" /\ sending = None /\ answering = "started"
    /\ answering' = "complete"
    /\ sending' = (IF too_large THEN None ELSE From("app", "body"))
    /\ UNCHANGED <<request, stage, too_large, response_started, wire, raised>>

(* await send(message) of the server returns.                              *)
SendReturns ==
    /\ sending # None
    /\ wire' = Append(wire, sending)
    /\ sending' = None
    /\ UNCHANGED <<request, stage, too_large, response_started, answering, raised>>

AppReturns ==
    /\ stage = "app" /\ sending = None
    /\ stage' = "after"
    /\ UNCHANGED <<request, too_large, response_started, reply, raised>>

(* Its exceptions are passed on, but for those the limit has caused.       *)
AppRaises ==
    /\ stage = "app" /\ sending = None
    /\ stage' = (IF too_large THEN "after" ELSE "error")
    /\ raised' = TRUE
    /\ UNCHANGED <<request, too_large, response_started, reply>>

LeaveApp ==
    /\ stage = "after"
    /\ stage' = (IF too_large /\ ~response_started THEN "reject" ELSE "done")
    /\ UNCHANGED <<request, too_large, response_started, reply, raised>>

(* _reject: the two messages of the 413.                                   *)
Reject ==
    /\ stage = "reject" /\ sending = None
    /\ LET part == IF Len(wire) > 0 /\ Last(wire).part = "start" THEN "body" ELSE "start"
       IN /\ sending' = From("middleware", part)
          /\ stage' = (IF part = "body" THEN "done" ELSE "reject")
    /\ UNCHANGED <<request, too_large, response_started, answering, wire, raised>>

Done == stage \in {"done", "error"} /\ sending = None /\ UNCHANGED vars

Next ==
    \/ RefuseDeclared \/ EnterApp \/ \E size \in Chunks: ReceiveChunk(size)
    \/ AppStarts \/ AppSendsBody \/ AppReturns \/ AppRaises
    \/ SendReturns \/ LeaveApp \/ Reject
    \/ Done

Spec == Init /\ [][Next]_vars

-----------------------------------------------------------------------------
AnswerOf(sender) == <<From(sender, "start"), From(sender, "body")>>
Sent == IF sending = None THEN wire ELSE Append(wire, sending)

(* The client sees the beginning of one answer of one sender: the 413 does *)
(* not follow what the application has sent, nor the other way round, when *)
(* the limit is crossed while the application is already answering.        *)
OneAnswer == \E sender \in {"app", "middleware"}: IsPrefix(Sent, AnswerOf(sender))

(* A body that grew past the limit, or said it would, is answered by the   *)
(* whole 413 even when the application fails on the body it did not get,   *)
(* unless an answer had left before; and the application never gets more   *)
(* than the limit.                                                         *)
OversizedIsRefused ==
    /\ forwarded <= MaxBytes
    /\ (stage \in {"done", "error"} /\ (too_large \/ TooMuchDeclared)) =>
           \/ Sent = AnswerOf("middleware")
           \/ Len(Sent) > 0 /\ Sent[1].from = "app"

(* Within the limit the middleware is invisible: what the application has  *)
(* sent has left, and its errors come out.                                 *)
WithinTheLimitNothingIsLost ==
    (stage \in {"done", "error"} /\ ~too_large /\ ~TooMuchDeclared) =>
        /\ raised = (stage = "error")
        /\ answering = "none" => wire = <<>>
        /\ answering = "started" => wire = SubSeq(AnswerOf("app"), 1, 1)
        /\ answering = "complete" => wire = AnswerOf("app")

(* Why they hold: response_started says whose answer has left, and tells   *)
(* it while the message is still on its way; a 413 begins only without it  *)
(* and is then finished; and within the limit every message goes through.  *)
Opening(sender) == <<From(sender, "start")>>
Oversized == too_large \/ TooMuchDeclared

AnswersBelong ==
    /\ Sent \in {<<>>} \cup {Opening(s): s \in {"app", "middleware"}}
                     \cup {AnswerOf(s): s \in {"app", "middleware"}}
    /\ response_started <=> Sent \in {Opening("app"), AnswerOf("app")}
    /\ stage = "begin" => Sent = <<>> /\ answering = "none" /\ ~too_large
    /\ stage = "reject" => Oversized /\ Sent \in {<<>>, Opening("middleware")}
    /\ Sent = Opening("middleware") => stage = "reject"
    /\ Sent = AnswerOf("middleware") => stage = "done"
    /\ (stage \in {"done", "error"} /\ Oversized /\ ~response_started) =>
           Sent = AnswerOf("middleware")
    /\ TooMuchDeclared => stage \in {"begin", "reject", "done"}

NothingIsLost ==
    /\ ~Oversized =>
           /\ answering = "none" => Sent = <<>>
           /\ answering = "started" => Sent = Opening("app")
           /\ answering = "complete" => Sent = AnswerOf("app")
           /\ stage \in {"after", "error", "done"} => sending = None
    /\ raised => stage = "error" \/ too_large
    /\ stage = "error" => raised /\ ~too_large /\ sending = None
    /\ forwarded <= MaxBytes

IndInv == TypeOK /\ AnswersBelong /\ NothingIsLost
=============================================================================
