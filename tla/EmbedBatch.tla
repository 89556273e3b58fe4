----------------------------- MODULE EmbedBatch -----------------------------
(***************************************************************************)
(* embedBatch (embedder/factory.ts): texts are sent to the provider in     *)
(* batches, several at a time.  A batch that fails is tried again, a batch *)
(* that keeps failing because of what is in it is cut in half, and after a *)
(* number of failed batches in a row the provider is left alone.           *)
(***************************************************************************)
EXTENDS Naturals, Sequences, FiniteSets

CONSTANTS
    Count,          \* the number of batches
    BatchSize,
    Concurrency,
    RetryMax,
    MaxFailures,    \* failed batches in a row that open the circuit breaker
    Oversized,      \* texts longer than the model's context
    MaxUpsets       \* bound on answers that go wrong and on changes of the server

ASSUME EmbedBatchAssumption ==
    /\ Count \in Nat \ {0} /\ BatchSize \in Nat \ {0} /\ Concurrency \in Nat \ {0}
    /\ RetryMax \in Nat /\ MaxFailures \in Nat /\ MaxUpsets \in Nat

VARIABLES
    server,         \* "up", or the error it answers everything with
    stage,          \* each batch: "queued", "running", "done"
    work,           \* the parts of each batch still to be embedded, a stack
    vector,         \* the text each text's vector was made of; NoVector, Pending
    failedInARow,
    tripped,
    sent,           \* history: requests sent, up to the bound of a property
    server0,        \* history: what the server was at first
    upsets          \* the answers gone wrong and changes of the server, in order

embed == <<server, stage, work, vector, failedInARow, tripped, sent, server0, upsets>>

Batches == 1..Count
Texts == 1..Count * BatchSize
Pending == 0
NoVector == Count * BatchSize + 1
TextsOf(b) == (b - 1) * BatchSize + 1 .. b * BatchSize
Whole(b) == [from |-> (b - 1) * BatchSize + 1, to |-> b * BatchSize, top |-> TRUE, attempt |-> 0]
MaxSent == (MaxFailures + Concurrency - 1) * (RetryMax + 1)

Errors == {"context", "denied", "gateway", "refused", "short", "timeout"}

EmbedTypeOK ==
    /\ server \in {"up", "gateway", "refused"} /\ server0 \in {"up", "gateway", "refused"}
    /\ stage \in [Batches -> {"queued", "running", "done"}]
    /\ work \in [Batches -> Seq([from : Texts, to : Texts, top : BOOLEAN, attempt : 0..RetryMax])]
    /\ vector \in [Texts -> Texts \cup {Pending, NoVector}]
    /\ failedInARow \in 0..Count /\ tripped \in BOOLEAN
    /\ sent \in 0..MaxSent + 1 /\ upsets \in Seq(Errors \cup {"server"})

EmbedInit ==
    /\ server \in {"up", "gateway", "refused"} /\ server0 = server
    /\ stage = [b \in Batches |-> "queued"]
    /\ work = [b \in Batches |-> <<>>]
    /\ vector = [t \in Texts |-> Pending]
    /\ failedInARow = 0 /\ tripped = FALSE
    /\ sent = 0 /\ upsets = <<>>

-----------------------------------------------------------------------------
\* The errors, told apart by their text: a status that will not change, a request
\* that is too long or too slow, and a server that is not there.
Permanent(error) == error \in {"context", "denied"}
\* (mutant) a request over the context is just another bad request
SplittableUnlessPermanent(error) == ~ Permanent(error) /\ error # "gateway"

Splittable(error) == (~ Permanent(error) \/ error = "context") /\ error # "gateway"

\* Sub-batches get one more attempt, not the full budget.
Retries(part) == IF part.top THEN RetryMax ELSE IF RetryMax > 1 THEN 1 ELSE RetryMax
TriedAgain(part, error) == part.attempt < Retries(part) /\ ~ Permanent(error)

NextAttempt(part) == [part EXCEPT !.attempt = @ + 1]

Halves(part) ==
    LET mid == part.from + (part.to - part.from) \div 2
    IN <<[from |-> part.from, to |-> mid, top |-> FALSE, attempt |-> 0],
         [from |-> mid + 1, to |-> part.to, top |-> FALSE, attempt |-> 0]>>

Answered(part, error) ==
    IF error = "none"
    THEN [t \in Texts |-> IF t \in part.from..part.to THEN t ELSE vector[t]]
    ELSE vector

\* (mutant) one failure more than allowed
RecordTripsLate(succeeded) ==
    /\ failedInARow' = IF succeeded THEN 0 ELSE failedInARow + 1
    /\ tripped' = (tripped \/ (MaxFailures > 0 /\ failedInARow' > MaxFailures))

\* recordBatchResult
Record(succeeded) ==
    /\ failedInARow' = IF succeeded THEN 0 ELSE failedInARow + 1
    /\ tripped' = (tripped \/ (MaxFailures > 0 /\ failedInARow' >= MaxFailures))

-----------------------------------------------------------------------------
Running == {b \in Batches : stage[b] = "running"}

\* p-limit starts the batches in order.  With the breaker open none is sent.
Start(b) ==
    /\ stage[b] = "queued" /\ \A a \in 1 .. b - 1 : stage[a] # "queued"
    /\ Cardinality(Running) < Concurrency
    /\ IF tripped
       THEN /\ stage' = [stage EXCEPT ![b] = "done"]
            /\ vector' = [t \in Texts |-> IF t \in TextsOf(b) THEN NoVector ELSE vector[t]]
            /\ UNCHANGED work
       ELSE /\ stage' = [stage EXCEPT ![b] = "running"]
            /\ work' = [work EXCEPT ![b] = <<Whole(b)>>]
            /\ UNCHANGED vector
    /\ UNCHANGED <<server, failedInARow, tripped, sent, server0, upsets>>

\* The part is finished; with the last one the batch is.
Finished(b, rest, succeeded) ==
    /\ work' = [work EXCEPT ![b] = rest]
    /\ IF rest = <<>>
       THEN stage' = [stage EXCEPT ![b] = "done"] /\ Record(succeeded)
       ELSE UNCHANGED <<stage, failedInARow, tripped>>

Replaced(b, parts) ==
    /\ work' = [work EXCEPT ![b] = parts]
    /\ UNCHANGED <<stage, failedInARow, tripped>>

GivenUp(part) == [t \in Texts |-> IF t \in part.from..part.to THEN NoVector ELSE vector[t]]

\* One request and what is made of its answer.
Handle(b, error) ==
    LET part == Head(work[b])
        rest == Tail(work[b])
        got == Answered(part, error)
    IN /\ sent' = IF sent <= MaxSent THEN sent + 1 ELSE sent
       /\ IF got # vector
          THEN vector' = got /\ Finished(b, rest, TRUE)
          ELSE IF TriedAgain(part, error)
          THEN Replaced(b, <<NextAttempt(part)>> \o rest) /\ UNCHANGED vector
          ELSE IF part.from < part.to /\ Splittable(error)
          THEN Replaced(b, Halves(part) \o rest) /\ UNCHANGED vector
          ELSE vector' = GivenUp(part) /\ Finished(b, rest, ~ part.top)

\* What the provider makes of a request when nothing is wrong with it.
Verdict(part) ==
    IF server # "up" THEN server
    ELSE IF \E t \in part.from..part.to : t \in Oversized THEN "context" ELSE "none"

Upset(kind) == Len(upsets) < MaxUpsets /\ upsets' = Append(upsets, kind)

Request(b) ==
    /\ stage[b] = "running"
    /\ \/ Handle(b, Verdict(Head(work[b]))) /\ UNCHANGED upsets
       \/ /\ server = "up"
          /\ \E error \in Errors \ {"context"} : Upset(error) /\ Handle(b, error)
    /\ UNCHANGED <<server, server0>>

ServerChanges ==
    /\ Upset("server")
    /\ server' \in {"up", "gateway", "refused"} \ {server}
    /\ UNCHANGED <<stage, work, vector, failedInARow, tripped, sent, server0>>

EmbedNext ==
    \/ \E b \in Batches : Start(b) \/ Request(b)
    \/ ServerChanges

EmbedSpec == EmbedInit /\ [][EmbedNext]_embed

-----------------------------------------------------------------------------
EmbedDone == \A b \in Batches : stage[b] = "done"

\* A vector is stored with the text it was made of or not at all, whatever the
\* provider answers and in whichever order the batches end.  An oversized text
\* costs its neighbours nothing, and one answer gone wrong nobody: unless that
\* was a refusal for good, every other text has its vector, wherever in the
\* splitting of a batch the answer was lost.  Without retries a lost answer is
\* lost, and with one text to a batch oversized texts count as failed batches
\* and can open the breaker.
OneLossIsMended ==
    /\ BatchSize > 1
    /\ Len(upsets) <= IF RetryMax = 0 THEN 0 ELSE 1
    /\ \A i \in DOMAIN upsets : upsets[i] \notin {"denied", "server"}
VectorsBelong == \A t \in Texts : vector[t] \in {Pending, NoVector, t}
TextsGetTheirVectors ==
    /\ VectorsBelong
    /\ EmbedDone /\ server0 = "up" /\ OneLossIsMended
          => \A t \in Texts \ Oversized : vector[t] = t

\* A gateway that is down from beginning to end is asked no more often than it
\* takes to trip the breaker, if there is one, and by the batches under way by then.
DeadGatewayLeftAlone ==
    MaxFailures > 0 /\ server0 = "gateway" /\ upsets = <<>> => sent <= MaxSent
=============================================================================
