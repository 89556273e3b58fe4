---------------------------- MODULE PluginSession ----------------------------
(***************************************************************************)
(* One session of the plugin (plugin.ts): the gotchas that it records when *)
(* a tool fails, so that later failures of the same cause find one, and    *)
(* the hotkey that asks for context with the next message.                 *)
(*                                                                         *)
(* A step is what a hook does between two awaits.  Errors are of one tool, *)
(* and their text tells the cause.  How similar a gotcha is to an error is *)
(* any choice.  Times run out in any order.  What a prompt is given of     *)
(* what was recalled is not modelled.                                      *)
(***************************************************************************)
EXTENDS Naturals, FiniteSets

CONSTANTS
    Failures,           \* errors, by signature
    CauseOf,            \* the cause class of each
    Hooks,              \* hooks that can be running at once
    MaxCreated,         \* memory.toolErrorCreateMaxPerSession
    MaxCalls            \* bound on failures, messages, prompts and key presses

VARIABLES
    gotchas,    \* how many there are of each cause
    known,      \* toolGotchaCache: the causes in it, or nothing
    hooks,      \* what each hook is doing
    recalled,   \* sessionToolErrorState: signatures that cool down
    creation,   \* sessionToolErrorCreateState: signatures that cool down, creations
    flag,       \* .pending-injection
    wanted,     \* history: the key pressed and not yet answered
    calls,
    mixed,      \* history: the causes whose gotchas were mixed up
    pressed     \* history: the key was pressed while a message was taking a press

past == <<mixed, pressed>>
session == <<gotchas, known, hooks, recalled, creation, flag, wanted, calls, past>>

Causes == {CauseOf[f] : f \in Failures}
Idle == [step |-> "idle"]
Nothing == {"nothing"}
Recorded == {c \in Causes : gotchas[c] > 0}

SessionTypeOK ==
    /\ gotchas \in [Causes -> 0..MaxCalls] /\ known \in SUBSET Causes \cup {Nothing}
    /\ \A h \in Hooks : hooks[h].step \in
            {"idle", "recalling", "deciding", "creating", "late", "message", "prompt", "counting"}
    /\ recalled \subseteq Failures /\ creation.cooling \subseteq Failures
    /\ creation.count \in 0..MaxCalls
    /\ flag \in {"none", "chunks", "files"} /\ mixed \subseteq Causes /\ pressed \in BOOLEAN

SessionInit ==
    /\ gotchas = [c \in Causes |-> 0] /\ known = Nothing
    /\ hooks = [h \in Hooks |-> Idle]
    /\ recalled = {} /\ creation = [cooling |-> {}, count |-> 0]
    /\ flag = "none" /\ wanted = "none"
    /\ calls = 0 /\ mixed = {} /\ pressed = FALSE

Begins(h, what) ==
    /\ hooks[h] = Idle /\ calls < MaxCalls
    /\ calls' = calls + 1
    /\ hooks' = [hooks EXCEPT ![h] = what]
Ends(h) == hooks' = [hooks EXCEPT ![h] = Idle]

\* getToolErrorQuirks: the list is the cache, or is read and put there later.
Listing == [list |-> IF known = Nothing THEN Recorded ELSE known, read |-> known = Nothing]
\* What was added while it was read is missing from then on.
Cache(listing) ==
    IF listing.read THEN known' = listing.list /\ mixed' = mixed \cup (Recorded \ listing.list)
                    ELSE UNCHANGED <<known, mixed>>

-----------------------------------------------------------------------------
(* interceptError. *)

Handling(cause) ==
    \E h \in Hooks : /\ hooks[h].step \in {"recalling", "deciding", "creating", "late"}
                     /\ CauseOf[hooks[h].failure] = cause

\* While an error of the same signature cools down nothing is done.
Fail(h, f) ==
    /\ f \notin recalled
    /\ Begins(h, [step |-> "recalling", failure |-> f])
    /\ mixed' = IF Handling(CauseOf[f]) THEN mixed \cup {CauseOf[f]} ELSE mixed
    /\ UNCHANGED <<gotchas, known, recalled, creation, flag, wanted, pressed>>

RecallTimedOut(h) ==
    /\ hooks[h].step = "recalling" /\ Ends(h)
    /\ UNCHANGED <<gotchas, known, recalled, creation, flag, wanted, calls, past>>

\* The gotchas that look like the error are candidates.
Recalled(h, candidates) ==
    /\ hooks[h].step = "recalling"
    /\ recalled' = recalled \cup {hooks[h].failure}
    /\ hooks' = [hooks EXCEPT ![h] = [step |-> "deciding", failure |-> hooks[h].failure,
                                      candidates |-> candidates, listing |-> Listing]]
    /\ UNCHANGED <<gotchas, known, creation, flag, wanted, calls, past>>

\* hasEquivalentToolGotcha, or a candidate of that cause.
Equivalent(cause, hook) == cause \in hook.listing.list \cup hook.candidates
ShouldCreate(f) == creation.count < MaxCreated /\ f \notin creation.cooling

Decide(h) ==
    /\ hooks[h].step = "deciding"
    /\ Cache(hooks[h].listing)
    /\ LET f == hooks[h].failure
       IN  IF ~Equivalent(CauseOf[f], hooks[h]) /\ ShouldCreate(f)
           THEN hooks' = [hooks EXCEPT ![h] = [step |-> "creating", failure |-> f]]
           ELSE Ends(h)
    /\ UNCHANGED <<gotchas, recalled, creation, flag, wanted, calls, pressed>>

Add(h) == gotchas' = [gotchas EXCEPT ![CauseOf[hooks[h].failure]] = @ + 1]
Cooled(h, n) ==
    creation' = [cooling |-> creation.cooling \cup {hooks[h].failure}, count |-> creation.count + n]

\* (mutant) the cache is left as it is
CreatedSilently(h) ==
    /\ hooks[h].step = "creating" /\ Ends(h)
    /\ Add(h) /\ Cooled(h, 1)
    /\ UNCHANGED <<known, recalled, flag, wanted, calls, past>>

Created(h) ==
    /\ hooks[h].step = "creating" /\ Ends(h)
    /\ Add(h) /\ Cooled(h, 1)
    /\ known' = Nothing
    /\ UNCHANGED <<recalled, flag, wanted, calls, past>>

\* The quirk was refused, or its addition goes on after its time was up.
NotCreated(h, late) ==
    /\ hooks[h].step = "creating"
    /\ hooks' = [hooks EXCEPT ![h] =
                   IF late THEN [step |-> "late", failure |-> hooks[h].failure] ELSE Idle]
    /\ Cooled(h, 0)
    /\ UNCHANGED <<gotchas, known, recalled, flag, wanted, calls, past>>

\* The cache is not told.
CreatedLate(h) ==
    /\ hooks[h].step = "late" /\ Ends(h) /\ Add(h)
    /\ mixed' = IF known = Nothing THEN mixed ELSE mixed \cup {CauseOf[hooks[h].failure]}
    /\ UNCHANGED <<known, recalled, creation, flag, wanted, calls, pressed>>

-----------------------------------------------------------------------------
(* experimental.chat.system.transform and chat.message. *)

\* A prompt lists the gotchas of the tools that can be called.
Prompt(h) ==
    /\ Begins(h, [step |-> "prompt", listing |-> Listing])
    /\ UNCHANGED <<gotchas, known, recalled, creation, flag, wanted, past>>

PromptListed(h) ==
    /\ hooks[h].step = "prompt" /\ Ends(h)
    /\ Cache(hooks[h].listing)
    /\ UNCHANGED <<gotchas, recalled, creation, flag, wanted, calls, pressed>>

Message(h) ==
    /\ Begins(h, [step |-> "message"])
    /\ UNCHANGED <<gotchas, known, recalled, creation, flag, wanted, past>>

\* (mutant) the key is taken before it is known that something is indexed
PeekTakes(h) ==
    /\ hooks[h].step = "message"
    /\ IF flag = "none" THEN Ends(h)
       ELSE hooks' = [hooks EXCEPT ![h] = [step |-> "counting", type |-> flag]]
    /\ flag' = "none"
    /\ UNCHANGED <<gotchas, known, recalled, creation, wanted, calls, past>>

\* peekPendingRagInjection, after the message's own quirks were selected.
Peek(h) ==
    /\ hooks[h].step = "message"
    /\ IF flag = "none" THEN Ends(h)
       ELSE hooks' = [hooks EXCEPT ![h] = [step |-> "counting", type |-> flag]]
    /\ UNCHANGED <<gotchas, known, recalled, creation, flag, wanted, calls, past>>

\* Nothing is indexed: the key stays.
NothingIndexed(h) ==
    /\ hooks[h].step = "counting" /\ Ends(h)
    /\ UNCHANGED <<gotchas, known, recalled, creation, flag, wanted, calls, past>>

Consume(h) ==
    /\ hooks[h].step = "counting" /\ Ends(h)
    /\ flag' = "none"
    /\ wanted' = IF wanted = hooks[h].type THEN "none" ELSE wanted
    /\ UNCHANGED <<gotchas, known, recalled, creation, calls, past>>

\* The terminal sets the flag, whatever the plugin is doing.
Press(type) ==
    /\ calls < MaxCalls /\ calls' = calls + 1
    /\ flag' = type /\ wanted' = type
    /\ pressed' = (pressed \/ \E h \in Hooks : hooks[h].step = "counting")
    /\ UNCHANGED <<gotchas, known, hooks, recalled, creation, mixed>>

-----------------------------------------------------------------------------
(* Time, and other sessions. *)

RecallCooled(f) ==
    /\ f \in recalled /\ recalled' = recalled \ {f}
    /\ UNCHANGED <<gotchas, known, hooks, creation, flag, wanted, calls, past>>

CreationCooled(f) ==
    /\ f \in creation.cooling
    /\ creation' = [creation EXCEPT !.cooling = @ \ {f}]
    /\ UNCHANGED <<gotchas, known, hooks, recalled, flag, wanted, calls, past>>

CacheExpires ==
    /\ known # Nothing /\ known' = Nothing
    /\ UNCHANGED <<gotchas, hooks, recalled, creation, flag, wanted, calls, past>>

\* The maps hold fifty sessions and drop the one that came first.
Evicted ==
    /\ recalled' = {} /\ creation' = [cooling |-> {}, count |-> 0]
    /\ UNCHANGED <<gotchas, known, hooks, flag, wanted, calls, past>>

Hook(h) ==
    \/ \E f \in Failures : Fail(h, f)
    \/ RecallTimedOut(h) \/ \E candidates \in SUBSET Recorded : Recalled(h, candidates)
    \/ Decide(h) \/ Created(h) \/ \E late \in BOOLEAN : NotCreated(h, late)
    \/ CreatedLate(h)
    \/ Prompt(h) \/ PromptListed(h)
    \/ Message(h) \/ Peek(h) \/ NothingIndexed(h) \/ Consume(h)
Elapses == CacheExpires \/ Evicted \/ \E f \in Failures : RecallCooled(f) \/ CreationCooled(f)

SessionNext == (\E h \in Hooks : Hook(h)) \/ Elapses \/ \E t \in {"chunks", "files"} : Press(t)
SessionSpec == SessionInit /\ [][SessionNext]_session

-----------------------------------------------------------------------------
\* The tool has one gotcha for each cause, whatever the session has forgotten and
\* whatever hooks list, drop and refill the cache meanwhile, for this cause and for
\* others.  Excepted is a cause of which two errors were handled at once, or which
\* a list that was cached is missing because it had been read before the gotcha was
\* there, or because the gotcha came after its time was up.
OneGotchaPerCause == \A c \in Causes \ mixed : gotchas[c] <= 1

\* A key press is not lost: it waits until a message takes it, unless it comes
\* while a message is looking at an earlier one.
KeyPressesWait == ~ pressed => flag = wanted
=============================================================================
