---------------------------- MODULE Plugin_proofs -----------------------------
(***************************************************************************)
(* What PluginSession, ConfigLayers and QuirkStore guarantee for every     *)
(* set of hooks, failures and causes, every set of models and options, and *)
(* every set of quirks and processes: that the plugin's memory, the quirks *)
(* and the settings, which several writers share, keep what each of them   *)
(* saw.                                                                    *)
(***************************************************************************)
EXTENDS PluginSession, ConfigLayers, QuirkStore, TLAPS

-----------------------------------------------------------------------------
(* PluginSession: gotchas and key presses *)

\* The steps of a hook that handles an error, and all the steps a hook waits at.
HandlingSteps == {"recalling", "deciding", "creating", "late"}
SessionSteps == HandlingSteps \cup {"idle", "message", "prompt", "counting"}

\* What the argument needs of the types.
SessionTypes ==
    /\ hooks = [h \in Hooks |-> hooks[h]]
    /\ \A h \in Hooks : hooks[h].step \in SessionSteps
    /\ \A h \in Hooks : hooks[h].step \in HandlingSteps => hooks[h].failure \in Failures
    /\ gotchas \in [Causes -> Nat]

\* A hook that handles an error of cause c.  The list it decides by has the gotcha
\* of c if there is one, and if it goes on to create one there is none.
Handles(hook, c) == hook.step \in HandlingSteps /\ CauseOf[hook.failure] = c
Knows(hook, c) ==
    /\ hook.step = "deciding" /\ gotchas[c] > 0 => c \in hook.listing.list
    /\ hook.step \in {"creating", "late"} => gotchas[c] = 0

\* What holds of a cause that was not mixed up: one gotcha, which a cached list
\* has, and one error at a time.
KeptApart(c) ==
    /\ gotchas[c] <= 1
    /\ known # Nothing /\ gotchas[c] > 0 => c \in known
    /\ \A h, k \in Hooks : Handles(hooks[h], c) /\ Handles(hooks[k], c) => h = k
    /\ \A h \in Hooks : Handles(hooks[h], c) => Knows(hooks[h], c)

CausesApart == \A c \in Causes \ mixed : KeptApart(c)

\* A message that took note of a key press answers that one.
PressesSeen ==
    ~ pressed =>
        /\ flag = wanted
        /\ \A h \in Hooks : hooks[h].step = "counting" => wanted \in {"none", hooks[h].type}

-----------------------------------------------------------------------------
\* One hook goes on, the others do not.
OnlyHook(h) == hooks' = [hooks EXCEPT ![h] = hooks'[h]]

\* What a step of one hook changes.
LEMMA HookMoves ==
    ASSUME SessionTypes, NEW h \in Hooks, NEW what, hooks' = [hooks EXCEPT ![h] = what]
    PROVE  /\ hooks'[h] = what /\ hooks' = [k \in Hooks |-> hooks'[k]]
           /\ \A k \in Hooks : k # h => hooks'[k] = hooks[k]
BY DEF SessionTypes

\* A hook that goes on to a legal step keeps the types.
LEMMA TypesMove ==
    ASSUME SessionTypes, NEW h \in Hooks, NEW what, hooks' = [hooks EXCEPT ![h] = what],
           what.step \in SessionSteps, what.step \in HandlingSteps => what.failure \in Failures,
           gotchas' \in [Causes -> Nat]
    PROVE  SessionTypes'
<1>1. /\ hooks'[h] = what /\ hooks' = [k \in Hooks |-> hooks'[k]]
      /\ \A k \in Hooks : k # h => hooks'[k] = hooks[k]
  BY HookMoves
<1> QED BY <1>1 DEF SessionTypes

\* Every failure has a cause.
LEMMA CausesOfFailures == \A f \in Failures : CauseOf[f] \in Causes
BY DEF Causes

\* The kinds of step of a hook: it starts or stops, or goes on with its error.
LEMMA HookCases ==
    ASSUME SessionTypes, NEW h \in Hooks, Hook(h)
    PROVE  SessionTypes'
<1> USE DEF SessionSteps, HandlingSteps
<1>0. gotchas \in [Causes -> Nat]
  BY DEF SessionTypes
<1>1. Idle.step = "idle"
  BY DEF Idle
<1>2. ASSUME Ends(h), gotchas' \in [Causes -> Nat] PROVE SessionTypes'
  BY <1>1, <1>2, TypesMove DEF Ends
<1>3. ASSUME NEW f \in Failures, Fail(h, f) PROVE SessionTypes'
  BY <1>0, <1>3, TypesMove DEF Fail, Begins
<1>4. ASSUME RecallTimedOut(h) \/ CreatedLate(h) \/ Created(h) \/ PromptListed(h) \/ NothingIndexed(h) \/ Consume(h)
      PROVE SessionTypes'
  <2>1. Ends(h)
    BY <1>4 DEF RecallTimedOut, CreatedLate, Created, PromptListed, NothingIndexed, Consume
  <2>2. gotchas' = gotchas \/ (Add(h) /\ hooks[h].step \in HandlingSteps)
    BY <1>4 DEF RecallTimedOut, CreatedLate, Created, PromptListed, NothingIndexed, Consume
  <2>3. gotchas' \in [Causes -> Nat]
    BY <1>0, <2>2, CausesOfFailures DEF Add, SessionTypes
  <2> QED BY <1>2, <2>1, <2>3
<1>5. ASSUME NEW candidates, Recalled(h, candidates) PROVE SessionTypes'
  <2>1. hooks[h].failure \in Failures /\ gotchas' = gotchas
    BY <1>5 DEF Recalled, SessionTypes
  <2> QED BY <1>0, <1>5, <2>1, TypesMove DEF Recalled
<1>6. ASSUME Decide(h) PROVE SessionTypes'
  <2>1. hooks[h].failure \in Failures /\ gotchas' = gotchas
    BY <1>6 DEF Decide, SessionTypes
  <2>2. Ends(h) \/ hooks' = [hooks EXCEPT ![h] = [step |-> "creating", failure |-> hooks[h].failure]]
    BY <1>6 DEF Decide
  <2> QED BY <1>0, <1>2, <2>1, <2>2, TypesMove
<1>7. ASSUME NEW late \in BOOLEAN, NotCreated(h, late) PROVE SessionTypes'
  <2>1. hooks[h].failure \in Failures /\ gotchas' = gotchas
    BY <1>7 DEF NotCreated, SessionTypes
  <2>2. Ends(h) \/ hooks' = [hooks EXCEPT ![h] = [step |-> "late", failure |-> hooks[h].failure]]
    BY <1>7 DEF NotCreated, Ends
  <2> QED BY <1>0, <1>2, <2>1, <2>2, TypesMove
<1>8. ASSUME Prompt(h) \/ Message(h) PROVE SessionTypes'
  BY <1>0, <1>8, TypesMove DEF Prompt, Message, Begins
<1>9. ASSUME Peek(h) PROVE SessionTypes'
  <2>1. gotchas' = gotchas
    BY <1>9 DEF Peek
  <2>2. Ends(h) \/ hooks' = [hooks EXCEPT ![h] = [step |-> "counting", type |-> flag]]
    BY <1>9 DEF Peek
  <2> QED BY <1>0, <1>2, <2>1, <2>2, TypesMove
<1> QED BY <1>3, <1>4, <1>5, <1>6, <1>7, <1>8, <1>9 DEF Hook

\* No step leaves the types.
LEMMA TypesStep == SessionTypes /\ [SessionNext]_session => SessionTypes'
<1> SUFFICES ASSUME SessionTypes, [SessionNext]_session PROVE SessionTypes'
  OBVIOUS
<1>1. ASSUME Elapses \/ (\E t \in {"chunks", "files"} : Press(t)) \/ UNCHANGED session PROVE SessionTypes'
  <2>1. hooks' = hooks /\ gotchas' = gotchas
    BY <1>1 DEF Elapses, CacheExpires, Evicted, RecallCooled, CreationCooled, Press, session
  <2> QED BY <2>1 DEF SessionTypes
<1> QED BY <1>1, HookCases DEF SessionNext

-----------------------------------------------------------------------------
(* Key presses. *)

\* No message, prompt or count loses a key press or takes another one.
LEMMA PressesStep == SessionTypes /\ PressesSeen /\ [SessionNext]_session => PressesSeen'
<1> SUFFICES ASSUME SessionTypes, PressesSeen, [SessionNext]_session, ~ pressed'
             PROVE  /\ flag' = wanted'
                    /\ \A h \in Hooks : hooks'[h].step = "counting" => wanted' \in {"none", hooks'[h].type}
  BY DEF PressesSeen
<1>1. pressed => pressed'
  BY DEF SessionNext, Hook, Elapses, Fail, RecallTimedOut, Recalled, Decide, Created, NotCreated,
         CreatedLate, Prompt, PromptListed, Message, Peek, NothingIndexed, Consume, Press,
         RecallCooled, CreationCooled, CacheExpires, Evicted, session, past
<1>2. flag = wanted /\ \A h \in Hooks : hooks[h].step = "counting" => wanted \in {"none", hooks[h].type}
  BY <1>1 DEF PressesSeen
<1>3. ASSUME NEW h \in Hooks, NEW what, hooks' = [hooks EXCEPT ![h] = what], what.step # "counting",
             flag' = flag, wanted' = wanted
      PROVE  /\ flag' = wanted'
             /\ \A k \in Hooks : hooks'[k].step = "counting" => wanted' \in {"none", hooks'[k].type}
  <2>1. hooks'[h] = what /\ \A k \in Hooks : k # h => hooks'[k] = hooks[k]
    BY <1>3, HookMoves
  <2> QED BY <1>2, <1>3, <2>1
<1>4. Idle.step # "counting"
  BY DEF Idle
<1>5. ASSUME NEW h \in Hooks, Peek(h)
      PROVE  /\ flag' = wanted'
             /\ \A k \in Hooks : hooks'[k].step = "counting" => wanted' \in {"none", hooks'[k].type}
  <2>1. flag' = flag /\ wanted' = wanted
    BY <1>5 DEF Peek
  <2>2. CASE flag = "none"
    BY <1>3, <1>4, <1>5, <2>1, <2>2 DEF Peek, Ends
  <2>3. CASE flag # "none"
    <3>1. hooks' = [hooks EXCEPT ![h] = [step |-> "counting", type |-> flag]]
      BY <1>5, <2>3 DEF Peek
    <3>2. hooks'[h].type = flag /\ \A k \in Hooks : k # h => hooks'[k] = hooks[k]
      BY <3>1, HookMoves
    <3> QED BY <1>2, <2>1, <3>2
  <2> QED BY <2>2, <2>3
<1>6. ASSUME NEW h \in Hooks, Consume(h)
      PROVE  /\ flag' = wanted'
             /\ \A k \in Hooks : hooks'[k].step = "counting" => wanted' \in {"none", hooks'[k].type}
  <2>1. hooks[h].step = "counting" /\ flag' = "none" /\ wanted' = IF wanted = hooks[h].type THEN "none" ELSE wanted
    BY <1>6 DEF Consume
  <2>2. wanted' = "none"
    BY <1>2, <2>1
  <2> QED BY <2>1, <2>2
<1>7. ASSUME NEW h \in Hooks, Hook(h), ~ Peek(h), ~ Consume(h)
      PROVE  /\ flag' = wanted'
             /\ \A k \in Hooks : hooks'[k].step = "counting" => wanted' \in {"none", hooks'[k].type}
  <2>1. flag' = flag /\ wanted' = wanted
    BY <1>7 DEF Hook, Fail, RecallTimedOut, Recalled, Decide, Created, NotCreated,
         CreatedLate, Prompt, PromptListed, Message, NothingIndexed
  <2>2. \E what : hooks' = [hooks EXCEPT ![h] = what] /\ what.step # "counting"
    <3>1. CASE \E f \in Failures : Fail(h, f)
      <4>1. PICK f \in Failures : Fail(h, f)
        BY <3>1
      <4>2. hooks' = [hooks EXCEPT ![h] = [step |-> "recalling", failure |-> f]]
        BY <4>1 DEF Fail, Begins
      <4>3. [step |-> "recalling", failure |-> f].step # "counting"
        OBVIOUS
      <4> QED BY <4>2, <4>3, Zenon
    <3>2. CASE RecallTimedOut(h) \/ Created(h) \/ CreatedLate(h) \/ PromptListed(h) \/ NothingIndexed(h)
      BY <3>2, <1>4 DEF RecallTimedOut, Created, CreatedLate, PromptListed, NothingIndexed, Ends
    <3>3. CASE \E candidates \in SUBSET Recorded : Recalled(h, candidates)
      BY <3>3 DEF Recalled
    <3>4. CASE Decide(h)
      BY <3>4, <1>4 DEF Decide, Ends
    <3>5. CASE \E late \in BOOLEAN : NotCreated(h, late)
      <4>1. \/ hooks' = [hooks EXCEPT ![h] = Idle]
            \/ hooks' = [hooks EXCEPT ![h] = [step |-> "late", failure |-> hooks[h].failure]]
        BY <3>5 DEF NotCreated
      <4>2. [step |-> "late", failure |-> hooks[h].failure].step # "counting"
        OBVIOUS
      <4> QED BY <1>4, <4>1, <4>2, Zenon
    <3>6. CASE Prompt(h) \/ Message(h)
      <4>1. \/ hooks' = [hooks EXCEPT ![h] = [step |-> "prompt", listing |-> Listing]]
            \/ hooks' = [hooks EXCEPT ![h] = [step |-> "message"]]
        BY <3>6 DEF Prompt, Message, Begins
      <4>2. /\ [step |-> "prompt", listing |-> Listing].step # "counting"
            /\ [step |-> "message"].step # "counting"
        OBVIOUS
      <4> QED BY <4>1, <4>2, Zenon
    <3> QED BY <1>7, <3>1, <3>2, <3>3, <3>4, <3>5, <3>6 DEF Hook
  <2> QED BY <1>3, <2>1, <2>2
<1>8. CASE Elapses \/ UNCHANGED session
  <2>1. hooks' = hooks /\ flag' = flag /\ wanted' = wanted
    BY <1>8 DEF Elapses, CacheExpires, Evicted, RecallCooled, CreationCooled, session
  <2> QED BY <1>2, <2>1
<1>9. ASSUME NEW t \in {"chunks", "files"}, Press(t)
      PROVE  /\ flag' = wanted'
             /\ \A k \in Hooks : hooks'[k].step = "counting" => wanted' \in {"none", hooks'[k].type}
  BY <1>9 DEF Press
<1> QED BY <1>5, <1>6, <1>7, <1>8, <1>9 DEF SessionNext


-----------------------------------------------------------------------------
(* Gotchas. *)

\* What was mixed up once stays noted.
LEMMA MixedStays == [SessionNext]_session => mixed \subseteq mixed'
BY DEF SessionNext, Hook, Elapses, Fail, RecallTimedOut, Recalled, Decide, Cache, Created, NotCreated,
       CreatedLate, Prompt, PromptListed, Message, Peek, NothingIndexed, Consume, Press,
       RecallCooled, CreationCooled, CacheExpires, Evicted, session, past

\* A hook that goes on without a gotcha of cause c keeps it apart, whatever it does
\* about other causes: it says what the hook becomes and what is cached.
LEMMA NothingAdded ==
    ASSUME SessionTypes, NEW c \in Causes, KeptApart(c),
           NEW h \in Hooks, NEW what, hooks' = [hooks EXCEPT ![h] = what],
           gotchas'[c] = gotchas[c],
           known' = Nothing \/ known' = known \/ (gotchas[c] > 0 => c \in known'),
           Handles(what, c) =>
               /\ Handles(hooks[h], c) \/ \A k \in Hooks : ~ Handles(hooks[k], c)
               /\ Knows(what, c)
    PROVE  KeptApart(c)'
<1>1. hooks'[h] = what /\ \A k \in Hooks : k # h => hooks'[k] = hooks[k]
  BY HookMoves
<1>2. gotchas'[c] <= 1 /\ (known' # Nothing /\ gotchas'[c] > 0 => c \in known')
  BY DEF KeptApart, Nothing
<1>3. \A k \in Hooks : Handles(hooks'[k], c) /\ k # h => Handles(hooks[k], c)
  BY <1>1
<1>4. \A k, l \in Hooks : Handles(hooks'[k], c) /\ Handles(hooks'[l], c) => k = l
  BY <1>1, <1>3 DEF KeptApart
<1>5. ASSUME NEW k \in Hooks, Handles(hooks'[k], c) PROVE Knows(hooks[k], c)'
  <2>1. CASE k = h
    BY <1>1, <1>5, <2>1 DEF Knows
  <2>2. CASE k # h
    <3>1. Knows(hooks[k], c) /\ hooks'[k] = hooks[k]
      BY <1>1, <1>3, <1>5, <2>2 DEF KeptApart
    <3> QED BY <3>1 DEF Knows
  <2> QED BY <2>1, <2>2
<1> QED BY <1>2, <1>4, <1>5 DEF KeptApart, Handles

\* A hook at rest handles nothing.
LEMMA IdleIsHarmless == Idle.step \notin HandlingSteps /\ Idle.step = "idle"
BY DEF Idle, HandlingSteps

\* A hook that ends without a gotcha of cause c keeps it apart.
LEMMA NothingAddedAtRest ==
    ASSUME SessionTypes, NEW c \in Causes, KeptApart(c), NEW h \in Hooks, Ends(h),
           gotchas'[c] = gotchas[c],
           known' = Nothing \/ known' = known \/ (gotchas[c] > 0 => c \in known')
    PROVE  KeptApart(c)'
BY NothingAdded, IdleIsHarmless DEF Ends, Handles

\* The list that is read, from the cache or from the store, has the gotcha.
LEMMA ListingHasIt ==
    ASSUME NEW c \in Causes, KeptApart(c), gotchas[c] > 0 PROVE c \in Listing.list
BY DEF KeptApart, Listing, Recorded

\* A list is cached that has it, unless it is mixed up by that.
LEMMA CachedHasIt ==
    ASSUME NEW c \in Causes, NEW listing, Cache(listing), c \notin mixed'
    PROVE  known' = known \/ (gotchas[c] > 0 => c \in known')
BY DEF Cache, Recorded

\* A gotcha that is created, in time or late, is the first of its cause and the
\* cache does not say that there is none.
LEMMA AddedIsFirst ==
    ASSUME SessionTypes, NEW c \in Causes, KeptApart(c), NEW h \in Hooks,
           hooks[h].step \in {"creating", "late"}, Ends(h), Add(h),
           known' = Nothing \/ (known' = known /\ CauseOf[hooks[h].failure] # c)
    PROVE  KeptApart(c)'
<1> DEFINE d == CauseOf[hooks[h].failure]
<1>1. hooks[h].step \in HandlingSteps /\ d \in Causes
  BY CausesOfFailures DEF SessionTypes, HandlingSteps
<1>2. gotchas' = [gotchas EXCEPT ![d] = gotchas[d] + 1] /\ gotchas \in [Causes -> Nat]
  BY DEF Add, SessionTypes
<1>3. CASE d # c
  <2>1. gotchas'[c] = gotchas[c]
    BY <1>1, <1>2, <1>3
  <2> QED BY <2>1, NothingAddedAtRest
<1>4. CASE d = c
  <2>1. Handles(hooks[h], c)
    BY <1>1, <1>4 DEF Handles
  <2>2. gotchas[c] = 0
    BY <2>1 DEF KeptApart, Knows
  <2>3. gotchas'[c] = 1 /\ known' = Nothing
    BY <1>2, <1>4, <2>2
  <2>4. hooks'[h] = Idle /\ \A k \in Hooks : k # h => hooks'[k] = hooks[k]
    BY HookMoves DEF Ends
  <2>5. \A k \in Hooks : ~ Handles(hooks'[k], c)
    BY <2>1, <2>4, IdleIsHarmless DEF KeptApart, Handles
  <2> QED BY <2>3, <2>5 DEF KeptApart, Handles
<1> QED BY <1>3, <1>4

\* No step mixes up a cause without noting it.
LEMMA GotchasStep == SessionTypes /\ CausesApart /\ [SessionNext]_session => CausesApart'
<1> SUFFICES ASSUME SessionTypes, CausesApart, [SessionNext]_session, NEW c \in Causes, c \notin mixed'
             PROVE  KeptApart(c)'
  BY DEF CausesApart, Causes
<1>1. KeptApart(c)
  BY MixedStays DEF CausesApart
<1> USE <1>1
<1>3. ASSUME NEW h \in Hooks, NEW f \in Failures, Fail(h, f) PROVE KeptApart(c)'
  <2> DEFINE what == [step |-> "recalling", failure |-> f]
  <2>1. hooks' = [hooks EXCEPT ![h] = what] /\ gotchas' = gotchas /\ known' = known
    BY <1>3 DEF Fail, Begins
  <2>2. CauseOf[f] = c => \A k \in Hooks : ~ Handles(hooks[k], c)
    BY <1>3 DEF Fail, Handling, Handles, HandlingSteps
  <2>3. Handles(what, c) => CauseOf[f] = c /\ Knows(what, c)
    BY DEF Handles, Knows
  <2> HIDE DEF what
  <2> QED BY <2>1, <2>2, <2>3, NothingAdded
<1>4. ASSUME NEW h \in Hooks, RecallTimedOut(h) \/ NothingIndexed(h) \/ Consume(h)
      PROVE  KeptApart(c)'
  <2>1. Ends(h) /\ gotchas' = gotchas /\ known' = known
    BY <1>4 DEF RecallTimedOut, NothingIndexed, Consume
  <2> QED BY <2>1, NothingAddedAtRest
<1>5. ASSUME NEW h \in Hooks, PromptListed(h) PROVE KeptApart(c)'
  <2>1. Ends(h) /\ gotchas' = gotchas /\ Cache(hooks[h].listing)
    BY <1>5 DEF PromptListed
  <2> QED BY <2>1, CachedHasIt, NothingAddedAtRest
<1>6. ASSUME NEW h \in Hooks, NEW candidates, Recalled(h, candidates) PROVE KeptApart(c)'
  <2> DEFINE what == [step |-> "deciding", failure |-> hooks[h].failure,
                      candidates |-> candidates, listing |-> Listing]
  <2>1. /\ hooks' = [hooks EXCEPT ![h] = what]
        /\ hooks[h].step = "recalling" /\ gotchas' = gotchas /\ known' = known
    BY <1>6 DEF Recalled
  <2>2. Handles(what, c) => Handles(hooks[h], c) /\ Knows(what, c)
    BY <2>1, ListingHasIt DEF Handles, Knows, HandlingSteps
  <2> HIDE DEF what
  <2> QED BY <2>1, <2>2, NothingAdded
<1>7. ASSUME NEW h \in Hooks, Decide(h) PROVE KeptApart(c)'
  <2>1. hooks[h].step = "deciding" /\ gotchas' = gotchas /\ Cache(hooks[h].listing)
    BY <1>7 DEF Decide
  <2>2. known' = known \/ (gotchas[c] > 0 => c \in known')
    BY <2>1, CachedHasIt
  <2>3. CASE ~ Equivalent(CauseOf[hooks[h].failure], hooks[h]) /\ ShouldCreate(hooks[h].failure)
    <3> DEFINE what == [step |-> "creating", failure |-> hooks[h].failure]
    <3>1. hooks' = [hooks EXCEPT ![h] = what]
      BY <1>7, <2>3 DEF Decide
    <3>2. ASSUME Handles(what, c) PROVE Handles(hooks[h], c) /\ Knows(what, c)
      <4>1. CauseOf[hooks[h].failure] = c /\ Handles(hooks[h], c)
        BY <2>1, <3>2 DEF Handles, HandlingSteps
      <4>2. c \notin hooks[h].listing.list
        BY <2>3, <4>1 DEF Equivalent
      <4>3. gotchas[c] = 0
        BY <2>1, <4>1, <4>2 DEF KeptApart, Knows, SessionTypes
      <4> QED BY <4>1, <4>3 DEF Knows
    <3> HIDE DEF what
    <3> QED BY <2>1, <2>2, <3>1, <3>2, NothingAdded
  <2>4. CASE ~ (~ Equivalent(CauseOf[hooks[h].failure], hooks[h]) /\ ShouldCreate(hooks[h].failure))
    BY <1>7, <2>1, <2>2, <2>4, NothingAddedAtRest DEF Decide
  <2> QED BY <2>3, <2>4
<1>8. ASSUME NEW h \in Hooks, NEW late \in BOOLEAN, NotCreated(h, late) PROVE KeptApart(c)'
  <2>1. gotchas' = gotchas /\ known' = known /\ hooks[h].step = "creating"
    BY <1>8 DEF NotCreated
  <2>2. CASE ~ late
    BY <1>8, <2>1, <2>2, NothingAddedAtRest DEF NotCreated, Ends
  <2>3. CASE late
    <3> DEFINE what == [step |-> "late", failure |-> hooks[h].failure]
    <3>1. hooks' = [hooks EXCEPT ![h] = what]
      BY <1>8, <2>3 DEF NotCreated
    <3>2. Handles(what, c) => Handles(hooks[h], c) /\ Knows(what, c)
      BY <2>1 DEF Handles, Knows, HandlingSteps, KeptApart
    <3> HIDE DEF what
    <3> QED BY <2>1, <3>1, <3>2, NothingAdded
  <2> QED BY <2>2, <2>3
<1>9. ASSUME NEW h \in Hooks, Created(h) PROVE KeptApart(c)'
  BY <1>9, AddedIsFirst DEF Created
<1>10. ASSUME NEW h \in Hooks, CreatedLate(h) PROVE KeptApart(c)'
  <2>1. hooks[h].step = "late" /\ Ends(h) /\ Add(h) /\ known' = known
    BY <1>10 DEF CreatedLate
  <2>2. known = Nothing \/ CauseOf[hooks[h].failure] # c
    BY <1>10 DEF CreatedLate
  <2> QED BY <2>1, <2>2, AddedIsFirst
<1>11. ASSUME NEW h \in Hooks, Prompt(h) \/ Message(h) \/ Peek(h) PROVE KeptApart(c)'
  <2>1. gotchas' = gotchas /\ known' = known
    BY <1>11 DEF Prompt, Message, Peek
  <2>2. ASSUME NEW what, hooks' = [hooks EXCEPT ![h] = what], what.step \notin HandlingSteps
        PROVE  KeptApart(c)'
    BY <2>1, <2>2, NothingAdded DEF Handles
  <2>3. CASE Prompt(h)
    <3> DEFINE what == [step |-> "prompt", listing |-> Listing]
    <3>1. hooks' = [hooks EXCEPT ![h] = what] /\ what.step \notin HandlingSteps
      BY <2>3 DEF Prompt, Begins, HandlingSteps
    <3> HIDE DEF what
    <3> QED BY <2>2, <3>1
  <2>4. CASE Message(h)
    <3> DEFINE what == [step |-> "message"]
    <3>1. hooks' = [hooks EXCEPT ![h] = what] /\ what.step \notin HandlingSteps
      BY <2>4 DEF Message, Begins, HandlingSteps
    <3> HIDE DEF what
    <3> QED BY <2>2, <3>1
  <2>5. CASE Peek(h) /\ flag = "none"
    BY <2>1, <2>5, NothingAddedAtRest DEF Peek
  <2>6. CASE Peek(h) /\ flag # "none"
    <3> DEFINE what == [step |-> "counting", type |-> flag]
    <3>1. hooks' = [hooks EXCEPT ![h] = what] /\ what.step \notin HandlingSteps
      BY <2>6 DEF Peek, HandlingSteps
    <3> HIDE DEF what
    <3> QED BY <2>2, <3>1
  <2> QED BY <1>11, <2>3, <2>4, <2>5, <2>6
<1>12. CASE Elapses \/ (\E t \in {"chunks", "files"} : Press(t)) \/ UNCHANGED session
  <2>1. hooks' = hooks /\ gotchas' = gotchas /\ (known' = known \/ known' = Nothing)
    BY <1>12 DEF Elapses, CacheExpires, Evicted, RecallCooled, CreationCooled, Press, session
  <2> QED BY <2>1 DEF KeptApart, Handles, Knows, Nothing
<1>13. ASSUME NEW h \in Hooks, Hook(h) PROVE KeptApart(c)'
  BY <1>3, <1>4, <1>5, <1>6, <1>7, <1>8, <1>9, <1>10, <1>11, <1>13 DEF Hook
<1> QED BY <1>12, <1>13 DEF SessionNext

\* The inductive invariant holds always.
LEMMA SessionInvariant == SessionSpec => [](SessionTypes /\ PressesSeen /\ CausesApart)
<1>1. SessionInit => SessionTypes /\ PressesSeen /\ CausesApart
  <2> SUFFICES ASSUME SessionInit PROVE SessionTypes /\ PressesSeen /\ CausesApart
    OBVIOUS
  <2>1. \A h \in Hooks : hooks[h] = Idle
    BY DEF SessionInit
  <2>2. SessionTypes
    BY <2>1, IdleIsHarmless DEF SessionInit, SessionTypes, SessionSteps
  <2>3. PressesSeen
    BY <2>1 DEF SessionInit, PressesSeen, Idle
  <2>4. CausesApart
    BY <2>1, IdleIsHarmless DEF SessionInit, CausesApart, KeptApart, Handles
  <2> QED BY <2>2, <2>3, <2>4
<1>2. SessionTypes /\ PressesSeen /\ CausesApart /\ [SessionNext]_session
         => SessionTypes' /\ PressesSeen' /\ CausesApart'
  BY TypesStep, PressesStep, GotchasStep
<1> QED BY <1>1, <1>2, PTL DEF SessionSpec

\* However often the plugin forgets what it has done, and whatever else it is
\* doing, a cause of failure gets one gotcha, unless two of its errors were handled
\* at once or the cached list came to miss it.
THEOREM CausesGetOneGotcha == SessionSpec => []OneGotchaPerCause
<1>1. CausesApart => OneGotchaPerCause
  BY DEF CausesApart, KeptApart, OneGotchaPerCause
<1> QED BY <1>1, SessionInvariant, PTL

\* The hotkey is answered by exactly the message that takes it.
THEOREM PressesAreAnswered == SessionSpec => []KeyPressesWait
<1>1. PressesSeen => KeyPressesWait
  BY DEF PressesSeen, KeyPressesWait
<1> QED BY <1>1, SessionInvariant, PTL

-----------------------------------------------------------------------------
(* ConfigLayers: saves and overrides *)

\* What the argument needs of the types: which fields a record has.
AFile(file) ==
    file \in [model : {file.model}, dim : {file.dim}, section : {file.section}, stamp : Nat]
AView(view) ==
    view \in [draft : {view.draft}, stamps : Nat \X Nat, refreshed : {view.refreshed},
              values : {view.values}]

\* The same of the overrides.
AnOverride(o) == o \in [model : {o.model}, option : {o.option}]

\* The files, the view, the overrides and what the wizard keeps are such records.
SettingsTypes ==
    /\ AFile(global) /\ AFile(project) /\ AView(browser)
    /\ AnOverride(overrides)
    /\ setup # Unset /\ setup.step = "strip" => AFile(setup.project)

\* What the view shows is what is in the files whose times it has, unless a click
\* on a theme has brought it new times.
ViewShowsFiles ==
    /\ browser.stamps[1] <= global.stamp /\ browser.stamps[2] <= project.stamp
    /\ ~ browser.refreshed =>
          /\ browser.stamps[1] = global.stamp => browser.values["global"] = global.model
          /\ browser.stamps[2] = project.stamp => browser.values["project"] = option
          /\ browser.draft # NoDraft => browser.draft.shown = browser.values[browser.draft.layer]

\* An override of the option is that of the file, or somebody is about to make
\* it so: the dialog writes the file, or the view clears the override.
Writing == \E v \in Options : tui = [writes |-> v] /\ overrides.option \in {Unset, v}
NoneWriting == \A v \in Options : tui # [writes |-> v]
OverridesFollow ==
    reverted \/ Writing \/ (NoneWriting /\ (overrides.option \in {Unset, option} \/ web = "project"))

\* What the dialog of the terminal can be in the middle of.
TuiStates == tui = Unset \/ tui = [clears |-> "model"] \/ \E v \in Options : tui = [writes |-> v]

-----------------------------------------------------------------------------
\* What writing a file changes: its time.
LEMMA WrittenFile ==
    ASSUME NEW file, AFile(file)
    PROVE  AFile(Written(file)) /\ Written(file).stamp = file.stamp + 1 /\ Written(file).model = file.model
BY DEF AFile, Written

\* The changes that the writers make.
WithModel(file, m) == [file EXCEPT !.model = m, !.section = TRUE]
SetUp(file, m, d) == [file EXCEPT !.model = m, !.section = TRUE, !.dim = d]
Repaired(file, m) == [file EXCEPT !.model = m, !.dim = Unset, !.section = TRUE]
RepairedMachine(file, m) == [file EXCEPT !.model = m, !.dim = Unset]
Probed(file, d) == [file EXCEPT !.dim = d, !.section = TRUE]
Stripped(file, n) == [file EXCEPT !.model = Unset, !.dim = Unset, !.stamp = n]

\* Whatever is changed in a file, it stays one, and its time with it.
LEMMA ChangedFile ==
    ASSUME NEW file, AFile(file), NEW m, NEW d, NEW n \in Nat
    PROVE  /\ AFile(WithModel(file, m)) /\ WithModel(file, m).stamp = file.stamp
           /\ AFile(SetUp(file, m, d)) /\ SetUp(file, m, d).stamp = file.stamp
           /\ AFile(Repaired(file, m)) /\ Repaired(file, m).stamp = file.stamp
           /\ AFile(RepairedMachine(file, m)) /\ RepairedMachine(file, m).stamp = file.stamp
           /\ AFile(Probed(file, d)) /\ Probed(file, d).stamp = file.stamp
           /\ AFile(Stripped(file, n)) /\ Stripped(file, n).stamp = n
<1>1. AFile(WithModel(file, m)) /\ WithModel(file, m).stamp = file.stamp
  BY DEF AFile, WithModel
<1>2. AFile(SetUp(file, m, d)) /\ SetUp(file, m, d).stamp = file.stamp
  BY DEF AFile, SetUp
<1>3. AFile(Repaired(file, m)) /\ Repaired(file, m).stamp = file.stamp
  BY DEF AFile, Repaired
<1>4. AFile(RepairedMachine(file, m)) /\ RepairedMachine(file, m).stamp = file.stamp
  BY DEF AFile, RepairedMachine
<1>5. AFile(Probed(file, d)) /\ Probed(file, d).stamp = file.stamp
  BY DEF AFile, Probed
<1>6. AFile(Stripped(file, n)) /\ Stripped(file, n).stamp = n
  BY DEF AFile, Stripped
<1> QED BY <1>1, <1>2, <1>3, <1>4, <1>5, <1>6

\* Nobody changes a file without changing its time.
FilesMove ==
    /\ AFile(global') /\ AFile(project')
    /\ global' = global \/ global'.stamp = global.stamp + 1
    /\ (project' = project /\ option' = option) \/ project'.stamp = project.stamp + 1

\* No step changes a file without giving it a new time.
LEMMA FilesStep == SettingsTypes /\ [ConfigNext]_settings => FilesMove
<1> SUFFICES ASSUME SettingsTypes, [ConfigNext]_settings PROVE FilesMove
  OBVIOUS
<1>0. AFile(global) /\ AFile(project)
  BY DEF SettingsTypes
<1>1. ASSUME NEW file, AFile(file), file.stamp = global.stamp, global' = Written(file),
             project' = project, option' = option
      PROVE  FilesMove
  BY <1>0, <1>1, WrittenFile DEF FilesMove
<1>2. ASSUME NEW file, AFile(file), file.stamp = project.stamp, project' = Written(file), global' = global
      PROVE  FilesMove
  BY <1>0, <1>2, WrittenFile DEF FilesMove
<1>3. ASSUME UNCHANGED files PROVE FilesMove
  BY <1>0, <1>3 DEF files, FilesMove
<1>4. ASSUME NEW m, PickModel(m) PROVE FilesMove
  <2>1. global' = Written(WithModel(global, m)) /\ project' = project /\ option' = option
    BY <1>4, Zenon DEF PickModel, WithModel
  <2> QED BY <1>0, <1>1, <2>1, ChangedFile
<1>5. ASSUME NEW m, Repair(m) PROVE FilesMove
  <2>1. \/ project' = Written(Repaired(project, m)) /\ global' = global
        \/ global' = Written(RepairedMachine(global, m)) /\ project' = project /\ option' = option
    BY <1>5, Zenon DEF Repair, Repaired, RepairedMachine
  <2> QED BY <1>0, <1>1, <1>2, <2>1, ChangedFile
<1>6. CASE FinishPick
  BY <1>0, <1>2, <1>3, <1>6 DEF FinishPick, files
<1>7. CASE ClickTheme
  BY <1>0, <1>1, <1>7 DEF ClickTheme
<1>8. ASSUME NEW layer, Save(layer) PROVE FilesMove
  <2>1. \/ project' = Written(project) /\ global' = global
        \/ global' = Written(WithModel(global, browser.draft.value)) /\ project' = project /\ option' = option
    BY <1>8, Zenon DEF Save, WithModel
  <2> QED BY <1>0, <1>1, <1>2, <2>1, ChangedFile
<1>9. ASSUME NEW m, NEW probed, ApplySetup(m, probed) PROVE FilesMove
  <2>1. global' = Written(SetUp(global, m, Dimension(m, probed))) /\ project' = project /\ option' = option
    BY <1>9, Zenon DEF ApplySetup, SetUp
  <2> QED BY <1>0, <1>1, <2>1, ChangedFile
<1>10. ASSUME NEW agreed, StripProject(agreed) PROVE FilesMove
  <2>1. CASE agreed /\ Shadows(setup.project)
    <3>1. AFile(setup.project) /\ project.stamp + 1 \in Nat
      BY <1>0, <1>10 DEF StripProject, SettingsTypes, AFile
    <3>2. AFile(project') /\ project'.stamp = project.stamp + 1
      <4>1. project' = Stripped(setup.project, project.stamp + 1)
        BY <1>10, <2>1, Zenon DEF StripProject, Stripped
      <4> QED BY <3>1, <4>1, ChangedFile
    <3> QED BY <1>0, <1>10, <3>2 DEF StripProject, FilesMove
  <2>2. CASE ~ agreed \/ ~ Shadows(setup.project)
    BY <1>0, <1>2, <1>10, <2>2 DEF StripProject
  <2> QED BY <2>1, <2>2
<1>11. ASSUME NEW ok, Probe(ok) PROVE FilesMove
  <2>1. \/ project' = Written(Probed(project, DimOf[plugin.model])) /\ global' = global
        \/ UNCHANGED files
    BY <1>11, Zenon DEF Probe, Probed, files
  <2> QED BY <1>0, <1>2, <1>3, <2>1, ChangedFile
<1>12. ASSUME \/ OpenView \/ StartSetup \/ CancelSetup \/ FinishSave \/ Reload \/ TakeStamps \/ LoadFiles
              \/ ReadOverrides \/ CommandLinePass \/ WatchPass \/ UNCHANGED settings
              \/ \E v : PickOption(v) \/ \E layer, w : Type(layer, w)
       PROVE FilesMove
  <2>1. UNCHANGED files
    BY <1>12 DEF OpenView, StartSetup, CancelSetup, FinishSave, Reload, TakeStamps, LoadFiles,
                 ReadOverrides, CommandLinePass, WatchPass, settings, PickOption, Type, files
  <2> QED BY <1>3, <2>1
<1> QED BY <1>4, <1>5, <1>6, <1>7, <1>8, <1>9, <1>10, <1>11, <1>12
        DEF ConfigNext, Writers, Finishing, Probing, Following


-----------------------------------------------------------------------------
(* The types, and the dialogs. *)

\* What a fresh view shows.
LEMMA SnapshotIsAView ==
    ASSUME AFile(global), AFile(project)
    PROVE  /\ AView(Snapshot) /\ Snapshot.stamps = <<global.stamp, project.stamp>>
           /\ Snapshot.draft = NoDraft /\ ~ Snapshot.refreshed
           /\ Snapshot.values["project"] = option /\ Snapshot.values["global"] = global.model
BY DEF Snapshot, Stamps, AView, AFile

\* What typing in the view changes.
LEMMA ViewWithDraft ==
    ASSUME NEW view, AView(view), NEW d
    PROVE  /\ AView([view EXCEPT !.draft = d]) /\ [view EXCEPT !.draft = d].draft = d
           /\ [view EXCEPT !.draft = d].stamps = view.stamps
           /\ [view EXCEPT !.draft = d].values = view.values
           /\ [view EXCEPT !.draft = d].refreshed = view.refreshed
BY DEF AView

\* What the answer to a click on a theme changes in the view.
Refreshed(view, s, d) == [view EXCEPT !.stamps = s, !.draft = d, !.refreshed = TRUE]

\* The view is still one after it.
LEMMA RefreshedView ==
    ASSUME NEW view, AView(view), NEW d, NEW s \in Nat \X Nat
    PROVE  /\ AView(Refreshed(view, s, d)) /\ Refreshed(view, s, d).stamps = s
           /\ Refreshed(view, s, d).refreshed = TRUE
<1>1. AView(Refreshed(view, s, d))
  BY DEF AView, Refreshed
<1>2. Refreshed(view, s, d).stamps = s /\ Refreshed(view, s, d).refreshed = TRUE
  BY DEF AView, Refreshed
<1> QED BY <1>1, <1>2

\* The view is as it was, or a new snapshot, or has a new draft or new times.
ViewMoves ==
    \/ browser' = browser
    \/ browser' = Snapshot /\ UNCHANGED files
    \/ /\ UNCHANGED files
       /\ \E layer \in {"project", "global"} : \E v :
             browser' = [browser EXCEPT !.draft = [layer |-> layer, value |-> v,
                                                   shown |-> browser.values[layer]]]
    \/ ClickTheme

\* No other step changes the view.
LEMMA ViewStep == [ConfigNext]_settings => ViewMoves
<1> SUFFICES ASSUME [ConfigNext]_settings PROVE ViewMoves
  OBVIOUS
<1>1. CASE OpenView
  BY <1>1 DEF OpenView, ViewMoves
<1>2. CASE FinishSave
  BY <1>2 DEF FinishSave, ViewMoves
<1>3. ASSUME NEW layer \in {"project", "global"}, NEW v, Type(layer, v) PROVE ViewMoves
  BY <1>3 DEF Type, ViewMoves
<1>4. CASE ClickTheme
  BY <1>4 DEF ViewMoves
<1>5. ASSUME \/ FinishPick \/ StartSetup \/ CancelSetup \/ Reload \/ TakeStamps \/ LoadFiles
             \/ ReadOverrides \/ CommandLinePass \/ WatchPass \/ UNCHANGED settings
             \/ \E m : PickModel(m) \/ Repair(m)
             \/ \E v : PickOption(v) \/ Save(v) \/ StripProject(v) \/ Probe(v)
             \/ \E m, probed : ApplySetup(m, probed)
      PROVE ViewMoves
  <2>1. browser' = browser
    BY <1>5 DEF FinishPick, StartSetup, CancelSetup, Reload, TakeStamps, LoadFiles, ReadOverrides,
                CommandLinePass, WatchPass, settings, PickModel, Repair, PickOption, Save,
                StripProject, Probe, ApplySetup
  <2> QED BY <2>1 DEF ViewMoves
<1> QED BY <1>1, <1>2, <1>3, <1>4, <1>5 DEF ConfigNext, Writers, Finishing, Probing, Following

\* No step makes the view show what is not in the files that it has the times of.
LEMMA ShownStep ==
    SettingsTypes /\ ViewShowsFiles /\ [ConfigNext]_settings => ViewShowsFiles' /\ AView(browser')
<1> SUFFICES ASSUME SettingsTypes, ViewShowsFiles, [ConfigNext]_settings
             PROVE  ViewShowsFiles' /\ AView(browser')
  OBVIOUS
<1>0. AFile(global) /\ AFile(project) /\ AView(browser)
  BY DEF SettingsTypes
<1>1. /\ global.stamp \in Nat /\ project.stamp \in Nat
      /\ browser.stamps[1] \in Nat /\ browser.stamps[2] \in Nat
  BY <1>0 DEF AFile, AView
<1>2. FilesMove /\ ViewMoves
  BY FilesStep, ViewStep
<1>3. CASE browser' = browser
  <2>1. browser.stamps[1] <= global'.stamp /\ browser.stamps[2] <= project'.stamp
    BY <1>1, <1>2 DEF FilesMove, ViewShowsFiles
  <2>2. browser.stamps[1] = global'.stamp => global' = global /\ browser.stamps[1] = global.stamp
    BY <1>1, <1>2 DEF FilesMove, ViewShowsFiles
  <2>3. browser.stamps[2] = project'.stamp => option' = option /\ browser.stamps[2] = project.stamp
    BY <1>1, <1>2 DEF FilesMove, ViewShowsFiles
  <2> QED BY <1>0, <1>3, <2>1, <2>2, <2>3 DEF ViewShowsFiles, NoDraft
<1>4. CASE browser' = Snapshot /\ UNCHANGED files
  <2>1. /\ AView(Snapshot) /\ Snapshot.stamps = <<global.stamp, project.stamp>>
        /\ Snapshot.draft = NoDraft /\ ~ Snapshot.refreshed
        /\ Snapshot.values["project"] = option /\ Snapshot.values["global"] = global.model
    BY <1>0, SnapshotIsAView
  <2>2. global' = global /\ project' = project /\ option' = option /\ NoDraft' = NoDraft
    BY <1>4 DEF files, NoDraft
  <2> HIDE DEF NoDraft
  <2> QED BY <1>1, <1>4, <2>1, <2>2 DEF ViewShowsFiles
<1>5. ASSUME UNCHANGED files, NEW layer \in {"project", "global"}, NEW v,
             browser' = [browser EXCEPT !.draft = [layer |-> layer, value |-> v,
                                                   shown |-> browser.values[layer]]]
      PROVE  ViewShowsFiles' /\ AView(browser')
  <2> DEFINE d == [layer |-> layer, value |-> v, shown |-> browser.values[layer]]
  <2>1. d.layer = layer /\ d.shown = browser.values[layer]
    OBVIOUS
  <2>2. browser' = [browser EXCEPT !.draft = d]
    BY <1>5
  <2> HIDE DEF d
  <2>3. /\ AView(browser') /\ browser'.draft = d /\ browser'.stamps = browser.stamps
        /\ browser'.values = browser.values /\ browser'.refreshed = browser.refreshed
    BY <1>0, <2>2, ViewWithDraft, SMTT(30)
  <2>4. global' = global /\ project' = project /\ option' = option
    BY <1>5 DEF files
  <2> QED BY <1>1, <2>1, <2>3, <2>4 DEF ViewShowsFiles, NoDraft
<1>6. CASE ClickTheme
  <2> DEFINE s == <<global.stamp + 1, project.stamp>>
  <2>1. s \in Nat \X Nat /\ s[1] = global.stamp + 1 /\ s[2] = project.stamp
    BY <1>1
  <2>2. browser' = Refreshed(Snapshot, s, browser.draft)
    BY <1>6, Zenon DEF ClickTheme, Refreshed
  <2>3. global' = Written(global) /\ project' = project
    BY <1>6 DEF ClickTheme
  <2>4. global'.stamp = global.stamp + 1
    BY <1>0, <2>3, WrittenFile
  <2> HIDE DEF s
  <2>5. AView(browser') /\ browser'.stamps = s /\ browser'.refreshed = TRUE
    <3>1. AView(Snapshot)
      BY <1>0, SnapshotIsAView
    <3>2. /\ AView(Refreshed(Snapshot, s, browser.draft)) /\ Refreshed(Snapshot, s, browser.draft).stamps = s
          /\ Refreshed(Snapshot, s, browser.draft).refreshed = TRUE
      BY <2>1, <3>1, RefreshedView
    <3> QED BY <2>2, <3>2
  <2>6. browser'.stamps[1] <= global'.stamp /\ browser'.stamps[2] <= project'.stamp
    BY <1>1, <2>1, <2>3, <2>4, <2>5
  <2> QED BY <2>5, <2>6 DEF ViewShowsFiles
<1> QED BY <1>2, <1>3, <1>4, <1>5, <1>6 DEF ViewMoves


-----------------------------------------------------------------------------
(* Overrides. *)

\* What setting or clearing one override changes.
LEMMA ChangedOverride ==
    ASSUME NEW o, AnOverride(o), NEW v
    PROVE  /\ AnOverride([o EXCEPT !.option = v]) /\ [o EXCEPT !.option = v].option = v
           /\ AnOverride([o EXCEPT !.model = v]) /\ [o EXCEPT !.model = v].option = o.option
BY DEF AnOverride

\* What a step does to the overrides, by who makes it.
OverridesMove ==
    \/ \E v \in Options : PickOption(v)
    \/ FinishPick /\ "writes" \in DOMAIN tui
    \/ FinishSave
    \/ \E layer \in {"project", "global"} : Save(layer)
    \/ /\ overrides' = overrides \/ overrides' = [overrides EXCEPT !.model = Unset]
       /\ web' = web /\ (reverted => reverted') /\ (reverted' \/ option' = option)
       /\ \/ tui' = tui
          \/ tui = Unset /\ tui' = [clears |-> "model"]
          \/ tui # Unset /\ "clears" \in DOMAIN tui /\ tui' = Unset

\* No other step changes the overrides.
LEMMA OverridesStep == [ConfigNext]_settings => OverridesMove
<1> SUFFICES ASSUME [ConfigNext]_settings PROVE OverridesMove
  OBVIOUS
<1> USE DEF OverridesMove
<1>1. ASSUME NEW m, PickModel(m) PROVE OverridesMove
  BY <1>1 DEF PickModel
<1>2. CASE FinishPick
  <2>1. CASE "writes" \in DOMAIN tui
    BY <1>2, <2>1
  <2>2. CASE "writes" \notin DOMAIN tui
    BY <1>2, <2>2 DEF FinishPick, files
  <2> QED BY <2>1, <2>2
<1>3. ASSUME NEW agreed \in BOOLEAN, StripProject(agreed) PROVE OverridesMove
  <2>1. tui' = tui /\ web' = web /\ overrides' = overrides
    BY <1>3 DEF StripProject
  <2>2. (reverted => reverted') /\ (reverted' \/ option' = option)
    <3>1. CASE agreed /\ Shadows(setup.project)
      <4>1. option' = setup.option /\ reverted' = (reverted \/ option # setup.option)
        BY <1>3, <3>1, Zenon DEF StripProject
      <4>2. reverted' <=> (reverted \/ option # setup.option)
        BY <4>1, Zenon
      <4> QED BY <4>1, <4>2
    <3>2. CASE ~ agreed \/ ~ Shadows(setup.project)
      BY <1>3, <3>2 DEF StripProject
    <3> QED BY <3>1, <3>2
  <2> QED BY <2>1, <2>2
<1>4. ASSUME \/ OpenView \/ ClickTheme \/ StartSetup \/ CancelSetup \/ Reload \/ TakeStamps \/ LoadFiles
             \/ ReadOverrides \/ CommandLinePass \/ WatchPass \/ UNCHANGED settings
             \/ \E m : Repair(m)
             \/ \E v : Probe(v)
             \/ \E m, probed : ApplySetup(m, probed) \/ Type(m, probed)
      PROVE OverridesMove
  <2>1. /\ tui' = tui /\ web' = web /\ overrides' = overrides /\ option' = option /\ reverted' = reverted
    BY <1>4 DEF OpenView, ClickTheme, StartSetup, CancelSetup, Reload, TakeStamps, LoadFiles,
                ReadOverrides, CommandLinePass, WatchPass, settings, Repair, Type, Probe, ApplySetup, files
  <2> QED BY <2>1
<1> QED BY <1>1, <1>2, <1>3, <1>4 DEF ConfigNext, Writers, Finishing, Probing, Following

\* No step leaves an override that hides what was saved after it.
LEMMA FollowStep ==
    AnOverride(overrides) /\ OverridesFollow /\ TuiStates /\ [ConfigNext]_settings
        => AnOverride(overrides') /\ OverridesFollow' /\ TuiStates'
<1> SUFFICES ASSUME AnOverride(overrides), OverridesFollow, TuiStates, [ConfigNext]_settings
             PROVE  AnOverride(overrides') /\ OverridesFollow' /\ TuiStates'
  OBVIOUS
<1>0. OverridesMove
  BY OverridesStep
<1>1. ASSUME NEW v \in Options, PickOption(v)
      PROVE  AnOverride(overrides') /\ OverridesFollow' /\ TuiStates'
  <2>1. overrides' = [overrides EXCEPT !.option = v] /\ tui' = [writes |-> v]
    BY <1>1 DEF PickOption
  <2>2. AnOverride(overrides') /\ overrides'.option = v
    BY <2>1, ChangedOverride
  <2> QED BY <2>1, <2>2 DEF OverridesFollow, Writing, TuiStates
<1>2. CASE FinishPick /\ "writes" \in DOMAIN tui
  <2>1. tui # Unset /\ tui' = Unset /\ reverted' = reverted /\ web' = web
    BY <1>2 DEF FinishPick
  <2>2. PICK v \in Options : tui = [writes |-> v]
    <3>1. "writes" \notin DOMAIN [clears |-> "model"]
      OBVIOUS
    <3> QED BY <1>2, <2>1, <3>1 DEF TuiStates
  <2>3. "clears" \notin DOMAIN tui /\ tui.writes = v
    BY <2>2
  <2>4. option' = v /\ overrides' = overrides
    BY <1>2, <2>3 DEF FinishPick
  <2>5. reverted \/ overrides.option \in {Unset, v}
    <3>1. ~ NoneWriting
      BY <2>2 DEF NoneWriting
    <3>2. \A u \in Options : tui = [writes |-> u] => u = v
      <4> TAKE u \in Options
      <4>1. [writes |-> u].writes = u
        OBVIOUS
      <4> QED BY <2>3, <4>1
    <3> QED BY <3>1, <3>2 DEF OverridesFollow, Writing
  <2>6. NoneWriting'
    BY <2>1, ConfigLayersAssumption DEF NoneWriting
  <2> QED BY <2>1, <2>4, <2>5, <2>6 DEF OverridesFollow, TuiStates
<1>3. CASE FinishSave
  <2>1. tui' = tui /\ option' = option /\ reverted' = reverted
    BY <1>3 DEF FinishSave, files
  <2>2. CASE web = "project"
    <3>1. overrides' = [overrides EXCEPT !.option = Unset]
      BY <1>3, <2>2 DEF FinishSave
    <3>2. AnOverride(overrides') /\ overrides'.option = Unset
      BY <3>1, ChangedOverride
    <3> QED BY <2>1, <3>2 DEF OverridesFollow, Writing, NoneWriting, TuiStates
  <2>3. CASE web # "project"
    <3>1. overrides' = [overrides EXCEPT !.model = Unset]
      BY <1>3, <2>3 DEF FinishSave
    <3>2. AnOverride(overrides') /\ overrides'.option = overrides.option
      BY <3>1, ChangedOverride
    <3> QED BY <2>1, <2>3, <3>2 DEF OverridesFollow, Writing, NoneWriting, TuiStates
  <2> QED BY <2>2, <2>3
<1>4. ASSUME NEW layer \in {"project", "global"}, Save(layer)
      PROVE  AnOverride(overrides') /\ OverridesFollow' /\ TuiStates'
  <2>1. /\ web # "project" /\ web' = layer /\ overrides' = overrides /\ tui' = tui
        /\ reverted' = reverted /\ (layer # "project" => option' = option)
    BY <1>4, ConfigLayersAssumption DEF Save
  <2> QED BY <2>1 DEF OverridesFollow, Writing, NoneWriting, TuiStates
<1>5. ASSUME overrides' = overrides \/ overrides' = [overrides EXCEPT !.model = Unset],
             web' = web, reverted => reverted', reverted' \/ option' = option,
             \/ tui' = tui
             \/ tui = Unset /\ tui' = [clears |-> "model"]
             \/ tui # Unset /\ "clears" \in DOMAIN tui /\ tui' = Unset
      PROVE  AnOverride(overrides') /\ OverridesFollow' /\ TuiStates'
  <2>1. AnOverride(overrides') /\ overrides'.option = overrides.option
    <3>1. AnOverride(overrides)
      OBVIOUS
    <3>2. /\ AnOverride([overrides EXCEPT !.model = Unset])
          /\ [overrides EXCEPT !.model = Unset].option = overrides.option
      BY <3>1, ChangedOverride
    <3>3. CASE overrides' = overrides
      BY <3>1, <3>3
    <3>4. CASE overrides' = [overrides EXCEPT !.model = Unset]
      BY <3>2, <3>4
    <3> QED BY <1>5, <3>3, <3>4
  <2>2. \A v \in Options : "clears" \notin DOMAIN [writes |-> v] /\ [writes |-> v] # [clears |-> "model"]
    <3> TAKE v \in Options
    <3>1. "clears" \notin DOMAIN [writes |-> v] /\ "clears" \in DOMAIN [clears |-> "model"]
      OBVIOUS
    <3> QED BY <3>1
  <2>3. TuiStates' /\ (tui' = tui \/ (NoneWriting /\ NoneWriting'))
    BY <1>5, <2>2, ConfigLayersAssumption DEF TuiStates, NoneWriting
  <2>4. Writing => ~ NoneWriting
    BY DEF Writing, NoneWriting
  <2>5. CASE reverted'
    BY <2>1, <2>3, <2>5 DEF OverridesFollow
  <2>6. CASE ~ reverted'
    BY <1>5, <2>1, <2>3, <2>4, <2>6 DEF OverridesFollow, Writing, NoneWriting
  <2> QED BY <2>5, <2>6
<1> QED BY <1>0, <1>1, <1>2, <1>3, <1>4, <1>5 DEF OverridesMove

-----------------------------------------------------------------------------
\* What the wizard keeps of the project file is a file.
LEMMA SetupStep ==
    SettingsTypes /\ [ConfigNext]_settings => (setup' # Unset /\ setup'.step = "strip" => AFile(setup'.project))
<1> SUFFICES ASSUME SettingsTypes, [ConfigNext]_settings, setup' # Unset, setup'.step = "strip"
             PROVE  AFile(setup'.project)
  OBVIOUS
<1>1. CASE setup' = setup
  BY <1>1 DEF SettingsTypes
<1>2. CASE setup' # setup
  <2>1. StartSetup \/ (\E m, probed : ApplySetup(m, probed))
    BY <1>2 DEF ConfigNext, Writers, Finishing, Probing, Following, OpenView, ClickTheme, CancelSetup,
        Reload, TakeStamps, LoadFiles, ReadOverrides, CommandLinePass, WatchPass, settings, Repair, Type,
        Probe, PickModel, PickOption, FinishPick, FinishSave, Save, StripProject
  <2>2. CASE StartSetup
    BY <2>2 DEF StartSetup
  <2>3. CASE \E m, probed : ApplySetup(m, probed)
    <3>1. setup' = [step |-> "strip", project |-> project, option |-> option]
      BY <2>3 DEF ApplySetup
    <3> QED BY <3>1 DEF SettingsTypes
  <2> QED BY <2>1, <2>2, <2>3
<1> QED BY <1>1, <1>2

\* The inductive invariant of the settings.
SettingsInv == SettingsTypes /\ ViewShowsFiles /\ OverridesFollow /\ TuiStates

\* It holds always.
LEMMA SettingsInvariant == ConfigSpec => []SettingsInv
<1>1. ConfigInit => SettingsInv
  <2> SUFFICES ASSUME ConfigInit PROVE SettingsInv
    OBVIOUS
  <2>1. AFile(global) /\ AFile(project)
    BY DEF ConfigInit, AFile
  <2>2. AnOverride(overrides) /\ overrides.option = Unset
    BY DEF ConfigInit, AnOverride
  <2>3. setup = Unset /\ tui = Unset /\ browser = Snapshot
    BY DEF ConfigInit
  <2>4. /\ AView(browser) /\ browser.stamps = <<global.stamp, project.stamp>>
        /\ browser.draft = NoDraft
        /\ browser.values["project"] = option /\ browser.values["global"] = global.model
    BY <2>1, <2>3, SnapshotIsAView
  <2>5. ViewShowsFiles
    <3>1. global.stamp \in Nat /\ project.stamp \in Nat
      BY <2>1 DEF AFile
    <3> QED BY <2>4, <3>1 DEF ViewShowsFiles
  <2>6. OverridesFollow /\ TuiStates
    BY <2>2, <2>3, ConfigLayersAssumption DEF OverridesFollow, NoneWriting, TuiStates
  <2> QED BY <2>1, <2>2, <2>3, <2>4, <2>5, <2>6 DEF SettingsInv, SettingsTypes
<1>2. SettingsInv /\ [ConfigNext]_settings => SettingsInv'
  <2> SUFFICES ASSUME SettingsInv, [ConfigNext]_settings PROVE SettingsInv'
    OBVIOUS
  <2>1. SettingsTypes /\ AnOverride(overrides)
    BY DEF SettingsInv, SettingsTypes
  <2>2. FilesMove /\ ViewShowsFiles' /\ AView(browser')
    BY <2>1, FilesStep, ShownStep DEF SettingsInv
  <2>3. AnOverride(overrides') /\ OverridesFollow' /\ TuiStates'
    BY <2>1, FollowStep DEF SettingsInv
  <2>4. setup' # Unset /\ setup'.step = "strip" => AFile(setup'.project)
    BY <2>1, SetupStep
  <2>5. SettingsTypes'
    BY <2>2, <2>3, <2>4 DEF SettingsTypes, FilesMove, AFile, AView, AnOverride
  <2> QED BY <2>2, <2>3, <2>5 DEF SettingsInv
<1> QED BY <1>1, <1>2, PTL DEF ConfigSpec

\* What was saved last, in the dialog or in the view, is in force once both are done.
THEOREM NoOverrideOutlivesASave == ConfigSpec => []SavesAreNotShadowed
<1>1. SettingsInv => SavesAreNotShadowed
  <2> SUFFICES ASSUME SettingsInv, AtRest, ~ reverted PROVE EffectiveOption = option
    BY DEF SavesAreNotShadowed
  <2>1. tui = Unset /\ web # "project"
    BY ConfigLayersAssumption DEF AtRest
  <2>2. ~ Writing
    BY <2>1, ConfigLayersAssumption DEF Writing
  <2>3. overrides.option \in {Unset, option}
    BY <2>1, <2>2 DEF SettingsInv, OverridesFollow
  <2> QED BY <2>3 DEF EffectiveOption, First
<1> QED BY <1>1, SettingsInvariant, PTL

\* A save of the view replaces the value that it showed: a change that came
\* between, from wherever, is refused as stale.
THEOREM SavesReplaceWhatWasShown == ConfigSpec => NothingOverwrittenUnseen
<1>1. SettingsInv => \A layer \in {"project", "global"} :
         Save(layer) /\ ~ browser.refreshed => InLayer(layer) = browser.draft.shown
  <2> SUFFICES ASSUME SettingsInv, NEW layer \in {"project", "global"}, Save(layer), ~ browser.refreshed
               PROVE  InLayer(layer) = browser.draft.shown
    OBVIOUS
  <2>1. browser.draft.layer = layer /\ ~ Stale(layer)
    BY DEF Save
  <2>2. browser.draft # NoDraft
    <3>1. NoDraft.layer = Unset
      BY DEF NoDraft
    <3> QED BY <2>1, <3>1, ConfigLayersAssumption
  <2>3. browser.draft.shown = browser.values[layer]
    BY <2>1, <2>2 DEF SettingsInv, ViewShowsFiles
  <2>4. CASE layer = "project"
    <3>1. browser.stamps[2] = project.stamp
      BY <2>1, <2>4 DEF Stale
    <3> QED BY <2>3, <2>4, <3>1 DEF SettingsInv, ViewShowsFiles, InLayer
  <2>5. CASE layer = "global"
    <3>1. browser.stamps[1] = global.stamp
      BY <2>1, <2>5 DEF Stale
    <3> QED BY <2>3, <2>5, <3>1 DEF SettingsInv, ViewShowsFiles, InLayer
  <2> QED BY <2>4, <2>5
<1> QED BY <1>1, SettingsInvariant, PTL DEF NothingOverwrittenUnseen

-----------------------------------------------------------------------------
(* QuirkStore: the rows, the log and the cleaning of orphans *)

\* What a process may be doing.
Doing == [kind : Kinds, pc : QuirkSteps, q : SUBSET QuirkIds,
          put : [QuirkIds -> 0..MaxVersion], snap : QuirkLog,
          seen : SUBSET QuirkIds, far : QuirkLog, base : QuirkLog]

\* The steps that an operation has, and what it writes.
StepFits(s) ==
    /\ s.pc = "append" => s.kind = "add"
    /\ s.pc = "deleteRow" => s.kind = "remove"
    /\ s.pc \in {"readLog", "writeLog"} => s.kind \in {"update", "remove"}
    /\ s.pc = "wipe" => s.kind \in {"update", "reconcile"}
    /\ s.pc = "insert" => s.kind \in {"add", "update", "reconcile"}
    /\ s.pc \in {"scanRows", "orphans"} => s.kind = "reconcile"
    /\ s.kind = "reconcile" => s.q = {}
    /\ s.kind \in {"add", "update"} => \A q \in QuirkIds : s.put[q] # 0 <=> q \in s.q
    /\ s.kind = "add" => \A q \in s.q : s.put[q] = 1
    /\ ~ shared => s.pc \notin {"flush", "flushWrite", "flushBack", "hydWrite"}

\* A machine has one log; with a central store every process has its own.
Machines == IF shared THEN \A p \in Procs : home[p] = p
                      ELSE \A p, r \in Procs : home[p] = home[r]

QuirkSteppers == QuirkTypeOK /\ Machines /\ \A p \in Procs : StepFits(st[p])

LEMMA RecordsAreNumbers ==
    /\ MaxVersion \in Nat /\ MaxVersion # 0 /\ Tombstone = MaxVersion + 1 /\ Tombstone \in Nat
    /\ QuirkRecord = 0..Tombstone /\ 0 \in QuirkRecord /\ Tombstone \in QuirkRecord /\ 1 \in QuirkRecord
    /\ 0..MaxVersion \subseteq QuirkRecord /\ 0 \in 0..MaxVersion /\ 1 \in 0..MaxVersion
    /\ NoRecords \in QuirkLog /\ NoRecords \in [QuirkIds -> 0..MaxVersion]
    /\ Versions \subseteq 0..MaxVersion /\ \A r \in QuirkRecord : r \in Versions <=> r # 0 /\ r # Tombstone
<1>1. MaxVersion \in Nat /\ MaxVersion # 0 /\ Tombstone = MaxVersion + 1
  BY QuirkStoreAssumption DEF Tombstone
<1>2. QuirkRecord = 0..Tombstone
  BY DEF QuirkRecord
<1>3. NoRecords \in QuirkLog /\ NoRecords \in [QuirkIds -> 0..MaxVersion]
  BY <1>1, <1>2 DEF QuirkLog, NoRecords
<1> QED BY <1>1, <1>2, <1>3 DEF Versions

LEMMA RestingFits == Resting \in Doing /\ StepFits(Resting) /\ Resting.pc = "rest" /\ Resting.q = {}
                     /\ Resting.put = NoRecords /\ Resting.snap = NoRecords /\ Resting.kind = "none"
                     /\ Resting.seen = {}
<1>1. Resting \in Doing
  BY RecordsAreNumbers DEF Resting, Doing, Kinds, QuirkSteps
<1> QED BY <1>1 DEF Resting, StepFits

\* Changes of what a process is doing.
Turn(p, s) ==
    /\ st' = [st EXCEPT ![p] = s]
    /\ s \in Doing /\ StepFits(s)

LEMMA Turns ==
    ASSUME QuirkSteppers, NEW p \in Procs, NEW s, Turn(p, s), shared' = shared
    PROVE  /\ st' \in [Procs -> Doing] /\ st'[p] = s /\ \A r \in Procs : r # p => st'[r] = st[r]
           /\ \A r \in Procs : StepFits(st[r])' /\ st[p] \in Doing /\ StepFits(st[p])
BY DEF Turn, QuirkSteppers, QuirkTypeOK, Doing, StepFits

\* At the end of an operation nothing is in hand.
LEMMA Finished ==
    ASSUME QuirkSteppers, NEW p \in Procs, FinishOp(p)
    PROVE  \E s : /\ Turn(p, s) /\ s.q = {} /\ s.put = NoRecords /\ s.seen = {} /\ s.snap = NoRecords
                  /\ s.pc = IF shared THEN "flush" ELSE "rest"
<1>1. st[p].kind \in Kinds /\ Resting \in Doing
  BY RestingFits DEF QuirkSteppers, QuirkTypeOK
<1> DEFINE s == IF shared THEN [Resting EXCEPT !.kind = st[p].kind, !.pc = "flush"] ELSE Resting
<1>2. st' = [st EXCEPT ![p] = s]
  BY DEF FinishOp
<1>3. s \in Doing /\ s.q = {} /\ s.put = NoRecords /\ s.seen = {} /\ s.snap = NoRecords /\ s.pc = IF shared THEN "flush" ELSE "rest"
  BY <1>1, RestingFits DEF Doing, QuirkSteps
<1> HIDE DEF s
<1>4. StepFits(s)
  <2>1. CASE shared
    BY <1>3, <2>1 DEF StepFits, NoRecords
  <2>2. CASE ~ shared
    BY <2>2, RestingFits DEF s
  <2> QED BY <2>1, <2>2
<1> QED BY <1>2, <1>3, <1>4 DEF Turn

\* A process goes on with the operation that it has in hand.
LEMMA GoesOn ==
    ASSUME QuirkSteppers, NEW p \in Procs, NEW step \in QuirkSteps, Goto(p, step)
    PROVE  \E s \in Doing :
              /\ st' = [st EXCEPT ![p] = s] /\ s.pc = step /\ s.kind = st[p].kind /\ s.q = st[p].q
              /\ s.put = st[p].put /\ s.snap = st[p].snap /\ s.seen = st[p].seen
<1>1. st \in [Procs -> Doing]
  BY DEF QuirkSteppers, QuirkTypeOK, Doing
<1> DEFINE s == [st[p] EXCEPT !.pc = step]
<1>2. st' = [st EXCEPT ![p] = s]
  BY <1>1 DEF Goto
<1>3. /\ s \in Doing /\ s.pc = step /\ s.kind = st[p].kind /\ s.q = st[p].q
      /\ s.put = st[p].put /\ s.snap = st[p].snap /\ s.seen = st[p].seen
  BY <1>1 DEF Doing
<1> QED BY <1>2, <1>3

\* An operation begins with what it is to write.
LEMMA QuirkOpBegins ==
    ASSUME QuirkSteppers, NEW p \in Procs, NEW kind \in Kinds, NEW q \in QuirkIds, NEW step \in QuirkSteps,
           NEW put \in [QuirkIds -> 0..MaxVersion], BeginOp(p, kind, q, put, step)
    PROVE  \E s \in Doing :
              /\ st' = [st EXCEPT ![p] = s] /\ s.pc = step /\ s.kind = kind /\ s.q = {q}
              /\ s.put = put /\ s.snap = NoRecords /\ s.seen = {}
<1> DEFINE s == [Resting EXCEPT !.kind = kind, !.pc = step, !.q = {q}, !.put = put]
<1>1. st' = [st EXCEPT ![p] = s]
  BY DEF BeginOp
<1>2. /\ s \in Doing /\ s.pc = step /\ s.kind = kind /\ s.q = {q}
      /\ s.put = put /\ s.snap = NoRecords /\ s.seen = {}
  BY RestingFits DEF Doing
<1> QED BY <1>1, <1>2

\* The steps of a process, and what it has in hand before and after them.
LEMMA AddStarts ==
    ASSUME QuirkSteppers, NEW p \in Procs, NEW q \in QuirkIds, StartAdd(p, q)
    PROVE  \E s : /\ Turn(p, s) /\ s.kind = "add" /\ s.pc = "insert" /\ s.q = {q}
                  /\ s.put = [NoRecords EXCEPT ![q] = 1] /\ s.snap = NoRecords /\ s.seen = {}
<1> DEFINE put == [NoRecords EXCEPT ![q] = 1]
<1>1. /\ put \in [QuirkIds -> 0..MaxVersion] /\ put[q] = 1 /\ \A x \in QuirkIds : x # q => put[x] = 0
  BY RecordsAreNumbers DEF NoRecords
<1>2. BeginOp(p, "add", q, put, "insert") /\ "add" \in Kinds /\ "insert" \in QuirkSteps
  BY DEF StartAdd, Kinds, QuirkSteps
<1> HIDE DEF put
<1>3. PICK s \in Doing :
              /\ st' = [st EXCEPT ![p] = s] /\ s.pc = "insert" /\ s.kind = "add" /\ s.q = {q}
              /\ s.put = put /\ s.snap = NoRecords /\ s.seen = {}
  BY <1>1, <1>2, QuirkOpBegins
<1>4. StepFits(s)
  BY <1>1, <1>3 DEF StepFits
<1> QED BY <1>3, <1>4 DEF Turn, put

LEMMA UpdateStarts ==
    ASSUME QuirkSteppers, NEW p \in Procs, NEW q \in QuirkIds, StartUpdate(p, q)
    PROVE  /\ minted[q] + 1 \in 1..MaxVersion
           /\ \E s : /\ Turn(p, s) /\ s.kind = "update" /\ s.pc = "wipe" /\ s.q = {q}
                     /\ s.put = [NoRecords EXCEPT ![q] = minted[q] + 1] /\ s.snap = NoRecords /\ s.seen = {}
<1>1. minted[q] + 1 \in 1..MaxVersion /\ minted[q] + 1 \in 0..MaxVersion /\ minted[q] + 1 # 0
  BY RecordsAreNumbers DEF StartUpdate, QuirkSteppers, QuirkTypeOK
<1> DEFINE put == [NoRecords EXCEPT ![q] = minted[q] + 1]
<1>2. /\ put \in [QuirkIds -> 0..MaxVersion] /\ put[q] # 0 /\ \A x \in QuirkIds : x # q => put[x] = 0
  BY <1>1, RecordsAreNumbers DEF NoRecords
<1>3. BeginOp(p, "update", q, put, "wipe") /\ "update" \in Kinds /\ "wipe" \in QuirkSteps
  BY DEF StartUpdate, Kinds, QuirkSteps
<1> HIDE DEF put
<1>4. PICK s \in Doing :
              /\ st' = [st EXCEPT ![p] = s] /\ s.pc = "wipe" /\ s.kind = "update" /\ s.q = {q}
              /\ s.put = put /\ s.snap = NoRecords /\ s.seen = {}
  BY <1>2, <1>3, QuirkOpBegins
<1>5. StepFits(s)
  BY <1>2, <1>4 DEF StepFits
<1> QED BY <1>1, <1>4, <1>5 DEF Turn, put

LEMMA RemoveStarts ==
    ASSUME QuirkSteppers, NEW p \in Procs, NEW q \in QuirkIds, StartRemove(p, q)
    PROVE  \E s : /\ Turn(p, s) /\ s.kind = "remove" /\ s.pc = "readLog" /\ s.q = {q}
                  /\ s.put = NoRecords /\ s.snap = NoRecords /\ s.seen = {}
<1>1. BeginOp(p, "remove", q, NoRecords, "readLog") /\ "remove" \in Kinds /\ "readLog" \in QuirkSteps
      /\ NoRecords \in [QuirkIds -> 0..MaxVersion]
  BY RecordsAreNumbers DEF StartRemove, Kinds, QuirkSteps
<1>2. PICK s \in Doing :
              /\ st' = [st EXCEPT ![p] = s] /\ s.pc = "readLog" /\ s.kind = "remove" /\ s.q = {q}
              /\ s.put = NoRecords /\ s.snap = NoRecords /\ s.seen = {}
  BY <1>1, QuirkOpBegins
<1>3. StepFits(s)
  BY <1>2 DEF StepFits
<1> QED BY <1>2, <1>3 DEF Turn

LEMMA WipeGoesOn ==
    ASSUME QuirkSteppers, NEW p \in Procs, WipeRows(p)
    PROVE  \E s : /\ Turn(p, s) /\ s.pc = "insert" /\ s.kind = st[p].kind /\ s.q = st[p].q
                  /\ s.put = st[p].put /\ s.snap = st[p].snap /\ s.seen = st[p].seen
<1>1. Goto(p, "insert") /\ "insert" \in QuirkSteps /\ st[p].pc = "wipe" /\ StepFits(st[p])
  BY DEF WipeRows, QuirkSteps, QuirkSteppers
<1>2. PICK s \in Doing :
              /\ st' = [st EXCEPT ![p] = s] /\ s.pc = "insert" /\ s.kind = st[p].kind /\ s.q = st[p].q
              /\ s.put = st[p].put /\ s.snap = st[p].snap /\ s.seen = st[p].seen
  BY <1>1, GoesOn
<1>3. StepFits(s)
  BY <1>1, <1>2 DEF StepFits
<1> QED BY <1>2, <1>3 DEF Turn

LEMMA InsertGoesOn ==
    ASSUME QuirkSteppers, NEW p \in Procs, InsertRow(p)
    PROVE  /\ st[p].kind \in {"add", "update", "reconcile"}
           /\ \E s : /\ Turn(p, s) /\ s.pc = AfterInsert(st[p].kind) /\ s.kind = st[p].kind /\ s.q = st[p].q
                     /\ s.put = st[p].put /\ s.snap = st[p].snap /\ s.seen = st[p].seen
<1>1. Goto(p, AfterInsert(st[p].kind)) /\ AfterInsert(st[p].kind) \in QuirkSteps /\ StepFits(st[p])
      /\ st[p].kind \in {"add", "update", "reconcile"}
      /\ AfterInsert(st[p].kind) \in {"append", "readLog", "orphans"}
  BY DEF InsertRow, QuirkSteps, QuirkSteppers, AfterInsert, StepFits
<1>2. PICK s \in Doing :
              /\ st' = [st EXCEPT ![p] = s] /\ s.pc = AfterInsert(st[p].kind) /\ s.kind = st[p].kind /\ s.q = st[p].q
              /\ s.put = st[p].put /\ s.snap = st[p].snap /\ s.seen = st[p].seen
  BY <1>1, GoesOn
<1>3. StepFits(s)
  BY <1>1, <1>2 DEF StepFits, AfterInsert
<1> QED BY <1>1, <1>2, <1>3 DEF Turn

LEMMA LogsAreLogs ==
    ASSUME QuirkSteppers, NEW p \in Procs
    PROVE  LogOf(p) \in QuirkLog /\ home[p] \in Procs
BY DEF QuirkSteppers, QuirkTypeOK, LogOf

LEMMA ReadGoesOn ==
    ASSUME QuirkSteppers, NEW p \in Procs, ReadLog(p)
    PROVE  \E s : /\ Turn(p, s) /\ s.pc = "writeLog" /\ s.kind = st[p].kind /\ s.q = st[p].q
                  /\ s.put = st[p].put /\ s.snap = LogOf(p) /\ s.seen = st[p].seen
<1>1. st \in [Procs -> Doing] /\ StepFits(st[p]) /\ LogOf(p) \in QuirkLog /\ st[p].pc = "readLog"
  BY LogsAreLogs DEF QuirkSteppers, QuirkTypeOK, Doing, ReadLog
<1> DEFINE s == [st[p] EXCEPT !.pc = "writeLog", !.snap = LogOf(p)]
<1>2. st' = [st EXCEPT ![p] = s]
  BY <1>1 DEF ReadLog
<1>3. /\ s \in Doing /\ s.pc = "writeLog" /\ s.kind = st[p].kind /\ s.q = st[p].q
      /\ s.put = st[p].put /\ s.snap = LogOf(p) /\ s.seen = st[p].seen
  BY <1>1 DEF Doing, QuirkSteps
<1> HIDE DEF s
<1>4. StepFits(s)
  BY <1>1, <1>3 DEF StepFits
<1> QED BY <1>2, <1>3, <1>4 DEF Turn

LEMMA WriteGoesOn ==
    ASSUME QuirkSteppers, NEW p \in Procs, WriteLog(p)
    PROVE  /\ st[p].kind \in {"update", "remove"}
           /\ \E s : /\ Turn(p, s) /\ s.pc = IF st[p].kind = "remove" THEN "deleteRow" ELSE IF shared THEN "flush" ELSE "rest"
                     /\ st[p].kind = "remove" => s.kind = "remove" /\ s.q = st[p].q /\ s.put = st[p].put
                                                 /\ s.snap = st[p].snap /\ s.seen = st[p].seen
                     /\ st[p].kind = "update" => s.q = {} /\ s.put = NoRecords /\ s.seen = {} /\ s.snap = NoRecords
<1>1. StepFits(st[p]) /\ st[p].kind \in {"update", "remove"} /\ st[p].pc = "writeLog"
  BY DEF WriteLog, QuirkSteppers, StepFits
<1>2. CASE st[p].kind = "remove"
  <2>1. Goto(p, "deleteRow") /\ "deleteRow" \in QuirkSteps
    BY <1>2 DEF WriteLog, QuirkSteps
  <2>2. PICK s \in Doing :
              /\ st' = [st EXCEPT ![p] = s] /\ s.pc = "deleteRow" /\ s.kind = st[p].kind /\ s.q = st[p].q
              /\ s.put = st[p].put /\ s.snap = st[p].snap /\ s.seen = st[p].seen
    BY <2>1, GoesOn
  <2>3. StepFits(s)
    BY <1>1, <1>2, <2>2 DEF StepFits
  <2> QED BY <1>2, <2>2, <2>3 DEF Turn
<1>3. CASE st[p].kind = "update"
  <2>1. FinishOp(p)
    BY <1>3 DEF WriteLog
  <2> QED BY <1>3, <2>1, Finished
<1> QED BY <1>1, <1>2, <1>3

LEMMA ReconcileStarts ==
    ASSUME QuirkSteppers, NEW p \in Procs, StartReconcile(p)
    PROVE  \E s : /\ Turn(p, s) /\ s.kind = "reconcile" /\ s.pc = "scanRows" /\ s.q = {}
                  /\ s.put = NoRecords /\ s.snap = LogOf(p) /\ s.seen = {}
<1> DEFINE s == [Resting EXCEPT !.kind = "reconcile", !.pc = "scanRows", !.snap = LogOf(p)]
<1>1. st' = [st EXCEPT ![p] = s]
  BY DEF StartReconcile
<1>2. /\ s \in Doing /\ s.kind = "reconcile" /\ s.pc = "scanRows" /\ s.q = {}
      /\ s.put = NoRecords /\ s.snap = LogOf(p) /\ s.seen = {}
  BY LogsAreLogs, RestingFits DEF Doing, Kinds, QuirkSteps
<1> HIDE DEF s
<1>3. StepFits(s)
  BY <1>2 DEF StepFits
<1> QED BY <1>1, <1>2, <1>3 DEF Turn

LEMMA DedupGoesOn ==
    ASSUME QuirkSteppers, NEW p \in Procs, DedupRows(p)
    PROVE  /\ st[p].kind = "reconcile" /\ st[p].q = {}
           /\ \E s : /\ Turn(p, s) /\ s.kind = "reconcile" /\ s.q = {} /\ s.snap = st[p].snap
                     /\ s.seen = {q \in QuirkIds : quirkRows[q] # {}}
                     /\ \A q \in QuirkIds : s.put[q] = 0 \/ (s.put[q] = st[p].snap[q] /\ Listed(st[p].snap[q]))
                     /\ s.pc \in {"orphans", IF shared THEN "insert" ELSE "wipe"}
<1> DEFINE seen == {q \in QuirkIds : quirkRows[q] # {}}
           live == {q \in QuirkIds : Listed(st[p].snap[q])}
           dup == {q \in live \cap seen : Cardinality(quirkRows[q]) > 1}
           missing == (live \ seen) \cup dup
           put == [q \in QuirkIds |-> IF q \in missing THEN st[p].snap[q] ELSE 0]
           pc == IF missing = {} THEN "orphans" ELSE IF shared THEN "insert" ELSE "wipe"
           s == [st[p] EXCEPT !.seen = seen, !.put = put, !.pc = pc]
<1>1. st \in [Procs -> Doing] /\ StepFits(st[p]) /\ st[p].pc = "scanRows" /\ st[p].kind = "reconcile" /\ st[p].q = {}
  BY DEF QuirkSteppers, QuirkTypeOK, Doing, DedupRows, StepFits
<1>2. st' = [st EXCEPT ![p] = s]
  BY <1>1 DEF DedupRows
<1>3. missing \subseteq live
  OBVIOUS
<1>4. \A q \in QuirkIds : put[q] = 0 \/ (put[q] = st[p].snap[q] /\ Listed(st[p].snap[q]))
  BY <1>3
<1>5. put \in [QuirkIds -> 0..MaxVersion]
  <2>1. \A q \in QuirkIds : put[q] \in 0..MaxVersion
    BY <1>4, RecordsAreNumbers DEF Listed
  <2> QED BY <2>1
<1>6. pc \in {"orphans", IF shared THEN "insert" ELSE "wipe"} /\ pc \in QuirkSteps
  BY DEF QuirkSteps
<1>7. seen \subseteq QuirkIds
  OBVIOUS
<1> HIDE DEF seen, missing, put, pc
<1>8. s \in Doing /\ s.kind = "reconcile" /\ s.q = {} /\ s.snap = st[p].snap /\ s.seen = seen /\ s.put = put /\ s.pc = pc
  BY <1>1, <1>5, <1>6, <1>7 DEF Doing
<1> HIDE DEF s
<1>9. StepFits(s)
  BY <1>6, <1>8 DEF StepFits
<1>10. Turn(p, s)
  BY <1>2, <1>8, <1>9 DEF Turn
<1> QED BY <1>1, <1>4, <1>6, <1>8, <1>10 DEF seen

-----------------------------------------------------------------------------
\* The exchange with the central bundle.
Exchanging(p) == FlushLog(p) \/ FlushWrite(p) \/ FlushBack(p) \/ StartHydrate(p) \/ HydrateWrite(p)

LEMMA MergeIsALog == ASSUME NEW mine \in QuirkLog, NEW theirs \in QuirkLog PROVE Merge(mine, theirs) \in QuirkLog
BY RecordsAreNumbers DEF Merge, QuirkLog

\* Only processes with a central store exchange, each with the log of its machine.
LEMMA ExchangeTurns ==
    ASSUME QuirkSteppers, NEW p \in Procs, Exchanging(p)
    PROVE  /\ shared
           /\ \E s : Turn(p, s) /\ s.pc \in {"rest", "flush", "flushWrite", "flushBack", "hydWrite"}
           /\ log' = log \/ \E new \in QuirkLog : log' = [log EXCEPT ![home[p]] = new]
           /\ remote' \in QuirkLog
           /\ synced' = synced \/ \E new \in QuirkLog : synced' = [synced EXCEPT ![home[p]] = new]
<1>1. /\ st \in [Procs -> Doing] /\ StepFits(st[p]) /\ LogOf(p) \in QuirkLog /\ home[p] \in Procs
      /\ remote \in QuirkLog /\ synced[home[p]] \in QuirkLog /\ st[p].snap \in QuirkLog
      /\ st[p].far \in QuirkLog /\ st[p].base \in QuirkLog
  BY LogsAreLogs DEF QuirkSteppers, QuirkTypeOK, Doing
<1>2. Turn(p, Resting) <=> st' = [st EXCEPT ![p] = Resting]
  BY RestingFits DEF Turn
<1>3. CASE FlushLog(p)
  <2>1. st[p].pc = "flush" /\ shared
    BY <1>1, <1>3 DEF FlushLog, StepFits
  <2>2. PICK payload \in QuirkLog :
          \/ SaveVersions(p, payload)
          \/ /\ st' = [st EXCEPT ![p].pc = "flushWrite", ![p].snap = LogOf(p), ![p].far = payload,
                                 ![p].base = synced[home[p]]]
             /\ UNCHANGED synced
    BY <1>1, <1>3, MergeIsALog DEF FlushLog
  <2>3. UNCHANGED <<log, remote>>
    BY <1>3 DEF FlushLog
  <2>4. CASE SaveVersions(p, payload)
    BY <1>1, <1>2, <2>1, <2>3, <2>4, RestingFits DEF SaveVersions
  <2>5. CASE /\ st' = [st EXCEPT ![p].pc = "flushWrite", ![p].snap = LogOf(p), ![p].far = payload,
                                 ![p].base = synced[home[p]]]
             /\ UNCHANGED synced
    <3> DEFINE s == [st[p] EXCEPT !.pc = "flushWrite", !.snap = LogOf(p), !.far = payload, !.base = synced[home[p]]]
    <3>1. st' = [st EXCEPT ![p] = s]
      BY <1>1, <2>5
    <3>2. s \in Doing /\ s.pc = "flushWrite" /\ s.kind = st[p].kind /\ s.q = st[p].q /\ s.put = st[p].put
      BY <1>1 DEF Doing, QuirkSteps
    <3> HIDE DEF s
    <3>3. StepFits(s)
      BY <1>1, <2>1, <3>2 DEF StepFits
    <3>4. Turn(p, s)
      BY <3>1, <3>2, <3>3 DEF Turn
    <3> QED BY <1>1, <2>1, <2>3, <2>5, <3>2, <3>4
  <2> QED BY <2>2, <2>4, <2>5
<1>4. CASE FlushWrite(p)
  <2>1. st[p].pc = "flushWrite" /\ shared /\ log' = log
    BY <1>1, <1>4 DEF FlushWrite, StepFits
  <2>2. CASE remote' = st[p].far /\ Goto(p, "flushBack") /\ UNCHANGED synced
    <3>1. "flushBack" \in QuirkSteps
      BY DEF QuirkSteps
    <3>2. PICK s \in Doing : /\ st' = [st EXCEPT ![p] = s] /\ s.pc = "flushBack" /\ s.kind = st[p].kind
                             /\ s.q = st[p].q /\ s.put = st[p].put
      BY <2>2, <3>1, GoesOn
    <3>3. StepFits(s)
      BY <1>1, <2>1, <3>2 DEF StepFits
    <3>4. Turn(p, s)
      BY <3>2, <3>3 DEF Turn
    <3> QED BY <1>1, <2>1, <2>2, <3>2, <3>4
  <2>3. CASE SaveVersions(p, st[p].base) /\ UNCHANGED remote
    BY <1>1, <1>2, <2>1, <2>3, RestingFits DEF SaveVersions
  <2> QED BY <1>4, <2>2, <2>3 DEF FlushWrite
<1>5. CASE FlushBack(p)
  <2>1. st[p].pc = "flushBack" /\ shared /\ UNCHANGED remote /\ SaveVersions(p, st[p].far)
    BY <1>1, <1>5 DEF FlushBack, StepFits
  <2>2. log' = log \/ log' = [log EXCEPT ![home[p]] = st[p].far]
    BY <1>5 DEF FlushBack
  <2> QED BY <1>1, <1>2, <2>1, <2>2, RestingFits DEF SaveVersions
<1>6. CASE StartHydrate(p)
  <2> DEFINE s == [Resting EXCEPT !.kind = "hydrate", !.pc = "hydWrite", !.snap = LogOf(p), !.far = remote,
                                  !.base = synced[home[p]]]
  <2>1. st' = [st EXCEPT ![p] = s] /\ UNCHANGED <<log, synced, remote>> /\ shared
    BY <1>6 DEF StartHydrate
  <2>2. s \in Doing /\ s.pc = "hydWrite" /\ s.kind = "hydrate"
    BY <1>1, RestingFits DEF Doing, Kinds, QuirkSteps
  <2> HIDE DEF s
  <2>3. Turn(p, s)
    BY <2>1, <2>2 DEF Turn, StepFits
  <2> QED BY <1>1, <2>1, <2>2, <2>3
<1>7. CASE HydrateWrite(p)
  <2>1. st[p].pc = "hydWrite" /\ shared /\ UNCHANGED remote
    BY <1>1, <1>7 DEF HydrateWrite, StepFits
  <2>2. \E new \in QuirkLog : log' = log \/ log' = [log EXCEPT ![home[p]] = new]
    BY <1>1, <1>7, MergeIsALog DEF HydrateWrite
  <2>3. SaveVersions(p, st[p].far) \/ (FinishOp(p) /\ UNCHANGED synced)
    BY <1>7 DEF HydrateWrite
  <2>4. CASE SaveVersions(p, st[p].far)
    BY <1>1, <1>2, <2>1, <2>2, <2>4, RestingFits DEF SaveVersions
  <2>5. CASE FinishOp(p) /\ UNCHANGED synced
    <3>1. PICK s : Turn(p, s) /\ s.pc = IF shared THEN "flush" ELSE "rest"
      BY <2>5, Finished
    <3> QED BY <1>1, <2>1, <2>2, <2>5, <3>1
  <2> QED BY <2>3, <2>4, <2>5
<1> QED BY <1>3, <1>4, <1>5, <1>6, <1>7 DEF Exchanging

-----------------------------------------------------------------------------
\* What the steps leave to the types.
QuirkData ==
    /\ log \in [Procs -> QuirkLog] /\ synced \in [Procs -> QuirkLog] /\ remote \in QuirkLog
    /\ quirkRows \in [QuirkIds -> SUBSET (Versions \X Procs)]
    /\ suspects \in [Procs -> [QuirkIds -> {"no", "new", "old"}]]
    /\ minted \in [QuirkIds -> 0..MaxVersion]
    /\ told \in QuirkLog
    /\ clashed \in BOOLEAN
    /\ ops \in 0..MaxOps /\ quirkFaults \in 0..MaxFaults

LEMMA TurnsKeepTypes ==
    ASSUME QuirkSteppers, UNCHANGED <<shared, home, others>>, QuirkData',
           st' = st \/ \E p \in Procs : \E s : Turn(p, s)
    PROVE  QuirkSteppers'
<1>1. st' \in [Procs -> Doing] /\ \A r \in Procs : StepFits(st[r])'
  <2>1. CASE st' = st
    BY <2>1 DEF QuirkSteppers, QuirkTypeOK, Doing, StepFits
  <2>2. ASSUME NEW p \in Procs, NEW s, Turn(p, s) PROVE st' \in [Procs -> Doing] /\ \A r \in Procs : StepFits(st[r])'
    BY <2>2, Turns
  <2> QED BY <2>1, <2>2
<1>2. QuirkTypeOK'
  BY <1>1 DEF QuirkSteppers, QuirkTypeOK, QuirkData, Doing
<1>3. Machines'
  BY DEF QuirkSteppers, Machines
<1> QED BY <1>1, <1>2, <1>3 DEF QuirkSteppers

LEMMA RewrittenIsALog == ASSUME QuirkSteppers, NEW p \in Procs PROVE Rewritten(p) \in QuirkLog
<1>1. st[p].snap \in QuirkLog /\ st[p].put \in [QuirkIds -> 0..MaxVersion]
  BY DEF QuirkSteppers, QuirkTypeOK
<1> QED BY <1>1, RecordsAreNumbers DEF Rewritten, QuirkLog

\* What the cleaning notes of a quirk's rows.
Mark(p, q) ==
    LET mine == suspects[home[p]]
        orphan == {x \in st[p].seen : ~ Listed(st[p].snap[x])}
        stored == st[p].seen \cup {x \in QuirkIds : st[p].put[x] # 0}
    IN  IF q \in orphan
        THEN CASE mine[q] = "no" -> "new" [] mine[q] = "new" -> "new" [] mine[q] = "old" -> "no"
        ELSE IF q \in st[p].seen \/ q \notin stored THEN "no" ELSE mine[q]

\* A row is an old suspect only when it was one, and what has no row is none.
LEMMA OrphansMark ==
    ASSUME QuirkSteppers, NEW p \in Procs, Orphans(p)
    PROVE  \/ suspects' = suspects
           \/ \E table \in [QuirkIds -> {"no", "new", "old"}] :
                 /\ suspects' = [suspects EXCEPT ![home[p]] = table]
                 /\ \A q \in QuirkIds : table[q] = "old" => suspects[home[p]][q] = "old"
                 /\ \A q \in QuirkIds : q \notin st[p].seen /\ st[p].put[q] = 0 => table[q] = "no"
<1>1. \/ suspects' = suspects
      \/ suspects' = [suspects EXCEPT ![home[p]] = [q \in QuirkIds |-> Mark(p, q)]]
  BY DEF Orphans, Mark
<1>2. \A q \in QuirkIds : suspects[home[p]][q] \in {"no", "new", "old"}
  BY LogsAreLogs DEF QuirkSteppers, QuirkTypeOK
<1>3. ASSUME NEW q \in QuirkIds
      PROVE  /\ Mark(p, q) \in {"no", "new", "old"}
             /\ Mark(p, q) = "old" => suspects[home[p]][q] = "old"
             /\ q \notin st[p].seen /\ st[p].put[q] = 0 => Mark(p, q) = "no"
  <2>1. suspects[home[p]][q] \in {"no", "new", "old"}
    BY <1>2
  <2> QED BY <2>1 DEF Mark
<1> DEFINE table == [q \in QuirkIds |-> Mark(p, q)]
<1>4. table \in [QuirkIds -> {"no", "new", "old"}]
  <2>1. \A q \in QuirkIds : Mark(p, q) \in {"no", "new", "old"}
    BY <1>3
  <2> QED BY <2>1
<1>5. \A q \in QuirkIds : table[q] = Mark(p, q)
  OBVIOUS
<1> HIDE DEF table
<1>6. /\ \A q \in QuirkIds : table[q] = "old" => suspects[home[p]][q] = "old"
      /\ \A q \in QuirkIds : q \notin st[p].seen /\ st[p].put[q] = 0 => table[q] = "no"
  BY <1>3, <1>5
<1>7. suspects' = suspects \/ suspects' = [suspects EXCEPT ![home[p]] = table]
  BY <1>1 DEF table
<1> QED BY <1>4, <1>6, <1>7

\* What an action may leave as rows.
RowsIn(rows) == rows \in [QuirkIds -> SUBSET (Versions \X Procs)]

LEMMA QuirkTypesStay ==
    ASSUME QuirkSteppers, QuirkNext
    PROVE  QuirkSteppers' /\ UNCHANGED <<shared, home, others>>
<1>1. QuirkData /\ MaxFaults \in Nat /\ MaxOps \in Nat
  BY QuirkStoreAssumption DEF QuirkSteppers, QuirkTypeOK, QuirkData
<1>2. ASSUME NEW p \in Procs, NEW q \in QuirkIds, StartAdd(p, q)
      PROVE  QuirkSteppers' /\ UNCHANGED <<shared, home, others>>
  <2>1. \E s : Turn(p, s)
    BY <1>2, AddStarts
  <2>2. ops' \in 0..MaxOps
    BY <1>1, <1>2 DEF StartAdd, BeginOp, QuirkData
  <2>3. minted' \in [QuirkIds -> 0..MaxVersion]
    BY <1>1, <1>2, RecordsAreNumbers DEF StartAdd, QuirkData
  <2>4. UNCHANGED <<shared, home, others>> /\ QuirkData'
    BY <1>1, <1>2, <2>2, <2>3 DEF StartAdd, QuirkData
  <2> QED BY <2>1, <2>4, TurnsKeepTypes
<1>3. ASSUME NEW p \in Procs, NEW q \in QuirkIds, StartUpdate(p, q)
      PROVE  QuirkSteppers' /\ UNCHANGED <<shared, home, others>>
  <2>1. minted[q] + 1 \in 1..MaxVersion /\ \E s : Turn(p, s)
    BY <1>3, UpdateStarts
  <2>2. ops' \in 0..MaxOps
    BY <1>1, <1>3 DEF StartUpdate, BeginOp, QuirkData
  <2>3. PICK v \in 0..MaxVersion : v = minted[q] + 1
    BY <2>1, RecordsAreNumbers
  <2>4. minted' = [minted EXCEPT ![q] = v]
    BY <1>1, <1>3, <2>3 DEF StartUpdate, QuirkData
  <2>5. UNCHANGED <<shared, home, others>> /\ QuirkData'
    BY <1>1, <1>3, <2>2, <2>4 DEF StartUpdate, QuirkData
  <2> QED BY <2>1, <2>5, TurnsKeepTypes
<1>4. ASSUME NEW p \in Procs, NEW q \in QuirkIds, StartRemove(p, q)
      PROVE  QuirkSteppers' /\ UNCHANGED <<shared, home, others>>
  <2>1. \E s : Turn(p, s)
    BY <1>4, RemoveStarts
  <2>2. ops' \in 0..MaxOps
    BY <1>1, <1>4 DEF StartRemove, BeginOp, QuirkData
  <2>3. UNCHANGED <<shared, home, others>> /\ QuirkData'
    BY <1>1, <1>4, <2>2 DEF StartRemove, QuirkData
  <2> QED BY <2>1, <2>3, TurnsKeepTypes
<1>5. ASSUME NEW p \in Procs, StartReconcile(p)
      PROVE  QuirkSteppers' /\ UNCHANGED <<shared, home, others>>
  <2>1. \E s : Turn(p, s)
    BY <1>5, ReconcileStarts
  <2>2. quirkFaults' \in 0..MaxFaults
    BY <1>1, <1>5 DEF StartReconcile, QuirkData
  <2>3. UNCHANGED <<shared, home, others>> /\ QuirkData'
    BY <1>1, <1>5, <2>2 DEF StartReconcile, QuirkData
  <2> QED BY <2>1, <2>3, TurnsKeepTypes
<1>6. ASSUME NEW p \in Procs, WipeRows(p)
      PROVE  QuirkSteppers' /\ UNCHANGED <<shared, home, others>>
  <2>1. \E s : Turn(p, s)
    BY <1>6, WipeGoesOn
  <2>2. RowsIn(quirkRows')
    BY <1>1, <1>6 DEF WipeRows, QuirkData, RowsIn
  <2>3. UNCHANGED <<shared, home, others>> /\ QuirkData'
    BY <1>1, <1>6, <2>2 DEF WipeRows, QuirkData, RowsIn
  <2> QED BY <2>1, <2>3, TurnsKeepTypes
<1>7. ASSUME NEW p \in Procs, InsertRow(p)
      PROVE  QuirkSteppers' /\ UNCHANGED <<shared, home, others>>
  <2>1. \E s : Turn(p, s)
    BY <1>7, InsertGoesOn
  <2>2. \A q \in QuirkIds : st[p].put[q] # 0 => <<st[p].put[q], p>> \in Versions \X Procs
    BY RecordsAreNumbers DEF QuirkSteppers, QuirkTypeOK, Versions
  <2>3. RowsIn(quirkRows')
    BY <1>1, <1>7, <2>2 DEF InsertRow, QuirkData, RowsIn
  <2>4. clashed' \in BOOLEAN
    BY <1>7 DEF InsertRow
  <2>5. UNCHANGED <<shared, home, others>> /\ QuirkData'
    BY <1>1, <1>7, <2>3, <2>4 DEF InsertRow, QuirkData, RowsIn
  <2> QED BY <2>1, <2>5, TurnsKeepTypes
<1>8. ASSUME NEW p \in Procs, AppendRecord(p)
      PROVE  QuirkSteppers' /\ UNCHANGED <<shared, home, others>>
  <2>1. \E s : Turn(p, s)
    BY <1>8, Finished DEF AppendRecord
  <2>2. home[p] \in Procs /\ log[home[p]] \in QuirkLog
    BY LogsAreLogs DEF LogOf
  <2>3. log' \in [Procs -> QuirkLog] /\ told' \in QuirkLog
    BY <1>1, <1>8, <2>2, RecordsAreNumbers DEF AppendRecord, QuirkData, QuirkLog
  <2>4. clashed' \in BOOLEAN
    BY <1>8 DEF AppendRecord
  <2>5. UNCHANGED <<shared, home, others>> /\ QuirkData'
    BY <1>1, <1>8, <2>3, <2>4 DEF AppendRecord, QuirkData
  <2> QED BY <2>1, <2>5, TurnsKeepTypes
<1>9. ASSUME NEW p \in Procs, ReadLog(p)
      PROVE  QuirkSteppers' /\ UNCHANGED <<shared, home, others>>
  <2>1. \E s : Turn(p, s)
    BY <1>9, ReadGoesOn
  <2>2. UNCHANGED <<shared, home, others>> /\ QuirkData'
    BY <1>1, <1>9 DEF ReadLog, QuirkData
  <2> QED BY <2>1, <2>2, TurnsKeepTypes
<1>10. ASSUME NEW p \in Procs, WriteLog(p)
      PROVE  QuirkSteppers' /\ UNCHANGED <<shared, home, others>>
  <2>1. \E s : Turn(p, s)
    BY <1>10, WriteGoesOn
  <2>2. Rewritten(p) \in QuirkLog
    BY RewrittenIsALog
  <2>3. log' \in [Procs -> QuirkLog] /\ told' \in QuirkLog
    <3>1. log' \in [Procs -> QuirkLog]
      BY <1>1, <1>10, <2>2 DEF WriteLog, QuirkData
    <3>2. told' \in QuirkLog
      BY <1>1, <1>10, <2>2 DEF WriteLog, QuirkData, QuirkLog
    <3> QED BY <3>1, <3>2
  <2>4. clashed' \in BOOLEAN
    BY <1>10 DEF WriteLog
  <2>5. UNCHANGED <<shared, home, others>> /\ QuirkData'
    BY <1>1, <1>10, <2>3, <2>4 DEF WriteLog, QuirkData
  <2> QED BY <2>1, <2>5, TurnsKeepTypes
<1>11. ASSUME NEW p \in Procs, DeleteRow(p)
      PROVE  QuirkSteppers' /\ UNCHANGED <<shared, home, others>>
  <2>1. \E s : Turn(p, s)
    BY <1>11, Finished DEF DeleteRow
  <2>2. RowsIn(quirkRows') /\ quirkFaults' \in 0..MaxFaults
    BY <1>1, <1>11 DEF DeleteRow, QuirkData, RowsIn
  <2>3. UNCHANGED <<shared, home, others>> /\ QuirkData'
    BY <1>1, <1>11, <2>2 DEF DeleteRow, QuirkData, RowsIn
  <2> QED BY <2>1, <2>3, TurnsKeepTypes
<1>12. ASSUME NEW p \in Procs, DedupRows(p)
      PROVE  QuirkSteppers' /\ UNCHANGED <<shared, home, others>>
  <2>1. \E s : Turn(p, s)
    BY <1>12, DedupGoesOn
  <2>2. RowsIn(quirkRows')
    BY <1>1, <1>12 DEF DedupRows, QuirkData, RowsIn
  <2>3. UNCHANGED <<shared, home, others>> /\ QuirkData'
    BY <1>1, <1>12, <2>2 DEF DedupRows, QuirkData, RowsIn
  <2> QED BY <2>1, <2>3, TurnsKeepTypes
<1>13. ASSUME NEW p \in Procs, Orphans(p)
      PROVE  QuirkSteppers' /\ UNCHANGED <<shared, home, others>>
  <2>1. \E s : Turn(p, s)
    BY <1>13, Finished DEF Orphans
  <2>2. RowsIn(quirkRows')
    BY <1>1, <1>13 DEF Orphans, QuirkData, RowsIn
  <2>3. suspects' \in [Procs -> [QuirkIds -> {"no", "new", "old"}]]
    BY <1>1, <1>13, LogsAreLogs, OrphansMark DEF QuirkData
  <2>4. UNCHANGED <<shared, home, others>> /\ QuirkData'
    BY <1>1, <1>13, <2>2, <2>3 DEF Orphans, QuirkData, RowsIn
  <2> QED BY <2>1, <2>4, TurnsKeepTypes
<1>14. ASSUME NEW p \in Procs, Exchanging(p)
      PROVE  QuirkSteppers' /\ UNCHANGED <<shared, home, others>>
  <2>1. /\ \E s : Turn(p, s)
        /\ log' \in [Procs -> QuirkLog] /\ synced' \in [Procs -> QuirkLog] /\ remote' \in QuirkLog
    BY <1>1, <1>14, ExchangeTurns DEF QuirkData
  <2>2. /\ UNCHANGED <<shared, home, others, quirkRows, suspects, minted, told, ops>>
        /\ quirkFaults' = quirkFaults \/ (quirkFaults < MaxFaults /\ quirkFaults' = quirkFaults + 1)
    BY <1>14 DEF Exchanging, FlushLog, FlushWrite, FlushBack, StartHydrate, HydrateWrite
  <2>3. clashed' = clashed \/ clashed' \in BOOLEAN
    BY <1>14 DEF Exchanging, FlushLog, FlushWrite, FlushBack, StartHydrate, HydrateWrite
  <2>4. quirkFaults' \in 0..MaxFaults
    BY <1>1, <2>2 DEF QuirkData
  <2>5. QuirkData'
    BY <1>1, <2>1, <2>2, <2>3, <2>4 DEF QuirkData
  <2> QED BY <2>1, <2>2, <2>5, TurnsKeepTypes
<1>15. ASSUME NEW p \in Procs, QuirkCrash(p)
      PROVE  QuirkSteppers' /\ UNCHANGED <<shared, home, others>>
  <2>1. Turn(p, Resting)
    BY <1>15, RestingFits DEF QuirkCrash, Turn
  <2>2. quirkFaults' \in 0..MaxFaults
    BY <1>1, <1>15 DEF QuirkCrash, QuirkData
  <2>3. UNCHANGED <<shared, home, others>> /\ QuirkData'
    BY <1>1, <1>15, <2>2 DEF QuirkCrash, QuirkData
  <2> QED BY <2>1, <2>3, TurnsKeepTypes
<1>16. ASSUME NEW m \in Procs, AnHourPasses(m)
      PROVE  QuirkSteppers' /\ UNCHANGED <<shared, home, others>>
  <2>1. suspects' \in [Procs -> [QuirkIds -> {"no", "new", "old"}]]
    BY <1>1, <1>16 DEF AnHourPasses, QuirkData
  <2>2. UNCHANGED <<shared, home, others, st>> /\ QuirkData'
    BY <1>1, <1>16, <2>1 DEF AnHourPasses, QuirkData
  <2> QED BY <2>2, TurnsKeepTypes
<1>17. CASE RowsRebuilt
  <2>1. RowsIn(quirkRows') /\ quirkFaults' \in 0..MaxFaults
    BY <1>1, <1>17 DEF RowsRebuilt, QuirkData, RowsIn
  <2>2. UNCHANGED <<shared, home, others, st>> /\ QuirkData'
    BY <1>1, <1>17, <2>1 DEF RowsRebuilt, QuirkData, RowsIn
  <2> QED BY <2>2, TurnsKeepTypes
<1> QED BY <1>2, <1>3, <1>4, <1>5, <1>6, <1>7, <1>8, <1>9, <1>10, <1>11, <1>12, <1>13, <1>14, <1>15,
           <1>16, <1>17 DEF QuirkNext, Continue, Exchanging

-----------------------------------------------------------------------------
\* What a process is in the middle of: an addition, the scan of a reconcile, or
\* the change of a quirk whose row and record differ meanwhile.
Adds(s, q) == s.kind = "add" /\ s.pc \in {"insert", "append"} /\ q \in s.q
Scans(s) == s.kind = "reconcile" /\ s.pc \in {"scanRows", "wipe", "insert", "orphans"}
Updates(s, q) == s.kind = "update" /\ s.pc \in {"readLog", "writeLog"} /\ q \in s.q
Fixes(s, q) == (q \in s.q /\ s.pc \in {"append", "deleteRow"}) \/ Updates(s, q)

\* With a central store nobody else changes a machine's log.
ScansAreFresh == \A p \in Procs : Scans(st[p]) => st[p].snap = LogOf(p)

\* Before a quirk is added it is nowhere.
Untouched(s, q) == q \notin s.q /\ s.put[q] = 0 /\ s.snap[q] = 0 /\ q \notin s.seen
Begun ==
    \A q \in QuirkIds : minted[q] = 0 =>
        /\ quirkRows[q] = {}
        /\ \A p \in Procs : /\ LogOf(p)[q] = 0 /\ suspects[home[p]][q] = "no"
                            /\ Untouched(st[p], q)

\* Rows that a process is about to record, or that were recorded after a scan
\* had read the log, have not waited for an hour.
OrphansWait ==
    \A p \in Procs, q \in QuirkIds :
        /\ Adds(st[p], q) => suspects[home[p]][q] # "old"
        /\ ~ clashed /\ Scans(st[p]) /\ ~ Listed(st[p].snap[q]) /\ Listed(LogOf(p)[q])
              => suspects[home[p]][q] # "old"

\* A quirk that was added stays in the log.
Remembered ==
    \A q \in QuirkIds, p \in Procs :
        minted[q] # 0 => LogOf(p)[q] # 0 \/ \E r \in Procs : Adds(st[r], q)

\* Rows are inserted where there are none, and what was inserted stays until
\* it is recorded.
Only(q, content) == \A row \in quirkRows[q] : row[1] = content
Emptied == \A p \in Procs, q \in QuirkIds :
              st[p].pc = "insert" /\ st[p].put[q] # 0 => quirkRows[q] = {}
Inserted == \A p \in Procs, q \in QuirkIds :
              /\ st[p].pc = "append" /\ q \in st[p].q => Only(q, 1)
              /\ Updates(st[p], q) => Only(q, st[p].put[q]) /\ LogOf(p)[q] # 0

\* A row has the content of the record, or somebody is about to fix it.
RowsFit == \A q \in QuirkIds, p \in Procs :
              Only(q, LogOf(p)[q]) \/ \E r \in Procs : Fixes(st[r], q)

QuirksAgree == Remembered /\ Emptied /\ Inserted /\ RowsFit
QuirkInv ==
    /\ QuirkSteppers
    /\ shared => ScansAreFresh
    /\ ~ shared => Begun /\ OrphansWait
    /\ ~ shared /\ ~ clashed /\ quirkFaults = 0 => QuirksAgree

LEMMA QuirksBegin == ASSUME QuirkInit PROVE QuirkInv
<1>1. /\ \A p \in Procs : st[p] = Resting /\ log[p] = NoRecords
      /\ \A m \in Procs, q \in QuirkIds : suspects[m][q] = "no"
      /\ \A q \in QuirkIds : quirkRows[q] = {} /\ minted[q] = 0 /\ NoRecords[q] = 0
  BY DEF QuirkInit, NoRecords
<1>2. home \in [Procs -> Procs] /\ Machines
  BY DEF QuirkInit, Machines
<1>3. QuirkTypeOK
  <2>1. st \in [Procs -> Doing]
    BY RestingFits DEF QuirkInit
  <2>2. quirkRows \in [QuirkIds -> SUBSET (Versions \X Procs)]
    BY DEF QuirkInit
  <2>3. suspects \in [Procs -> [QuirkIds -> {"no", "new", "old"}]]
    BY DEF QuirkInit
  <2>4. log \in [Procs -> QuirkLog] /\ synced \in [Procs -> QuirkLog] /\ remote \in QuirkLog /\ told \in QuirkLog
        /\ minted \in [QuirkIds -> 0..MaxVersion]
    BY RecordsAreNumbers DEF QuirkInit
  <2>5. ops \in 0..MaxOps /\ quirkFaults \in 0..MaxFaults
    BY QuirkStoreAssumption DEF QuirkInit
  <2>6. clashed \in BOOLEAN /\ others \in BOOLEAN /\ shared \in BOOLEAN
    BY DEF QuirkInit
  <2> QED BY <1>2, <2>1, <2>2, <2>3, <2>4, <2>5, <2>6 DEF QuirkTypeOK, Doing
<1>4. QuirkSteppers
  BY <1>1, <1>2, <1>3, RestingFits DEF QuirkSteppers
<1>5. ScansAreFresh
  BY <1>1, RestingFits DEF ScansAreFresh, Scans
<1>6. Begun
  BY <1>1, <1>2, RestingFits DEF Begun, LogOf, Untouched
<1>7. OrphansWait
  BY <1>1, RestingFits DEF OrphansWait, Adds, Scans
<1>8. QuirksAgree
  BY <1>1, RestingFits DEF QuirksAgree, Remembered, Emptied, Inserted, RowsFit, Only, Updates
<1> QED BY <1>4, <1>5, <1>6, <1>7, <1>8 DEF QuirkInv

\* With a central store: a process's log changes only in its own steps.
LEMMA ScansStayFresh ==
    ASSUME QuirkInv, QuirkNext, shared
    PROVE  ScansAreFresh'
<1> DEFINE Kept(p) == /\ \A r \in Procs : r # p => st'[r] = st[r] /\ log'[r] = log[r]
                      /\ Scans(st'[p]) => st'[p].snap = log'[p]
<1>1. /\ QuirkSteppers /\ QuirkSteppers' /\ home' = home
      /\ \A p \in Procs : home[p] = p /\ LogOf(p) = log[p] /\ LogOf(p)' = log'[p]
      /\ \A p \in Procs : Scans(st[p]) => st[p].snap = log[p]
  BY QuirkTypesStay DEF QuirkInv, QuirkSteppers, Machines, LogOf, ScansAreFresh
<1>2. ASSUME NEW p \in Procs, Kept(p) PROVE ScansAreFresh'
  BY <1>1, <1>2 DEF ScansAreFresh
<1>3. ASSUME st' = st, log' = log PROVE ScansAreFresh'
  BY <1>1, <1>3 DEF ScansAreFresh
<1>4. ASSUME NEW p \in Procs, NEW s, Turn(p, s), log' = log, Scans(s) => s.snap = log[p]
      PROVE  Kept(p)
  BY <1>1, <1>4, Turns, QuirkTypesStay
<1>5. ASSUME NEW p \in Procs, NEW s, Turn(p, s), ~ Scans(s), NEW new, log' = [log EXCEPT ![p] = new]
      PROVE  Kept(p)
  <2>1. st'[p] = s /\ \A r \in Procs : r # p => st'[r] = st[r]
    BY <1>1, <1>5, Turns, QuirkTypesStay
  <2>2. \A r \in Procs : r # p => log'[r] = log[r]
    BY <1>1, <1>5 DEF QuirkSteppers, QuirkTypeOK
  <2> QED BY <1>5, <2>1, <2>2
<1>6. ASSUME NEW p \in Procs, NEW q \in QuirkIds, StartAdd(p, q) PROVE Kept(p)
  BY <1>4, <1>6, <1>1, AddStarts DEF StartAdd, Scans
<1>7. ASSUME NEW p \in Procs, NEW q \in QuirkIds, StartUpdate(p, q) PROVE Kept(p)
  BY <1>4, <1>7, <1>1, UpdateStarts DEF StartUpdate, Scans
<1>8. ASSUME NEW p \in Procs, NEW q \in QuirkIds, StartRemove(p, q) PROVE Kept(p)
  BY <1>4, <1>8, <1>1, RemoveStarts DEF StartRemove, Scans
<1>9. ASSUME NEW p \in Procs, StartReconcile(p) PROVE Kept(p)
  <2>1. PICK s : Turn(p, s) /\ s.kind = "reconcile" /\ s.snap = LogOf(p)
    BY <1>1, <1>9, ReconcileStarts
  <2>2. log' = log /\ (Scans(s) => s.snap = log[p])
    BY <1>1, <1>9, <2>1 DEF StartReconcile, Scans
  <2> QED BY <1>4, <2>1, <2>2
<1>10. ASSUME NEW p \in Procs, WipeRows(p) PROVE Kept(p)
  BY <1>4, <1>10, <1>1, WipeGoesOn DEF WipeRows, Scans
<1>11. ASSUME NEW p \in Procs, InsertRow(p) PROVE Kept(p)
  <2>1. PICK s : Turn(p, s) /\ s.pc = AfterInsert(st[p].kind) /\ s.kind = st[p].kind /\ s.snap = st[p].snap
    BY <1>1, <1>11, InsertGoesOn
  <2>2. log' = log /\ (Scans(s) => s.snap = log[p])
    BY <1>1, <1>11, <2>1 DEF InsertRow, Scans
  <2> QED BY <1>4, <2>1, <2>2
<1>12. ASSUME NEW p \in Procs, AppendRecord(p) PROVE Kept(p)
  BY <1>5, <1>12, <1>1, Finished DEF AppendRecord, Scans
<1>13. ASSUME NEW p \in Procs, ReadLog(p) PROVE Kept(p)
  BY <1>4, <1>13, <1>1, ReadGoesOn DEF ReadLog, Scans
<1>14. ASSUME NEW p \in Procs, WriteLog(p) PROVE Kept(p)
  BY <1>5, <1>14, <1>1, WriteGoesOn DEF WriteLog, Scans
<1>15. ASSUME NEW p \in Procs, DeleteRow(p) PROVE Kept(p)
  BY <1>4, <1>15, <1>1, Finished DEF DeleteRow, Scans
<1>16. ASSUME NEW p \in Procs, DedupRows(p) PROVE Kept(p)
  <2>1. PICK s : Turn(p, s) /\ s.snap = st[p].snap
    BY <1>1, <1>16, DedupGoesOn
  <2>2. log' = log /\ (Scans(s) => s.snap = log[p])
    BY <1>1, <1>16, <2>1, DedupGoesOn DEF DedupRows, Scans
  <2> QED BY <1>4, <2>1, <2>2
<1>17. ASSUME NEW p \in Procs, Orphans(p) PROVE Kept(p)
  BY <1>4, <1>17, <1>1, Finished DEF Orphans, Scans
<1>18. ASSUME NEW p \in Procs, Exchanging(p) PROVE Kept(p)
  BY <1>4, <1>5, <1>18, <1>1, ExchangeTurns DEF Scans
<1>19. ASSUME NEW p \in Procs, QuirkCrash(p) PROVE Kept(p)
  BY <1>4, <1>19, <1>1, RestingFits DEF QuirkCrash, Turn, Scans
<1> HIDE DEF Kept
<1>20. (\E p \in Procs : Kept(p)) \/ (\E m \in Procs : AnHourPasses(m)) \/ RowsRebuilt
  BY <1>6, <1>7, <1>8, <1>9, <1>10, <1>11, <1>12, <1>13, <1>14, <1>15, <1>16, <1>17, <1>18, <1>19
     DEF QuirkNext, Continue, Exchanging
<1> QED BY <1>2, <1>3, <1>20 DEF AnHourPasses, RowsRebuilt

-----------------------------------------------------------------------------
\* On one machine there is one log.
LEMMA OneLog ==
    ASSUME QuirkSteppers, ~ shared, home' = home
    PROVE  /\ \A p, r \in Procs : LogOf(p) = LogOf(r) /\ home[p] = home[r] /\ home[p] \in Procs
           /\ log' = log => \A r \in Procs : LogOf(r)' = LogOf(r)
           /\ \A p \in Procs : \A new : log' = [log EXCEPT ![home[p]] = new] => \A r \in Procs : LogOf(r)' = new
           /\ \A p \in Procs : \A new : suspects' = [suspects EXCEPT ![home[p]] = new]
                                           => \A r \in Procs : suspects'[home[r]] = new
<1>1. \A p, r \in Procs : LogOf(p) = LogOf(r) /\ home[p] = home[r] /\ home[p] \in Procs
  BY DEF QuirkSteppers, QuirkTypeOK, Machines, LogOf
<1> QED BY <1>1 DEF QuirkSteppers, QuirkTypeOK, LogOf

\* An addition is the first thing that happens to a quirk.
LEMMA AddsComeFirst ==
    ASSUME QuirkSteppers, QuirkNext, NEW q \in QuirkIds, minted'[q] = 0
    PROVE  minted[q] = 0
<1>1. minted \in [QuirkIds -> 0..MaxVersion]
  BY DEF QuirkSteppers, QuirkTypeOK
<1>2. ASSUME NEW p \in Procs, NEW x \in QuirkIds, StartAdd(p, x) PROVE minted[q] = 0
  BY <1>1, <1>2 DEF StartAdd
<1>3. ASSUME NEW p \in Procs, NEW x \in QuirkIds, StartUpdate(p, x) PROVE minted[q] = 0
  <2>1. minted[x] + 1 \in 1..MaxVersion
    BY <1>3, UpdateStarts
  <2>2. minted[x] + 1 # 0
    BY <2>1, RecordsAreNumbers
  <2>3. minted' = [minted EXCEPT ![x] = minted[x] + 1]
    BY <1>3 DEF StartUpdate
  <2> QED BY <1>1, <2>2, <2>3
<1>4. ASSUME minted' = minted PROVE minted[q] = 0
  BY <1>4
<1>5. ASSUME NEW p \in Procs, Continue(p) PROVE minted' = minted
  <2>1. CASE WipeRows(p) \/ InsertRow(p) \/ AppendRecord(p) \/ ReadLog(p) \/ WriteLog(p) \/ DeleteRow(p)
    BY <2>1 DEF WipeRows, InsertRow, AppendRecord, ReadLog, WriteLog, DeleteRow
  <2>2. CASE DedupRows(p) \/ Orphans(p)
    BY <2>2 DEF DedupRows, Orphans
  <2>3. CASE FlushLog(p) \/ FlushWrite(p) \/ FlushBack(p) \/ HydrateWrite(p)
    BY <2>3 DEF FlushLog, FlushWrite, FlushBack, HydrateWrite
  <2> QED BY <1>5, <2>1, <2>2, <2>3 DEF Continue
<1>6. ASSUME NEW p \in Procs, NEW x \in QuirkIds, StartRemove(p, x) PROVE minted' = minted
  BY <1>6 DEF StartRemove
<1>7. ASSUME NEW p \in Procs, StartReconcile(p) \/ StartHydrate(p) PROVE minted' = minted
  BY <1>7 DEF StartReconcile, StartHydrate
<1>8. ASSUME NEW p \in Procs, QuirkCrash(p) \/ AnHourPasses(p) \/ RowsRebuilt PROVE minted' = minted
  BY <1>8 DEF QuirkCrash, AnHourPasses, RowsRebuilt
<1>9. CASE RowsRebuilt
  BY <1>4, <1>9 DEF RowsRebuilt
<1> QED BY <1>2, <1>3, <1>4, <1>5, <1>6, <1>7, <1>8, <1>9 DEF QuirkNext

\* What was never added stays nowhere.
LEMMA BegunStays ==
    ASSUME QuirkSteppers, Begun, ~ shared, QuirkNext
    PROVE  Begun'
<1>1. QuirkSteppers' /\ home' = home /\ shared' = shared
  BY QuirkTypesStay
<1> SUFFICES ASSUME NEW q \in QuirkIds, minted'[q] = 0
             PROVE  /\ quirkRows'[q] = {}
                    /\ \A p \in Procs : /\ LogOf(p)'[q] = 0 /\ suspects'[home[p]][q] = "no"
                                        /\ Untouched(st'[p], q)
  BY <1>1 DEF Begun, Untouched, LogOf
<1>2. minted[q] = 0
  BY AddsComeFirst
<1>3. /\ quirkRows[q] = {}
      /\ \A p \in Procs : LogOf(p)[q] = 0 /\ suspects[home[p]][q] = "no" /\ Untouched(st[p], q)
      /\ ~ Listed(0)
  BY <1>2 DEF Begun, Listed, Versions
<1>4. quirkRows \in [QuirkIds -> SUBSET (Versions \X Procs)]
  BY DEF QuirkSteppers, QuirkTypeOK
<1> DEFINE Clear == quirkRows'[q] = {} /\ \A r \in Procs : LogOf(r)'[q] = 0 /\ suspects'[home[r]][q] = "no"
           Free == st' = st \/ \E p \in Procs : \E s : Turn(p, s) /\ Untouched(s, q)
<1>5. ASSUME Clear, Free
      PROVE  /\ quirkRows'[q] = {}
             /\ \A p \in Procs : /\ LogOf(p)'[q] = 0 /\ suspects'[home[p]][q] = "no"
                                 /\ Untouched(st'[p], q)
  <2>1. \A p \in Procs : Untouched(st'[p], q)
    BY <1>1, <1>3, <1>5, Turns
  <2> QED BY <1>5, <2>1
<1>6. ASSUME UNCHANGED <<log, quirkRows, suspects>> PROVE Clear
  BY <1>1, <1>3, <1>6, OneLog
<1>7. ASSUME NEW p \in Procs, NEW x \in QuirkIds, StartAdd(p, x) PROVE Clear /\ Free
  <2>1. minted' = [minted EXCEPT ![x] = 1] /\ UNCHANGED <<log, quirkRows, suspects>>
    BY <1>7 DEF StartAdd
  <2>2. x # q
    BY <2>1 DEF QuirkSteppers, QuirkTypeOK
  <2>3. PICK s : /\ Turn(p, s) /\ s.q = {x} /\ s.put = [NoRecords EXCEPT ![x] = 1] /\ s.snap = NoRecords
                 /\ s.seen = {}
    BY <1>7, AddStarts
  <2>4. Untouched(s, q)
    BY <2>2, <2>3 DEF Untouched, NoRecords
  <2> QED BY <1>6, <2>1, <2>3, <2>4
<1>8. ASSUME NEW p \in Procs, NEW x \in QuirkIds, StartUpdate(p, x) PROVE Clear /\ Free
  <2>1. UNCHANGED <<log, quirkRows, suspects>> /\ Existing(p, x)
    BY <1>8 DEF StartUpdate
  <2>2. x # q
    BY <1>3, <2>1 DEF Existing
  <2>3. PICK s : /\ Turn(p, s) /\ s.q = {x} /\ s.put = [NoRecords EXCEPT ![x] = minted[x] + 1]
                 /\ s.snap = NoRecords /\ s.seen = {}
    BY <1>8, UpdateStarts
  <2>4. Untouched(s, q)
    BY <2>2, <2>3 DEF Untouched, NoRecords
  <2> QED BY <1>6, <2>1, <2>3, <2>4
<1>9. ASSUME NEW p \in Procs, NEW x \in QuirkIds, StartRemove(p, x) PROVE Clear /\ Free
  <2>1. UNCHANGED <<log, quirkRows, suspects>> /\ Existing(p, x)
    BY <1>9 DEF StartRemove
  <2>2. x # q
    BY <1>3, <2>1 DEF Existing
  <2>3. PICK s : /\ Turn(p, s) /\ s.q = {x} /\ s.put = NoRecords
                 /\ s.snap = NoRecords /\ s.seen = {}
    BY <1>9, RemoveStarts
  <2>4. Untouched(s, q)
    BY <2>2, <2>3 DEF Untouched, NoRecords
  <2> QED BY <1>6, <2>1, <2>3, <2>4
<1>10. ASSUME NEW p \in Procs, StartReconcile(p) PROVE Clear /\ Free
  <2>1. UNCHANGED <<log, quirkRows, suspects>>
    BY <1>10 DEF StartReconcile
  <2>2. PICK s : Turn(p, s) /\ s.q = {} /\ s.put = NoRecords /\ s.snap = LogOf(p) /\ s.seen = {}
    BY <1>10, ReconcileStarts
  <2>3. Untouched(s, q)
    BY <1>3, <2>2 DEF Untouched, NoRecords
  <2> QED BY <1>6, <2>1, <2>2, <2>3
<1>11. ASSUME NEW p \in Procs, WipeRows(p) PROVE Clear /\ Free
  <2>1. UNCHANGED <<log, suspects>> /\ quirkRows'[q] = {}
    BY <1>3, <1>11 DEF WipeRows
  <2>2. PICK s : Turn(p, s) /\ s.q = st[p].q /\ s.put = st[p].put /\ s.snap = st[p].snap /\ s.seen = st[p].seen
    BY <1>11, WipeGoesOn
  <2>3. Untouched(s, q)
    BY <1>3, <2>2 DEF Untouched
  <2>4. Clear
    BY <1>1, <1>3, <2>1, OneLog
  <2> QED BY <2>2, <2>3, <2>4
<1>12. ASSUME NEW p \in Procs, InsertRow(p) PROVE Clear /\ Free
  <2>1. UNCHANGED <<log, suspects>> /\ quirkRows'[q] = {}
    BY <1>3, <1>12 DEF InsertRow, Untouched
  <2>2. PICK s : Turn(p, s) /\ s.q = st[p].q /\ s.put = st[p].put /\ s.snap = st[p].snap /\ s.seen = st[p].seen
    BY <1>12, InsertGoesOn
  <2>3. Untouched(s, q)
    BY <1>3, <2>2 DEF Untouched
  <2>4. Clear
    BY <1>1, <1>3, <2>1, OneLog
  <2> QED BY <2>2, <2>3, <2>4
<1>13. ASSUME NEW p \in Procs, AppendRecord(p) PROVE Clear /\ Free
  <2> DEFINE new == [x \in QuirkIds |-> IF x \in st[p].q THEN 1 ELSE log[home[p]][x]]
  <2>1. log' = [log EXCEPT ![home[p]] = new] /\ UNCHANGED <<suspects, quirkRows>>
    BY <1>13, LogsAreLogs DEF AppendRecord, QuirkSteppers, QuirkTypeOK
  <2>2. new[q] = 0
    BY <1>3 DEF Untouched, LogOf
  <2> HIDE DEF new
  <2>3. Clear
    BY <1>1, <1>3, <2>1, <2>2, OneLog
  <2>4. PICK s : Turn(p, s) /\ s.q = {} /\ s.put = NoRecords /\ s.seen = {} /\ s.snap = NoRecords
    BY <1>13, Finished DEF AppendRecord
  <2>5. Untouched(s, q)
    BY <2>4 DEF Untouched, NoRecords
  <2> QED BY <2>3, <2>4, <2>5
<1>14. ASSUME NEW p \in Procs, ReadLog(p) PROVE Clear /\ Free
  <2>1. UNCHANGED <<log, quirkRows, suspects>>
    BY <1>14 DEF ReadLog
  <2>2. PICK s : Turn(p, s) /\ s.q = st[p].q /\ s.put = st[p].put /\ s.snap = LogOf(p) /\ s.seen = st[p].seen
    BY <1>14, ReadGoesOn
  <2>3. Untouched(s, q)
    BY <1>3, <2>2 DEF Untouched
  <2> QED BY <1>6, <2>1, <2>2, <2>3
<1>15. ASSUME NEW p \in Procs, WriteLog(p) PROVE Clear /\ Free
  <2>1. log' = [log EXCEPT ![home[p]] = Rewritten(p)] /\ UNCHANGED <<suspects, quirkRows>>
    BY <1>15 DEF WriteLog
  <2>2. Rewritten(p)[q] = 0
    BY <1>3 DEF Untouched, Rewritten
  <2>3. Clear
    BY <1>1, <1>3, <2>1, <2>2, OneLog
  <2>4. PICK s : /\ Turn(p, s)
                 /\ \/ s.q = st[p].q /\ s.put = st[p].put /\ s.snap = st[p].snap /\ s.seen = st[p].seen
                    \/ s.q = {} /\ s.put = NoRecords /\ s.seen = {} /\ s.snap = NoRecords
    BY <1>15, WriteGoesOn
  <2>5. Untouched(s, q)
    BY <1>3, <2>4 DEF Untouched, NoRecords
  <2> QED BY <2>3, <2>4, <2>5
<1>16. ASSUME NEW p \in Procs, DeleteRow(p) PROVE Clear /\ Free
  <2>1. UNCHANGED <<log, suspects>> /\ quirkRows'[q] = {}
    BY <1>3, <1>16 DEF DeleteRow
  <2>2. PICK s : Turn(p, s) /\ s.q = {} /\ s.put = NoRecords /\ s.seen = {} /\ s.snap = NoRecords
    BY <1>16, Finished DEF DeleteRow
  <2>3. Untouched(s, q)
    BY <2>2 DEF Untouched, NoRecords
  <2>4. Clear
    BY <1>1, <1>3, <2>1, OneLog
  <2> QED BY <2>2, <2>3, <2>4
<1>17. ASSUME NEW p \in Procs, DedupRows(p) PROVE Clear /\ Free
  <2>1. UNCHANGED <<log, suspects>> /\ quirkRows'[q] = {}
    BY <1>3, <1>17 DEF DedupRows
  <2>2. PICK s : /\ Turn(p, s) /\ s.q = {} /\ s.snap = st[p].snap
                 /\ s.seen = {x \in QuirkIds : quirkRows[x] # {}}
                 /\ \A x \in QuirkIds : s.put[x] = 0 \/ (s.put[x] = st[p].snap[x] /\ Listed(st[p].snap[x]))
    BY <1>17, DedupGoesOn
  <2>3. Untouched(s, q)
    BY <1>3, <2>2 DEF Untouched
  <2>4. Clear
    BY <1>1, <1>3, <2>1, OneLog
  <2> QED BY <2>2, <2>3, <2>4
<1>18. ASSUME NEW p \in Procs, Orphans(p) PROVE Clear /\ Free
  <2>1. log' = log /\ quirkRows'[q] = {}
    BY <1>3, <1>18 DEF Orphans
  <2>2. \A r \in Procs : suspects'[home[r]][q] = "no"
    <3>1. CASE suspects' = suspects
      BY <1>3, <3>1
    <3>2. CASE suspects' # suspects
      <4>1. PICK table \in [QuirkIds -> {"no", "new", "old"}] :
               /\ suspects' = [suspects EXCEPT ![home[p]] = table]
               /\ \A x \in QuirkIds : x \notin st[p].seen /\ st[p].put[x] = 0 => table[x] = "no"
        BY <1>18, <3>2, OrphansMark
      <4>2. table[q] = "no"
        BY <1>3, <4>1 DEF Untouched
      <4>3. \A r \in Procs : suspects'[home[r]] = table
        BY <1>1, <4>1, OneLog
      <4> QED BY <4>2, <4>3
    <3> QED BY <3>1, <3>2
  <2>3. PICK s : Turn(p, s) /\ s.q = {} /\ s.put = NoRecords /\ s.seen = {} /\ s.snap = NoRecords
    BY <1>18, Finished DEF Orphans
  <2>4. Untouched(s, q)
    BY <2>3 DEF Untouched, NoRecords
  <2>5. Clear
    BY <1>1, <1>3, <2>1, <2>2, OneLog
  <2> QED BY <2>3, <2>4, <2>5
<1>19. ASSUME NEW p \in Procs, Exchanging(p) PROVE FALSE
  BY <1>19, ExchangeTurns
<1>20. ASSUME NEW p \in Procs, QuirkCrash(p) PROVE Clear /\ Free
  <2>1. Turn(p, Resting) /\ UNCHANGED <<log, quirkRows, suspects>>
    BY <1>20, RestingFits DEF QuirkCrash, Turn
  <2>2. Untouched(Resting, q)
    BY RestingFits DEF Untouched, NoRecords
  <2> QED BY <1>6, <2>1, <2>2
<1>21. ASSUME NEW m \in Procs, AnHourPasses(m) PROVE Clear /\ Free
  <2>1. UNCHANGED <<log, quirkRows, st>>
    BY <1>21 DEF AnHourPasses
  <2>2. \A r \in Procs : suspects'[home[r]][q] = "no"
    BY <1>3, <1>21 DEF AnHourPasses, QuirkSteppers, QuirkTypeOK
  <2> QED BY <1>1, <1>3, <2>1, <2>2, OneLog
<1>22. CASE RowsRebuilt
  <2>1. UNCHANGED <<log, suspects, st>> /\ quirkRows'[q] = {}
    BY <1>22 DEF RowsRebuilt
  <2>2. Clear
    BY <1>1, <1>3, <2>1, OneLog
  <2> QED BY <1>5, <2>1, <2>2
<1> HIDE DEF Clear, Free
<1> QED BY <1>5, <1>7, <1>8, <1>9, <1>10, <1>11, <1>12, <1>13, <1>14, <1>15, <1>16, <1>17, <1>18, <1>19,
           <1>20, <1>21, <1>22 DEF QuirkNext, Continue, Exchanging

\* A quirk whose rows wait to be cleaned is not being added, and is listed in
\* the copy of the log that a scan works from if the log lists it.
LEMMA OrphansStillWait ==
    ASSUME QuirkSteppers, Begun, OrphansWait, ~ shared, QuirkNext
    PROVE  OrphansWait'
<1>1. QuirkSteppers' /\ home' = home /\ shared' = shared
  BY QuirkTypesStay
<1> SUFFICES ASSUME NEW r \in Procs, NEW q \in QuirkIds, suspects'[home[r]][q] = "old"
             PROVE  /\ ~ Adds(st'[r], q)
                    /\ ~ clashed' /\ Scans(st'[r]) /\ Listed(LogOf(r)'[q]) => Listed(st'[r].snap[q])
  BY <1>1 DEF OrphansWait, Adds, Scans, Listed, Versions, LogOf
<1> DEFINE Good(s) == /\ ~ Adds(s, q)
                      /\ ~ clashed' /\ Scans(s) /\ Listed(LogOf(r)[q]) => Listed(s.snap[q])
           LogFine == ~ clashed' /\ Listed(LogOf(r)'[q]) => ~ clashed /\ Listed(LogOf(r)[q])
           Goal == /\ ~ Adds(st'[r], q)
                   /\ ~ clashed' /\ Scans(st'[r]) /\ Listed(LogOf(r)'[q]) => Listed(st'[r].snap[q])
<1>2. ASSUME NEW m \in Procs, AnHourPasses(m) PROVE Goal
  <2>1. st'[r] = st[r] /\ st[r].pc = "rest"
    BY <1>2 DEF AnHourPasses
  <2> QED BY <2>1 DEF Adds, Scans
<1>3. \A p \in Procs : LogOf(p) = LogOf(r) /\ home[p] = home[r]
  BY <1>1, OneLog
<1>4. suspects' = suspects => suspects[home[r]][q] = "old"
  OBVIOUS
<1>5. ASSUME suspects[home[r]][q] = "old"
      PROVE  /\ minted[q] # 0
             /\ \A p \in Procs : /\ ~ Adds(st[p], q)
                                 /\ ~ clashed /\ Scans(st[p]) /\ Listed(LogOf(r)[q]) => Listed(st[p].snap[q])
  BY <1>3, <1>5 DEF OrphansWait, Begun
<1>6. ASSUME NEW p \in Procs, NEW s, Turn(p, s), Good(s), LogFine, suspects[home[r]][q] = "old" PROVE Goal
  <2>1. st'[r] = IF r = p THEN s ELSE st[r]
    BY <1>1, <1>6, Turns
  <2> QED BY <1>5, <1>6, <2>1
<1>7. ASSUME log' = log, clashed' = clashed PROVE LogFine
  BY <1>1, <1>7, OneLog
<1>8. ASSUME NEW p \in Procs, NEW x \in QuirkIds, StartAdd(p, x) PROVE Goal
  <2>1. UNCHANGED <<log, suspects, clashed>> /\ minted[x] = 0
    BY <1>8 DEF StartAdd
  <2>2. PICK s : /\ Turn(p, s) /\ s.kind = "add" /\ s.pc = "insert" /\ s.q = {x}
                 /\ s.put = [NoRecords EXCEPT ![x] = 1]
    BY <1>8, AddStarts
  <2>3. Good(s)
    BY <1>5, <2>1, <2>2 DEF Adds, Scans
  <2> HIDE DEF Good, LogFine, Goal
  <2> QED BY <1>4, <1>6, <1>7, <2>1, <2>2, <2>3
<1>9. ASSUME NEW p \in Procs, NEW x \in QuirkIds, StartUpdate(p, x) PROVE Goal
  <2>1. UNCHANGED <<log, suspects, clashed>>
    BY <1>9 DEF StartUpdate
  <2>2. PICK s : Turn(p, s) /\ s.kind = "update"
    BY <1>9, UpdateStarts
  <2>3. Good(s)
    BY <2>2 DEF Adds, Scans
  <2> HIDE DEF Good, LogFine, Goal
  <2> QED BY <1>4, <1>6, <1>7, <2>1, <2>2, <2>3
<1>10. ASSUME NEW p \in Procs, NEW x \in QuirkIds, StartRemove(p, x) PROVE Goal
  <2>1. UNCHANGED <<log, suspects, clashed>>
    BY <1>10 DEF StartRemove
  <2>2. PICK s : Turn(p, s) /\ s.kind = "remove"
    BY <1>10, RemoveStarts
  <2>3. Good(s)
    BY <2>2 DEF Adds, Scans
  <2> HIDE DEF Good, LogFine, Goal
  <2> QED BY <1>4, <1>6, <1>7, <2>1, <2>2, <2>3
<1>11. ASSUME NEW p \in Procs, StartReconcile(p) PROVE Goal
  <2>1. UNCHANGED <<log, suspects, clashed>>
    BY <1>11 DEF StartReconcile
  <2>2. PICK s : Turn(p, s) /\ s.kind = "reconcile" /\ s.snap = LogOf(p)
    BY <1>11, ReconcileStarts
  <2>3. Good(s)
    BY <1>3, <2>2 DEF Adds
  <2> HIDE DEF Good, LogFine, Goal
  <2> QED BY <1>4, <1>6, <1>7, <2>1, <2>2, <2>3
<1>12. ASSUME NEW p \in Procs, WipeRows(p) PROVE Goal
  <2>1. UNCHANGED <<log, suspects, clashed>> /\ st[p].pc = "wipe" /\ StepFits(st[p])
    BY <1>12 DEF WipeRows, QuirkSteppers
  <2>2. PICK s : /\ Turn(p, s) /\ s.pc = "insert" /\ s.kind = st[p].kind /\ s.q = st[p].q
                 /\ s.put = st[p].put /\ s.snap = st[p].snap
    BY <1>12, WipeGoesOn
  <2>3. Good(s)
    BY <1>4, <1>5, <2>1, <2>2 DEF Adds, Scans, StepFits
  <2> HIDE DEF Good, LogFine, Goal
  <2> QED BY <1>4, <1>6, <1>7, <2>1, <2>2, <2>3
<1>13. ASSUME NEW p \in Procs, InsertRow(p) PROVE Goal
  <2>1. UNCHANGED <<log, suspects>> /\ (clashed => clashed') /\ st[p].pc = "insert"
    BY <1>13 DEF InsertRow
  <2>2. PICK s : /\ Turn(p, s) /\ s.pc = AfterInsert(st[p].kind) /\ s.kind = st[p].kind /\ s.q = st[p].q
                 /\ s.put = st[p].put /\ s.snap = st[p].snap
    BY <1>13, InsertGoesOn
  <2>3. Good(s)
    BY <1>4, <1>5, <2>1, <2>2 DEF Adds, Scans
  <2>4. LogFine
    BY <1>1, <2>1, OneLog
  <2> HIDE DEF Good, LogFine, Goal
  <2> QED BY <1>4, <1>6, <2>1, <2>2, <2>3, <2>4
<1>14. ASSUME NEW p \in Procs, AppendRecord(p) PROVE Goal
  <2> DEFINE new == [x \in QuirkIds |-> IF x \in st[p].q THEN 1 ELSE log[home[p]][x]]
  <2>1. /\ log' = [log EXCEPT ![home[p]] = new] /\ suspects' = suspects /\ (clashed => clashed')
        /\ st[p].pc = "append" /\ st[p].kind = "add"
    BY <1>14, LogsAreLogs DEF AppendRecord, QuirkSteppers, QuirkTypeOK, StepFits
  <2>2. q \notin st[p].q
    BY <1>4, <1>5, <2>1 DEF Adds
  <2>3. new[q] = LogOf(r)[q]
    BY <1>3, <2>2 DEF LogOf
  <2> HIDE DEF new
  <2>4. LogFine
    <3>1. LogOf(r)' = new
      BY <1>1, <2>1, OneLog
    <3> QED BY <2>1, <2>3, <3>1
  <2>5. PICK s : Turn(p, s) /\ s.pc = IF shared THEN "flush" ELSE "rest"
    BY <1>14, Finished DEF AppendRecord
  <2>6. Good(s)
    BY <2>5 DEF Adds, Scans
  <2> HIDE DEF Good, LogFine, Goal
  <2> QED BY <1>4, <1>6, <2>1, <2>4, <2>5, <2>6
<1>15. ASSUME NEW p \in Procs, ReadLog(p) PROVE Goal
  <2>1. UNCHANGED <<log, suspects, clashed>>
    BY <1>15 DEF ReadLog
  <2>2. PICK s : Turn(p, s) /\ s.pc = "writeLog"
    BY <1>15, ReadGoesOn
  <2>3. Good(s)
    BY <2>2 DEF Adds, Scans
  <2> HIDE DEF Good, LogFine, Goal
  <2> QED BY <1>4, <1>6, <1>7, <2>1, <2>2, <2>3
<1>16. ASSUME NEW p \in Procs, WriteLog(p) PROVE Goal
  <2>1. /\ log' = [log EXCEPT ![home[p]] = Rewritten(p)] /\ suspects' = suspects
        /\ st[p].kind \in {"update", "remove"}
        /\ ~ clashed' => /\ ~ clashed /\ LogOf(p) = st[p].snap
                         /\ st[p].kind = "update" => \A x \in st[p].q : LogOf(p)[x] # Tombstone
    BY <1>16, WriteGoesOn DEF WriteLog
  <2>2. LogOf(p) \in QuirkLog /\ LogOf(p)[q] \in QuirkRecord /\ ~ Listed(0) /\ ~ Listed(Tombstone)
        /\ \A x \in QuirkRecord : x # 0 /\ x # Tombstone => Listed(x)
    BY LogsAreLogs, RecordsAreNumbers DEF QuirkLog, Listed
  <2>3. ASSUME ~ clashed', Listed(Rewritten(p)[q]) PROVE Listed(LogOf(p)[q])
    BY <2>1, <2>2, <2>3 DEF Rewritten
  <2>4. LogFine
    <3>1. LogOf(r)' = Rewritten(p)
      <4> DEFINE new == Rewritten(p)
      <4>1. log' = [log EXCEPT ![home[p]] = new] BY <2>1
      <4> HIDE DEF new
      <4>2. LogOf(r)' = new BY <1>1, <4>1, OneLog
      <4> QED BY <4>2 DEF new
    <3>2. LogOf(p) = LogOf(r) BY <1>3
    <3>3. ~ clashed' => ~ clashed BY <2>1
    <3> QED BY <2>3, <3>1, <3>2, <3>3
  <2>5. PICK s : Turn(p, s) /\ s.pc = IF st[p].kind = "remove" THEN "deleteRow" ELSE IF shared THEN "flush" ELSE "rest"
    BY <1>16, WriteGoesOn
  <2>6. Good(s)
    BY <2>5 DEF Adds, Scans
  <2> HIDE DEF Good, LogFine, Goal
  <2> QED BY <1>4, <1>6, <2>1, <2>4, <2>5, <2>6
<1>17. ASSUME NEW p \in Procs, DeleteRow(p) PROVE Goal
  <2>1. UNCHANGED <<log, suspects, clashed>>
    BY <1>17 DEF DeleteRow
  <2>2. PICK s : Turn(p, s) /\ s.pc = IF shared THEN "flush" ELSE "rest"
    BY <1>17, Finished DEF DeleteRow
  <2>3. Good(s)
    BY <2>2 DEF Adds, Scans
  <2> HIDE DEF Good, LogFine, Goal
  <2> QED BY <1>4, <1>6, <1>7, <2>1, <2>2, <2>3
<1>18. ASSUME NEW p \in Procs, DedupRows(p) PROVE Goal
  <2>1. UNCHANGED <<log, suspects, clashed>> /\ st[p].pc = "scanRows" /\ st[p].kind = "reconcile"
    BY <1>18, DedupGoesOn DEF DedupRows
  <2>2. PICK s : Turn(p, s) /\ s.kind = "reconcile" /\ s.snap = st[p].snap
    BY <1>18, DedupGoesOn
  <2>3. Good(s)
    BY <1>4, <1>5, <2>1, <2>2 DEF Adds, Scans
  <2> HIDE DEF Good, LogFine, Goal
  <2> QED BY <1>4, <1>6, <1>7, <2>1, <2>2, <2>3
<1>19. ASSUME NEW p \in Procs, Orphans(p) PROVE Goal
  <2>1. UNCHANGED <<log, clashed>>
    BY <1>19 DEF Orphans
  <2>2. suspects[home[r]][q] = "old"
    <3>1. CASE suspects' # suspects
      <4>1. PICK table \in [QuirkIds -> {"no", "new", "old"}] :
               /\ suspects' = [suspects EXCEPT ![home[p]] = table]
               /\ \A x \in QuirkIds : table[x] = "old" => suspects[home[p]][x] = "old"
        BY <1>19, <3>1, OrphansMark
      <4>2. suspects'[home[r]] = table
        BY <1>1, <4>1, OneLog
      <4> QED BY <1>3, <4>1, <4>2
    <3> QED BY <1>4, <3>1
  <2>3. PICK s : Turn(p, s) /\ s.pc = IF shared THEN "flush" ELSE "rest"
    BY <1>19, Finished DEF Orphans
  <2>4. Good(s)
    BY <2>3 DEF Adds, Scans
  <2> HIDE DEF Good, LogFine, Goal
  <2> QED BY <1>6, <1>7, <2>1, <2>2, <2>3, <2>4
<1>20. ASSUME NEW p \in Procs, Exchanging(p) PROVE FALSE
  BY <1>20, ExchangeTurns
<1>21. ASSUME NEW p \in Procs, QuirkCrash(p) PROVE Goal
  <2>1. Turn(p, Resting) /\ UNCHANGED <<log, suspects, clashed>>
    BY <1>21, RestingFits DEF QuirkCrash, Turn
  <2>2. Good(Resting)
    BY RestingFits DEF Adds, Scans
  <2> HIDE DEF Good, LogFine, Goal
  <2> QED BY <1>4, <1>6, <1>7, <2>1, <2>2
<1>22. CASE RowsRebuilt
  <2>1. UNCHANGED <<log, suspects, st, clashed>>
    BY <1>22 DEF RowsRebuilt
  <2>2. LogFine
    BY <1>7, <2>1
  <2> QED BY <1>4, <1>5, <2>1, <2>2
<1> HIDE DEF Goal
<1> QED BY <1>2, <1>8, <1>9, <1>10, <1>11, <1>12, <1>13, <1>14, <1>15, <1>16, <1>17, <1>18, <1>19,
           <1>20, <1>21, <1>22 DEF QuirkNext, Continue, Exchanging, Goal

-----------------------------------------------------------------------------
\* While nothing goes wrong.  A step that leaves the log alone and inserts no
\* row keeps what the rows and the log say of each other.
LEMMA QuietStepsAgree ==
    ASSUME QuirkSteppers, ~ shared, QuirksAgree, UNCHANGED <<shared, home, log>>,
           NEW p \in Procs, NEW s, Turn(p, s),
           \A q \in QuirkIds : quirkRows'[q] \subseteq quirkRows[q],
           \A q \in QuirkIds : minted'[q] # 0 => minted[q] # 0 \/ Adds(s, q),
           \A q \in QuirkIds : Adds(st[p], q) => Adds(s, q),
           \A q \in QuirkIds : s.pc = "insert" /\ s.put[q] # 0 => quirkRows'[q] = {},
           s.pc # "append",
           \A q \in QuirkIds : Updates(s, q) => Updates(st[p], q) /\ s.put = st[p].put,
           \A q \in QuirkIds : Fixes(st[p], q) => Fixes(s, q) \/ quirkRows'[q] = {}
    PROVE  QuirksAgree'
<1>1. \A r \in Procs : st'[r] = IF r = p THEN s ELSE st[r]
  BY Turns
<1>2. \A r \in Procs : LogOf(r)' = LogOf(r) /\ \A x \in Procs : LogOf(r) = LogOf(x)
  BY OneLog
<1>4. Remembered'
  <2> SUFFICES ASSUME NEW q \in QuirkIds, NEW r \in Procs, minted'[q] # 0
               PROVE  LogOf(r)'[q] # 0 \/ \E x \in Procs : Adds(st'[x], q)
    BY DEF Remembered, Adds, LogOf
  <2>1. CASE Adds(s, q)
    BY <1>1, <2>1
  <2>2. CASE LogOf(r)[q] # 0
    BY <1>2, <2>2
  <2>3. ASSUME NEW x \in Procs, Adds(st[x], q) PROVE \E y \in Procs : Adds(st'[y], q)
    BY <1>1, <2>3
  <2> QED BY <2>1, <2>2, <2>3 DEF QuirksAgree, Remembered
<1>5. Emptied'
  <2>1. \A r \in Procs, q \in QuirkIds : r # p /\ st[r].pc = "insert" /\ st[r].put[q] # 0 => quirkRows[q] = {}
    BY DEF QuirksAgree, Emptied
  <2>2. \A r \in Procs, q \in QuirkIds : st'[r].pc = "insert" /\ st'[r].put[q] # 0 => quirkRows'[q] = {}
    BY <1>1, <2>1
  <2> QED BY <2>2 DEF Emptied
<1>6. Inserted'
  <2> SUFFICES ASSUME NEW r \in Procs, NEW q \in QuirkIds
               PROVE  /\ st'[r].pc = "append" /\ q \in st'[r].q => Only(q, 1)'
                      /\ Updates(st'[r], q) => Only(q, st[r].put[q])' /\ LogOf(r)'[q] # 0
    BY DEF Inserted, Only, Updates, LogOf
  <2>1. st'[r].pc = "append" /\ q \in st'[r].q => st[r].pc = "append" /\ q \in st[r].q
    BY <1>1
  <2>2. Updates(st'[r], q) => Updates(st[r], q) /\ st'[r].put = st[r].put
    BY <1>1
  <2>3. /\ st[r].pc = "append" /\ q \in st[r].q => Only(q, 1)
        /\ Updates(st[r], q) => Only(q, st[r].put[q]) /\ LogOf(r)[q] # 0
    BY DEF QuirksAgree, Inserted
  <2>4. /\ Only(q, 1) => Only(q, 1)'
        /\ Only(q, st[r].put[q]) /\ st'[r].put = st[r].put => Only(q, st[r].put[q])'
    BY DEF Only
  <2> QED BY <1>2, <2>1, <2>2, <2>3, <2>4
<1>7. RowsFit'
  <2> SUFFICES ASSUME NEW q \in QuirkIds, NEW r \in Procs
               PROVE  Only(q, LogOf(r)[q])' \/ \E x \in Procs : Fixes(st'[x], q)
    BY DEF RowsFit, Fixes, Updates
  <2>1. CASE Only(q, LogOf(r)[q])
    BY <1>2, <2>1 DEF Only
  <2>2. ASSUME NEW x \in Procs, Fixes(st[x], q) PROVE quirkRows'[q] = {} \/ \E y \in Procs : Fixes(st'[y], q)
    BY <1>1, <2>2
  <2>3. quirkRows'[q] = {} => Only(q, LogOf(r)[q])'
    BY DEF Only
  <2> QED BY <2>1, <2>2, <2>3 DEF QuirksAgree, RowsFit
<1> QED BY <1>4, <1>5, <1>6, <1>7 DEF QuirksAgree

\* A step in which nothing goes wrong, told by what it changes.
LEMMA StartsAgree ==
    ASSUME QuirkSteppers, Begun, ~ shared, QuirksAgree, NEW p \in Procs,
           \/ \E q \in QuirkIds : StartAdd(p, q) \/ StartUpdate(p, q) \/ StartRemove(p, q)
           \/ StartReconcile(p)
    PROVE  QuirksAgree'
<1>1. /\ st[p].pc = "rest" /\ UNCHANGED <<shared, home, log, quirkRows>>
      /\ \A q \in QuirkIds : ~ Adds(st[p], q) /\ ~ Fixes(st[p], q)
  BY DEF StartAdd, StartUpdate, StartRemove, StartReconcile, BeginOp, Adds, Fixes, Updates
<1>2. minted \in [QuirkIds -> 0..MaxVersion]
  BY DEF QuirkSteppers, QuirkTypeOK
<1>3. ASSUME NEW q \in QuirkIds, StartAdd(p, q) PROVE QuirksAgree'
  <2>1. PICK s : /\ Turn(p, s) /\ s.kind = "add" /\ s.pc = "insert" /\ s.q = {q}
                 /\ s.put = [NoRecords EXCEPT ![q] = 1]
    BY <1>3, AddStarts
  <2>2. minted' = [minted EXCEPT ![q] = 1] /\ quirkRows[q] = {}
    BY <1>3 DEF StartAdd, Begun
  <2>3. \A x \in QuirkIds : /\ minted'[x] # 0 => minted[x] # 0 \/ Adds(s, x)
                            /\ s.put[x] # 0 => x = q
    BY <1>2, <2>1, <2>2 DEF Adds, NoRecords
  <2>4. \A x \in QuirkIds : ~ Updates(s, x)
    BY <2>1 DEF Updates
  <2> QED BY <1>1, <2>1, <2>2, <2>3, <2>4, QuietStepsAgree
<1>4. ASSUME NEW q \in QuirkIds, StartUpdate(p, q) PROVE QuirksAgree'
  <2>1. PICK s : /\ Turn(p, s) /\ s.kind = "update" /\ s.pc = "wipe" /\ s.q = {q}
                 /\ s.put = [NoRecords EXCEPT ![q] = minted[q] + 1]
    BY <1>4, UpdateStarts
  <2>2. minted' = [minted EXCEPT ![q] = @ + 1] /\ minted[q] # 0
    BY <1>4 DEF StartUpdate, Existing, Begun
  <2>3. \A x \in QuirkIds : minted'[x] # 0 => minted[x] # 0
    BY <1>2, <2>2
  <2>4. \A x \in QuirkIds : ~ Updates(s, x)
    BY <2>1 DEF Updates
  <2> QED BY <1>1, <2>1, <2>3, <2>4, QuietStepsAgree
<1>5. ASSUME NEW q \in QuirkIds, StartRemove(p, q) PROVE QuirksAgree'
  <2>1. PICK s : Turn(p, s) /\ s.kind = "remove" /\ s.pc = "readLog" /\ s.q = {q} /\ s.put = NoRecords
    BY <1>5, RemoveStarts
  <2>2. minted' = minted
    BY <1>5 DEF StartRemove
  <2>3. \A x \in QuirkIds : ~ Updates(s, x)
    BY <2>1 DEF Updates
  <2> QED BY <1>1, <2>1, <2>2, <2>3, QuietStepsAgree
<1>6. ASSUME StartReconcile(p) PROVE QuirksAgree'
  <2>1. PICK s : Turn(p, s) /\ s.kind = "reconcile" /\ s.pc = "scanRows" /\ s.q = {}
    BY <1>6, ReconcileStarts
  <2>2. minted' = minted
    BY <1>6 DEF StartReconcile
  <2>3. \A x \in QuirkIds : ~ Updates(s, x)
    BY <2>1 DEF Updates
  <2> QED BY <1>1, <2>1, <2>2, <2>3, QuietStepsAgree
<1> QED BY <1>3, <1>4, <1>5, <1>6

LEMMA TakingRowsAgrees ==
    ASSUME QuirkSteppers, ~ shared, QuirksAgree, NEW p \in Procs, quirkFaults = 0, quirkFaults' = 0,
           WipeRows(p) \/ ReadLog(p) \/ DeleteRow(p) \/ DedupRows(p) \/ Orphans(p)
    PROVE  QuirksAgree'
<1>1. UNCHANGED <<shared, home, log, minted>>
  BY DEF WipeRows, ReadLog, DeleteRow, DedupRows, Orphans
<1>2. quirkRows \in [QuirkIds -> SUBSET (Versions \X Procs)] /\ StepFits(st[p])
  BY DEF QuirkSteppers, QuirkTypeOK
<1>3. ASSUME WipeRows(p) PROVE QuirksAgree'
  <2>1. /\ st[p].pc = "wipe"
        /\ \A q \in QuirkIds : quirkRows'[q] = IF st[p].put[q] # 0 THEN {} ELSE quirkRows[q]
    BY <1>3 DEF WipeRows
  <2>2. PICK s : Turn(p, s) /\ s.pc = "insert" /\ s.kind = st[p].kind /\ s.q = st[p].q /\ s.put = st[p].put
    BY <1>3, WipeGoesOn
  <2>3. \A q \in QuirkIds : ~ Updates(s, q) /\ ~ Adds(st[p], q) /\ ~ Fixes(st[p], q)
    BY <2>1, <2>2 DEF Updates, Adds, Fixes
  <2> QED BY <1>1, <2>1, <2>2, <2>3, QuietStepsAgree
<1>4. ASSUME ReadLog(p) PROVE QuirksAgree'
  <2>1. st[p].pc = "readLog" /\ quirkRows' = quirkRows
    BY <1>4 DEF ReadLog
  <2>2. PICK s : Turn(p, s) /\ s.pc = "writeLog" /\ s.kind = st[p].kind /\ s.q = st[p].q /\ s.put = st[p].put
    BY <1>4, ReadGoesOn
  <2>3. \A q \in QuirkIds : /\ ~ Adds(st[p], q) /\ (Fixes(st[p], q) => Fixes(s, q))
                            /\ Updates(s, q) => Updates(st[p], q)
    BY <2>1, <2>2 DEF Updates, Adds, Fixes
  <2> QED BY <1>1, <2>1, <2>2, <2>3, QuietStepsAgree
<1>5. ASSUME DeleteRow(p) PROVE QuirksAgree'
  <2>1. /\ st[p].pc = "deleteRow"
        /\ \A q \in QuirkIds : quirkRows'[q] = IF q \in st[p].q THEN {} ELSE quirkRows[q]
    BY <1>5 DEF DeleteRow
  <2>2. PICK s : Turn(p, s) /\ s.q = {} /\ s.pc = IF shared THEN "flush" ELSE "rest"
    BY <1>5, Finished DEF DeleteRow
  <2>3. \A q \in QuirkIds : ~ Updates(s, q) /\ ~ Adds(st[p], q) /\ (Fixes(st[p], q) => q \in st[p].q)
    BY <2>1, <2>2 DEF Updates, Adds, Fixes
  <2> QED BY <1>1, <2>1, <2>2, <2>3, QuietStepsAgree
<1>6. ASSUME DedupRows(p) PROVE QuirksAgree'
  <2>1. st[p].pc = "scanRows" /\ \A q \in QuirkIds : quirkRows'[q] \subseteq quirkRows[q]
    BY <1>6 DEF DedupRows
  <2>2. PICK s : Turn(p, s) /\ s.q = {} /\ s.kind = "reconcile" /\ s.pc \in {"orphans", IF shared THEN "insert" ELSE "wipe"}
    BY <1>6, DedupGoesOn
  <2>3. \A q \in QuirkIds : ~ Updates(s, q) /\ ~ Adds(st[p], q) /\ ~ Fixes(st[p], q)
    BY <2>1, <2>2 DEF Updates, Adds, Fixes
  <2>4. s.pc \in {"orphans", "wipe"}
    BY <2>2
  <2> QED BY <1>1, <2>1, <2>2, <2>3, <2>4, QuietStepsAgree
<1>7. ASSUME Orphans(p) PROVE QuirksAgree'
  <2>1. st[p].pc = "orphans" /\ \A q \in QuirkIds : quirkRows'[q] \subseteq quirkRows[q]
    BY <1>7 DEF Orphans
  <2>2. PICK s : Turn(p, s) /\ s.q = {} /\ s.pc = IF shared THEN "flush" ELSE "rest"
    BY <1>7, Finished DEF Orphans
  <2>3. \A q \in QuirkIds : ~ Updates(s, q) /\ ~ Adds(st[p], q) /\ ~ Fixes(st[p], q)
    BY <2>1, <2>2 DEF Updates, Adds, Fixes
  <2> QED BY <1>1, <2>1, <2>2, <2>3, QuietStepsAgree
<1> QED BY <1>3, <1>4, <1>5, <1>6, <1>7

\* Rows are inserted by one process at a time, and with the recorded content
\* unless the process is about to record it.
LEMMA InsertingAgrees ==
    ASSUME QuirkSteppers, Begun, ~ shared, QuirksAgree, NEW p \in Procs, InsertRow(p), ~ clashed'
    PROVE  QuirksAgree'
<1>1. /\ UNCHANGED <<shared, home, log, minted>> /\ st[p].pc = "insert" /\ ~ Overtaken(p)
      /\ StepFits(st[p])
      /\ \A q \in QuirkIds : quirkRows'[q] = IF st[p].put[q] = 0 THEN quirkRows[q]
                                            ELSE {<<st[p].put[q], p>>} \cup quirkRows[q]
  BY DEF InsertRow, QuirkSteppers
<1>2. PICK s : /\ Turn(p, s) /\ s.pc = AfterInsert(st[p].kind) /\ s.kind = st[p].kind /\ s.q = st[p].q
               /\ s.put = st[p].put
  BY InsertGoesOn
<1>3. st[p].kind \in {"add", "update", "reconcile"}
  BY InsertGoesOn
<1>4. \A r \in Procs : st'[r] = IF r = p THEN s ELSE st[r]
  BY <1>1, <1>2, Turns
<1>5. \A r \in Procs : LogOf(r)' = LogOf(r) /\ \A x \in Procs : LogOf(r) = LogOf(x)
  BY <1>1, OneLog
<1>6. \A q \in QuirkIds : st[p].put[q] # 0 =>
         /\ \A r \in Procs : r # p => q \notin st[r].q /\ st[r].put[q] = 0
         /\ st[p].kind = "reconcile" => LogOf(p)[q] = st[p].put[q]
         /\ quirkRows'[q] = {<<st[p].put[q], p>>} /\ minted[q] # 0
  BY <1>1 DEF Overtaken, QuirksAgree, Emptied, Begun, Untouched
<1>7. \A q \in QuirkIds, r \in Procs : r # p /\ q \in st[r].q => st[p].put[q] = 0 /\ quirkRows'[q] = quirkRows[q]
  BY <1>1, <1>6
<1>8. Remembered'
  <2> SUFFICES ASSUME NEW q \in QuirkIds, NEW r \in Procs, minted'[q] # 0
               PROVE  LogOf(r)'[q] # 0 \/ \E x \in Procs : Adds(st'[x], q)
    BY DEF Remembered, Adds, LogOf
  <2>1. ASSUME NEW x \in Procs, Adds(st[x], q) PROVE Adds(st'[x], q)
    BY <1>1, <1>2, <1>4, <2>1 DEF Adds, AfterInsert
  <2> QED BY <1>1, <1>5, <2>1 DEF QuirksAgree, Remembered
<1>9. Emptied'
  <2>1. s.pc # "insert"
    BY <1>2, <1>3 DEF AfterInsert
  <2>2. \A r \in Procs, q \in QuirkIds : st'[r].pc = "insert" /\ st'[r].put[q] # 0 => quirkRows'[q] = {}
    <3> SUFFICES ASSUME NEW r \in Procs, NEW q \in QuirkIds, r # p, st[r].pc = "insert", st[r].put[q] # 0
                 PROVE  quirkRows'[q] = {}
      BY <1>4, <2>1
    <3>1. st[p].put[q] = 0
      BY <1>6
    <3>2. quirkRows[q] = {}
      BY DEF QuirksAgree, Emptied
    <3> QED BY <1>1, <3>1, <3>2
  <2> QED BY <2>2 DEF Emptied
<1>10. Inserted'
  <2> SUFFICES ASSUME NEW r \in Procs, NEW q \in QuirkIds
               PROVE  /\ st'[r].pc = "append" /\ q \in st'[r].q => \A row \in quirkRows'[q] : row[1] = 1
                      /\ Updates(st'[r], q) => /\ \A row \in quirkRows'[q] : row[1] = st'[r].put[q]
                                               /\ LogOf(r)'[q] # 0
    BY DEF Inserted, Only, Updates, LogOf
  <2>1. CASE r # p
    BY <1>4, <1>5, <1>7, <2>1 DEF QuirksAgree, Inserted, Only, Updates
  <2>2. ASSUME r = p, s.pc = "append", q \in s.q PROVE \A row \in quirkRows'[q] : row[1] = 1
    <3>1. st[p].kind = "add" /\ st[p].put[q] = 1
      BY <1>1, <1>2, <1>3, <2>2 DEF AfterInsert, StepFits
    <3> QED BY <1>6, <3>1
  <2>3. ASSUME r = p, Updates(s, q) PROVE (\A row \in quirkRows'[q] : row[1] = s.put[q]) /\ LogOf(p)[q] # 0
    <3>1. st[p].kind = "update" /\ q \in st[p].q /\ st[p].put[q] # 0
      BY <1>1, <1>2, <2>3 DEF StepFits, Updates
    <3>2. \A x \in Procs : ~ Adds(st[x], q)
      BY <1>6, <3>1 DEF Adds
    <3> QED BY <1>2, <1>6, <3>1, <3>2 DEF QuirksAgree, Remembered
  <2> QED BY <1>4, <1>5, <2>1, <2>2, <2>3
<1>11. RowsFit'
  <2> SUFFICES ASSUME NEW q \in QuirkIds, NEW r \in Procs
               PROVE  (\A row \in quirkRows'[q] : row[1] = LogOf(r)'[q]) \/ \E x \in Procs : Fixes(st'[x], q)
    BY DEF RowsFit, Fixes, Updates, Only, LogOf
  <2>1. CASE st[p].put[q] = 0
    <3>1. \A x \in Procs : Fixes(st[x], q) => Fixes(st'[x], q)
      BY <1>1, <1>4 DEF Fixes, Updates
    <3>2. quirkRows'[q] = quirkRows[q] /\ LogOf(r)' = LogOf(r)
      BY <1>1, <1>5, <2>1
    <3>3. (\A row \in quirkRows[q] : row[1] = LogOf(r)[q]) \/ \E x \in Procs : Fixes(st[x], q)
      BY DEF QuirksAgree, RowsFit, Only
    <3> QED BY <3>1, <3>2, <3>3
  <2>2. CASE st[p].put[q] # 0 /\ st[p].kind = "reconcile"
    BY <1>5, <1>6, <2>2
  <2>3. CASE st[p].put[q] # 0 /\ st[p].kind # "reconcile"
    <3>1. Fixes(s, q)
      BY <1>1, <1>2, <1>3, <2>3 DEF Fixes, Updates, StepFits, AfterInsert
    <3> QED BY <1>4, <3>1
  <2> QED BY <2>1, <2>2, <2>3
<1> QED BY <1>8, <1>9, <1>10, <1>11 DEF QuirksAgree

\* The log is written by one process at a time, and fits the rows then.
LEMMA RecordingAgrees ==
    ASSUME QuirkSteppers, ~ shared, QuirksAgree, NEW p \in Procs, AppendRecord(p) \/ WriteLog(p), ~ clashed'
    PROVE  QuirksAgree'
<1>1. UNCHANGED <<shared, home, minted, quirkRows>> /\ StepFits(st[p])
  BY DEF AppendRecord, WriteLog, QuirkSteppers
<1>2. ASSUME NEW s, Turn(p, s), s.pc \in {"rest", "deleteRow"}, NEW new, \A r \in Procs : LogOf(r)' = new,
             \A q \in QuirkIds \ st[p].q : new[q] = LogOf(p)[q],
             \A q \in st[p].q : new[q] # 0 /\ (Only(q, new[q]) \/ Fixes(s, q))
      PROVE  QuirksAgree'
  <2>1. \A r \in Procs : st'[r] = IF r = p THEN s ELSE st[r]
    BY <1>1, <1>2, Turns
  <2>2. \A r \in Procs : LogOf(r) = LogOf(p)
    BY <1>1, OneLog
  <2>3. \A q \in QuirkIds, r \in Procs : LogOf(p)[q] # 0 => new[q] # 0
    BY <1>2
  <2>4. Remembered'
    <3> SUFFICES ASSUME NEW q \in QuirkIds, NEW r \in Procs, minted'[q] # 0
                 PROVE  LogOf(r)'[q] # 0 \/ \E x \in Procs : Adds(st'[x], q)
      BY DEF Remembered, Adds, LogOf
    <3>1. CASE q \in st[p].q
      BY <1>2, <3>1
    <3>2. ASSUME NEW x \in Procs, q \notin st[p].q, Adds(st[x], q) PROVE Adds(st'[x], q)
      BY <2>1, <3>2 DEF Adds
    <3> QED BY <1>1, <1>2, <2>2, <2>3, <3>1, <3>2 DEF QuirksAgree, Remembered
  <2>5. Emptied'
    <3>1. \A r \in Procs, q \in QuirkIds : st'[r].pc = "insert" /\ st'[r].put[q] # 0 => quirkRows'[q] = {}
      BY <1>1, <1>2, <2>1 DEF QuirksAgree, Emptied
    <3> QED BY <3>1 DEF Emptied
  <2>6. Inserted'
    <3> SUFFICES ASSUME NEW r \in Procs, NEW q \in QuirkIds
                 PROVE  /\ st'[r].pc = "append" /\ q \in st'[r].q => \A row \in quirkRows'[q] : row[1] = 1
                        /\ Updates(st'[r], q) => /\ \A row \in quirkRows'[q] : row[1] = st'[r].put[q]
                                                 /\ LogOf(r)'[q] # 0
      BY DEF Inserted, Only, Updates, LogOf
    <3>1. CASE r # p
      BY <1>1, <1>2, <2>1, <2>2, <2>3, <3>1 DEF QuirksAgree, Inserted, Only
    <3>2. CASE r = p
      BY <1>2, <2>1, <3>2 DEF Updates
    <3> QED BY <3>1, <3>2
  <2>7. RowsFit'
    <3> SUFFICES ASSUME NEW q \in QuirkIds, NEW r \in Procs
                 PROVE  (\A row \in quirkRows'[q] : row[1] = LogOf(r)'[q]) \/ \E x \in Procs : Fixes(st'[x], q)
      BY DEF RowsFit, Fixes, Updates, Only, LogOf
    <3>1. CASE q \in st[p].q
      BY <1>1, <1>2, <2>1, <3>1 DEF Only
    <3>2. CASE q \notin st[p].q
      <4>1. \A x \in Procs : Fixes(st[x], q) => Fixes(st'[x], q)
        BY <2>1, <3>2 DEF Fixes, Updates
      <4> QED BY <1>1, <1>2, <2>2, <3>2, <4>1 DEF QuirksAgree, RowsFit, Only
    <3> QED BY <3>1, <3>2
  <2> QED BY <2>4, <2>5, <2>6, <2>7 DEF QuirksAgree
<1>3. CASE AppendRecord(p)
  <2> DEFINE new == [x \in QuirkIds |-> IF x \in st[p].q THEN 1 ELSE log[home[p]][x]]
  <2>1. log' = [log EXCEPT ![home[p]] = new] /\ st[p].pc = "append"
    BY <1>3, LogsAreLogs DEF AppendRecord, QuirkSteppers, QuirkTypeOK
  <2>2. /\ \A q \in QuirkIds \ st[p].q : new[q] = LogOf(p)[q]
        /\ \A q \in st[p].q : new[q] = 1
    BY DEF LogOf, QuirkSteppers, QuirkTypeOK
  <2> HIDE DEF new
  <2>3. \A r \in Procs : LogOf(r)' = new
    BY <1>1, <2>1, OneLog
  <2>4. st[p].q \subseteq QuirkIds /\ \A q \in st[p].q : Only(q, 1)
    BY <2>1 DEF QuirksAgree, Inserted, QuirkSteppers, QuirkTypeOK
  <2>5. PICK s : Turn(p, s) /\ s.pc = IF shared THEN "flush" ELSE "rest"
    BY <1>3, Finished DEF AppendRecord
  <2>6. s.pc = "rest"
    BY <2>5
  <2> QED BY <1>2, <2>2, <2>3, <2>4, <2>5, <2>6
<1>4. CASE WriteLog(p)
  <2>1. log' = [log EXCEPT ![home[p]] = Rewritten(p)] /\ st[p].pc = "writeLog" /\ LogOf(p) = st[p].snap
        /\ st[p].q \subseteq QuirkIds
    BY <1>4 DEF WriteLog, QuirkSteppers, QuirkTypeOK
  <2>2. st[p].kind \in {"update", "remove"}
    BY <1>4, WriteGoesOn
  <2>3. \A r \in Procs : LogOf(r)' = Rewritten(p)
    BY <1>1, <2>1, OneLog
  <2>4. \A q \in QuirkIds \ st[p].q : Rewritten(p)[q] = LogOf(p)[q]
    BY <2>1 DEF Rewritten
  <2>5. CASE st[p].kind = "remove"
    <3>1. PICK s : Turn(p, s) /\ s.pc = "deleteRow" /\ s.q = st[p].q
      BY <1>4, <2>5, WriteGoesOn
    <3>2. \A q \in st[p].q : Rewritten(p)[q] # 0 /\ Fixes(s, q)
      BY <2>1, <2>5, <3>1, RecordsAreNumbers DEF Rewritten, Fixes
    <3> QED BY <1>2, <2>3, <2>4, <3>1, <3>2
  <2>6. CASE st[p].kind = "update"
    <3>1. PICK s : Turn(p, s) /\ s.pc = IF shared THEN "flush" ELSE "rest"
      BY <1>4, <2>6, WriteGoesOn
    <3>2. s.pc = "rest"
      BY <3>1
    <3>3. \A q \in st[p].q : Only(q, st[p].put[q]) /\ st[p].snap[q] # 0 /\ st[p].put[q] # 0
      BY <1>1, <2>1, <2>6 DEF QuirksAgree, Inserted, Updates, StepFits
    <3>4. \A q \in st[p].q : Rewritten(p)[q] = st[p].put[q]
      BY <2>1, <2>6, <3>3 DEF Rewritten
    <3> QED BY <1>2, <2>3, <2>4, <3>1, <3>2, <3>3, <3>4
  <2> QED BY <2>2, <2>5, <2>6
<1> QED BY <1>3, <1>4

LEMMA QuirksStayAgreed ==
    ASSUME QuirkSteppers, Begun, ~ shared, QuirkNext, ~ clashed', quirkFaults' = 0,
           ~ clashed /\ quirkFaults = 0 => QuirksAgree
    PROVE  QuirksAgree'
<1>1. quirkFaults \in Nat
  BY QuirkStoreAssumption DEF QuirkSteppers, QuirkTypeOK
<1>2. \A p \in Procs : ~ Exchanging(p)
  BY ExchangeTurns
<1>3. ~ clashed
  BY <1>2 DEF QuirkNext, Continue, Exchanging, StartAdd, StartUpdate, StartRemove, StartReconcile, WipeRows,
       InsertRow, AppendRecord, ReadLog, WriteLog, DeleteRow, DedupRows, Orphans, QuirkCrash, AnHourPasses,
       RowsRebuilt
<1>4. /\ quirkFaults = 0 /\ ~ RowsRebuilt
      /\ \A p \in Procs : ~ QuirkCrash(p)
  <2>1. quirkFaults' # quirkFaults + 1
    BY <1>1
  <2>2. ~ RowsRebuilt /\ \A p \in Procs : ~ QuirkCrash(p)
    BY <2>1 DEF RowsRebuilt, QuirkCrash
  <2>3. quirkFaults' = quirkFaults \/ quirkFaults' = quirkFaults + 1
    BY <1>2, <2>2 DEF QuirkNext, Continue, Exchanging, StartAdd, StartUpdate, StartRemove, StartReconcile,
         WipeRows, InsertRow, AppendRecord, ReadLog, WriteLog, DeleteRow, DedupRows, Orphans, AnHourPasses
  <2> QED BY <2>1, <2>2, <2>3
<1>5. ASSUME NEW m \in Procs, AnHourPasses(m) PROVE QuirksAgree'
  BY <1>3, <1>4, <1>5 DEF AnHourPasses, QuirksAgree, Remembered, Emptied, Inserted, RowsFit, Only, Adds, Updates,
       Fixes, LogOf
<1> QED BY <1>2, <1>3, <1>4, <1>5, StartsAgree, TakingRowsAgrees, InsertingAgrees, RecordingAgrees
       DEF QuirkNext, Continue, Exchanging

LEMMA QuirkStepKeeps == QuirkInv /\ [QuirkNext]_quirks => QuirkInv'
<1>1. ASSUME QuirkInv, QuirkNext PROVE QuirkInv'
  <2>1. QuirkSteppers' /\ shared' = shared
    BY <1>1, QuirkTypesStay DEF QuirkInv
  <2>2. shared => ScansAreFresh'
    BY <1>1, ScansStayFresh
  <2>3. ~ shared => Begun' /\ OrphansWait'
    BY <1>1, BegunStays, OrphansStillWait DEF QuirkInv
  <2>4. ~ shared /\ ~ clashed' /\ quirkFaults' = 0 => QuirksAgree'
    BY <1>1, QuirksStayAgreed DEF QuirkInv
  <2> QED BY <2>1, <2>2, <2>3, <2>4 DEF QuirkInv
<1>2. ASSUME QuirkInv, UNCHANGED quirks PROVE QuirkInv'
  <2>1. QuirkSteppers'
    BY <1>2, TurnsKeepTypes DEF quirks, QuirkInv, QuirkSteppers, QuirkTypeOK, QuirkData
  <2>2. \A p \in Procs : LogOf(p)' = LogOf(p)
    BY <1>2 DEF quirks, LogOf
  <2>3. shared => ScansAreFresh'
    BY <1>2, <2>2 DEF quirks, QuirkInv, ScansAreFresh, Scans
  <2>4. ~ shared => Begun' /\ OrphansWait'
    BY <1>2, <2>2 DEF quirks, QuirkInv, Begun, Untouched, OrphansWait, Adds, Scans
  <2>5. ~ shared /\ ~ clashed /\ quirkFaults = 0 => QuirksAgree'
    BY <1>2, <2>2 DEF quirks, QuirkInv, QuirksAgree, Remembered, Emptied, Inserted, RowsFit, Only, Adds, Updates,
         Fixes
  <2> QED BY <1>2, <2>1, <2>3, <2>4, <2>5 DEF quirks, QuirkInv
<1> QED BY <1>1, <1>2

\* When nothing is going on and nothing went wrong, every row has the content
\* that the log gives, for any quirks, processes, contents and operations.
THEOREM RecallAgreesWithTheList == QuirkSpec => []RecallMatchesList
<1>1. QuirkInv => RecallMatchesList
  BY DEF QuirkInv, QuirksAgree, RowsFit, Only, Fixes, Updates, RecallMatchesList
<1> QED BY <1>1, QuirksBegin, QuirkStepKeeps, PTL DEF QuirkSpec

\* What a reconcile deletes as an orphan is not listed by then, for any quirks,
\* processes, contents, operations and faults.
THEOREM OrphansAreNotListed == QuirkSpec => AddsAreNotOrphans
<1>1. ASSUME QuirkInv, NEW p \in Procs, NEW q \in QuirkIds, Orphans(p), quirkRows[q] # {}, quirkRows'[q] = {},
             ~ clashed
      PROVE  ~ Listed(LogOf(p)[q])
  <2>1. ~ Listed(st[p].snap[q]) /\ suspects[home[p]][q] = "old" /\ st[p].pc = "orphans"
    BY <1>1 DEF Orphans
  <2>2. Scans(st[p])
    BY <1>1, <2>1 DEF QuirkInv, QuirkSteppers, StepFits, Scans
  <2> QED BY <1>1, <2>1, <2>2 DEF QuirkInv, ScansAreFresh, OrphansWait
<1>2. QuirkInv => \A p \in Procs, q \in QuirkIds :
          Orphans(p) /\ quirkRows[q] # {} /\ quirkRows'[q] = {} /\ ~ clashed => ~ Listed(LogOf(p)[q])
  BY <1>1
<1> QED BY <1>2, QuirksBegin, QuirkStepKeeps, PTL DEF QuirkSpec, AddsAreNotOrphans

=============================================================================
