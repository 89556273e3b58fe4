----------------------------- MODULE MCServices -----------------------------
(***************************************************************************)
(* What serves a pass, its searches and its users, each for itself: the    *)
(* LanceDB table and its swap, the embedding of texts over pooled          *)
(* connections, the keyword index, the description cache, the chunking of  *)
(* a file, a search, the configuration, a session of the plugin and the    *)
(* quirks of one or two machines.  A behaviour is one of one of them.      *)
(***************************************************************************)
EXTENDS EmbedBatch, HttpPool, KeywordIndex, HybridIndex, DescCache, ConfigLayers, PluginSession,
        LanceStore, StoreSwap, Chunking, Retrieval, QuirkStore
CONSTANTS r1, r2, r3, r4, s1, s2, s3, a, b, fileA, fileB, foo, bar, small, large,
          noSuchFile, expired, h1, h2, storedFile, quirkPath, q1, q2, p1, p2, pw, px, py, pz
VARIABLE part

FourRequests == {r1, r2, r3, r4}
ThreeSockets == {s1, s2, s3}
TwoChunks == {a, b}
TwoFiles == {fileA, fileB}
TwoTokens == {foo, bar}
Keys == [c \in TwoChunks |-> IF c = b THEN fileB ELSE fileA]
TwoTexts == {{foo, bar}, {bar}}
TwoModels == {small, large}
ModelLengths == [m \in TwoModels |-> IF m = small THEN 384 ELSE 768]
TwoFailures == {noSuchFile, expired}
Classes == [f \in TwoFailures |-> IF f = expired THEN "timeout" ELSE "path"]
TwoHooks == {h1, h2}
OneFile == {storedFile}
OneQuirkPath == {quirkPath}
TwoQuirks == {q1, q2}
OneQuirk == {q1}
TwoProcs == {p1, p2}

\* Three chunks of one file, the first two close to one another, and one of another.
FourPassages == {pw, px, py, pz}
FileOfPassage == [p \in FourPassages |-> IF p = pz THEN "g" ELSE "f"]
FromLine == pw :> 1 @@ px :> 8 @@ py :> 40 @@ pz :> 1
ToLine == pw :> 4 @@ px :> 12 @@ py :> 45 @@ pz :> 9
WordsOf == pw :> {1} @@ px :> {2} @@ py :> {1, 2} @@ pz :> {2}
RoleOf == [p \in FourPassages |-> IF p = pz THEN "doc" ELSE "code"]
Orders == UNION {{s \in [1..n -> FourPassages] : \A i, j \in 1..n : i # j => s[i] # s[j]} : n \in 0..3}
ShortOrders == {s \in Orders : Len(s) <= 2}
TwoGates == {[mode |-> "fused", minScore |-> 0], [mode |-> "normalized", minScore |-> 150]}

\* No node, two that share the file, or one at its end.
NodesOf == [n \in 1..5 |-> {<<>>} \cup {<< <<1, k>>, <<k + 1, n>> >> : k \in 1 .. n - 1}
                                \cup {<< <<k, n>> >> : k \in 1..n}]

services == <<embed, http, keyword, hybrid, desc, settings, session, lance, swap, chunking, search, quirks>>

Init ==
    /\ part \in {"embed", "http", "keyword", "hybrid", "desc", "config", "session",
                "lance", "swap", "chunking", "search", "quirk"}
    /\ EmbedInit /\ (part # "embed" => server = "up")
    /\ PoolInit /\ KeywordInit /\ HybridInit /\ DescInit
    /\ ConfigInit
    /\ (part # "config" => global.model = Unset /\ ~project.section /\ overrides.model = Unset)
    /\ SessionInit /\ LanceInit /\ SwapInit
    /\ QuirkInit /\ (part # "quirk" => ~ shared /\ ~ others)
    /\ IF part = "chunking" THEN ChunkingInit
       ELSE source = <<1>> /\ nodes = <<>> /\ overlap = 0 /\ chunks = <<>>
    /\ IF part = "search" THEN RetrievalInit
       ELSE query = <<>> /\ searched = "asked" /\ hits = <<>> /\ answer = <<>>

Next ==
    /\ part' = part
    /\ \/ /\ part = "embed" /\ EmbedNext
          /\ UNCHANGED <<http, keyword, hybrid, desc, settings, session, lance, swap, chunking, search, quirks>>
       \/ /\ part = "http" /\ PoolNext
          /\ UNCHANGED <<embed, keyword, hybrid, desc, settings, session, lance, swap, chunking, search, quirks>>
       \/ /\ part = "keyword" /\ KeywordNext
          /\ UNCHANGED <<embed, http, hybrid, desc, settings, session, lance, swap, chunking, search, quirks>>
       \/ /\ part = "hybrid" /\ HybridNext
          /\ UNCHANGED <<embed, http, keyword, desc, settings, session, lance, swap, chunking, search, quirks>>
       \/ /\ part = "desc" /\ DescNext
          /\ UNCHANGED <<embed, http, keyword, hybrid, settings, session, lance, swap, chunking, search, quirks>>
       \/ /\ part = "config" /\ ConfigNext
          /\ UNCHANGED <<embed, http, keyword, hybrid, desc, session, lance, swap, chunking, search, quirks>>
       \/ /\ part = "session" /\ SessionNext
          /\ UNCHANGED <<embed, http, keyword, hybrid, desc, settings, lance, swap, chunking, search, quirks>>
       \/ /\ part = "lance" /\ LanceNext
          /\ UNCHANGED <<embed, http, keyword, hybrid, desc, settings, session, swap, chunking, search, quirks>>
       \/ /\ part = "swap" /\ SwapNext
          /\ UNCHANGED <<embed, http, keyword, hybrid, desc, settings, session, lance, chunking, search, quirks>>
       \/ /\ part = "chunking" /\ ChunkFile
          /\ UNCHANGED <<embed, http, keyword, hybrid, desc, settings, session, lance, swap, search, quirks>>
       \/ /\ part = "search" /\ RetrievalNext
          /\ UNCHANGED <<embed, http, keyword, hybrid, desc, settings, session, lance, swap, chunking, quirks>>
       \/ /\ part = "quirk" /\ QuirkNext
          /\ UNCHANGED <<embed, http, keyword, hybrid, desc, settings, session, lance, swap, chunking, search>>

\* Operations on the quirks end, every process starts again and runs passes now
\* and then, and there are hours in which nobody does anything with them.
QuirksGoOn ==
    /\ []<>(\A p \in Procs : st[p].pc = "rest")
    /\ \A p \in Procs :
          /\ WF_quirks(Continue(p))
          /\ []<><<StartReconcile(p)>>_quirks
          /\ []<><<StartHydrate(p) \/ ~ shared \/ EmptyLog(remote)>>_quirks
          /\ []<><<AnHourPasses(p) \/ \A q \in QuirkIds : suspects[p][q] # "new">>_quirks

\* The plugin goes on being called.
Spec ==
    /\ Init /\ [][Next]_<<services, part>>
    /\ WF_settings(part = "config" /\ Following)
    /\ WF_settings(part = "config" /\ ReadOverrides)
    /\ [](part # "quirk") \/ QuirksGoOn
=============================================================================
