---------------------------- MODULE Service_proof ----------------------------
(***************************************************************************)
(* Theorems about Service, for all requests, disks and crashes: what the   *)
(* tables promise to clients while runs, replays and metrics go on and the *)
(* process crashes.                                                        *)
(***************************************************************************)
EXTENDS Service, FiniteSetTheorems, SequenceTheorems, WellFoundedInduction, TLAPS

(* The run of a request and its replay are two runs.                       *)
LEMMA RunsApart ==
  ASSUME NEW r \in Request
  PROVE  /\ Original(r) \in Run /\ ~Original(r).replay /\ Original(r).request = r
         /\ Replay(r) \in Run /\ Replay(r).replay /\ Replay(r).request = r
BY DEF Run, Original, Replay
-----------------------------------------------------------------------------
(* The k-th element of an ordered set.                                     *)

(* Every set of numbers has a least one.                                   *)
LEMMA LeastNumber ==
  ASSUME NEW T \in SUBSET Nat, T # {}
  PROVE  \E m \in T : \A n \in T : m <= n
<1>1. PICK m \in T : \A n \in T : <<n, m>> \notin OpToRel(<, Nat)
  BY WFMin, NatLessThanWellFounded
<1>2. \A n \in T : ~(n < m)  BY <1>1 DEF OpToRel
<1>3. QED  BY <1>2

(* Min is the least number of a set.                                       *)
LEMMA MinIsLeast ==
  ASSUME NEW T \in SUBSET Nat, T # {}
  PROVE  Min(T) \in T /\ \A n \in T : Min(T) <= n
BY LeastNumber DEF Min

Below(S, R, i) == {j \in S : <<j, i>> \in R}

Orders(R, S) ==
  /\ \A i \in S : <<i, i>> \notin R
  /\ \A i, j \in S : i # j => <<i, j>> \in R \/ <<j, i>> \in R
  /\ \A i, j, k \in S : <<i, j>> \in R /\ <<j, k>> \in R => <<i, k>> \in R

(* Finitely many elements of a finite set are below one of them.           *)
LEMMA BelowFinite ==
  ASSUME NEW S, IsFiniteSet(S), NEW R, NEW i
  PROVE  IsFiniteSet(Below(S, R, i)) /\ Cardinality(Below(S, R, i)) \in Nat
BY FS_Subset, FS_CardinalityType DEF Below

(* What is below another element has fewer elements below it.              *)
LEMMA FewerBelow ==
  ASSUME NEW S, IsFiniteSet(S), NEW R, Orders(R, S), NEW i \in S, NEW j \in S, <<j, i>> \in R
  PROVE  Cardinality(Below(S, R, j)) < Cardinality(Below(S, R, i))
<1>1. /\ Below(S, R, j) \subseteq Below(S, R, i) /\ j \in Below(S, R, i)
      /\ j \notin Below(S, R, j)
  BY DEF Below, Orders
<1>2. QED  BY <1>1, BelowFinite, FS_Subset, FS_CardinalityType

(* A least element: the one with the fewest elements below it.             *)
LEMMA LeastElement ==
  ASSUME NEW S, IsFiniteSet(S), NEW R, Orders(R, S), NEW T \in SUBSET S, T # {}
  PROVE  \E i \in T : \A j \in T : <<j, i>> \notin R
<1> DEFINE size(i) == Cardinality(Below(S, R, i))
<1>1. \A i \in S : size(i) \in Nat  BY BelowFinite
<1>2. PICK m \in {size(i) : i \in T} : \A n \in {size(i) : i \in T} : m <= n
  <2>1. {size(i) : i \in T} \in SUBSET Nat /\ {size(i) : i \in T} # {}  BY <1>1
  <2> HIDE DEF size
  <2>2. QED  BY <2>1, LeastNumber
<1>3. PICK i \in T : m = size(i)  OBVIOUS
<1>4. ASSUME NEW j \in T, <<j, i>> \in R PROVE FALSE
  <2>1. Cardinality(Below(S, R, j)) < Cardinality(Below(S, R, i))  BY <1>4, FewerBelow
  <2>2. size(i) <= size(j)  BY <1>2, <1>3
  <2>3. size(i) \in Nat /\ size(j) \in Nat  BY <1>1
  <2>4. QED  BY <2>1, <2>2, <2>3
<1>5. QED  BY <1>4

(* There is a k-th element: otherwise take the least k without one, and    *)
(* the least element above the one before it.                              *)
LEMMA KthExists ==
  ASSUME NEW S, IsFiniteSet(S), NEW R, Orders(R, S), NEW k \in 1 .. Cardinality(S)
  PROVE  Kth(S, R, k) \in S /\ Cardinality(Below(S, R, Kth(S, R, k))) = k - 1
<1> DEFINE has(n) == \E i \in S : Cardinality(Below(S, R, i)) = n - 1
           bad    == {n \in 1 .. Cardinality(S) : ~has(n)}
<1>0. Cardinality(S) \in Nat  BY FS_CardinalityType
<1>1. bad = {}
  <2> SUFFICES ASSUME bad # {} PROVE FALSE
    OBVIOUS
  <2>1. PICK n \in bad : \A m \in bad : n <= m
    <3>1. bad \in SUBSET Nat  BY <1>0
    <3> HIDE DEF bad
    <3>2. QED  BY <3>1, LeastNumber
  <2>2. n \in 1 .. Cardinality(S) /\ n \in Nat  BY <1>0
  <2>3. CASE n = 1
    <3>1. S # {}  BY <2>2, <2>3, <1>0, FS_EmptySet
    <3>2. PICK i \in S : \A j \in S : <<j, i>> \notin R  BY <3>1, LeastElement
    <3>3. Below(S, R, i) = {}  BY <3>2 DEF Below
    <3>4. Cardinality(Below(S, R, i)) = 0  BY <3>3, FS_EmptySet
    <3>5. QED  BY <2>3, <3>4
  <2>4. CASE n # 1
    <3>1. n - 1 \in 1 .. Cardinality(S) /\ n - 1 \notin bad
      BY <1>0, <2>1, <2>2, <2>4
    <3>2. PICK p \in S : Cardinality(Below(S, R, p)) = (n - 1) - 1
      BY <3>1
    <3> DEFINE above == {i \in S : <<p, i>> \in R}
               low   == Below(S, R, p) \cup {p}
    <3>3. p \notin Below(S, R, p)  BY DEF Below, Orders
    <3>4. Cardinality(low) = n - 1
      <4>1. Cardinality(Below(S, R, p)) + 1 = n - 1  BY <2>2, <3>2
      <4>2. QED  BY <3>3, <4>1, BelowFinite, FS_AddElement
    <3>5. above # {}
      <4> SUFFICES ASSUME above = {} PROVE FALSE
        OBVIOUS
      <4>1. S = low  BY DEF Below, Orders
      <4>2. QED  BY <1>0, <2>2, <3>4, <4>1
    <3>6. PICK q \in above : \A j \in above : <<j, q>> \notin R
      <4>1. above \in SUBSET S  OBVIOUS
      <4> HIDE DEF above
      <4>2. QED  BY <3>5, <4>1, LeastElement
    <3>7. Below(S, R, q) = low
      <4>1. \A j \in S : <<j, q>> \in R => j \in low
        BY <3>6 DEF Below, Orders
      <4>2. \A j \in low : j \in S /\ <<j, q>> \in R
        BY <3>6 DEF Below, Orders
      <4>3. QED  BY <4>1, <4>2 DEF Below
    <3>8. QED  BY <3>4, <3>6, <3>7
  <2>5. QED  BY <2>3, <2>4
<1>2. has(k)  BY <1>1
<1>3. QED  BY <1>2 DEF Kth, Below
(* Each element has its place in the order.                                *)
LEMMA KthPlace ==
  ASSUME NEW S, IsFiniteSet(S), NEW R, Orders(R, S), NEW j \in S
  PROVE  /\ Cardinality(Below(S, R, j)) + 1 \in 1 .. Cardinality(S)
         /\ Kth(S, R, Cardinality(Below(S, R, j)) + 1) = j
<1> DEFINE n == Cardinality(Below(S, R, j))
           i == Kth(S, R, n + 1)
<1>1. n \in Nat /\ Cardinality(S) \in Nat  BY BelowFinite, FS_CardinalityType
<1>2. n + 1 <= Cardinality(S)
  <2>1. Below(S, R, j) \subseteq S \ {j}  BY DEF Below, Orders
  <2>2. IsFiniteSet(S \ {j}) /\ Cardinality(S \ {j}) = Cardinality(S) - 1
    BY FS_RemoveElement
  <2>3. n <= Cardinality(S \ {j})  BY <2>1, <2>2, FS_Subset
  <2>4. QED  BY <1>1, <2>2, <2>3
<1> HIDE DEF n
<1>3. n + 1 \in 1 .. Cardinality(S)  BY <1>1, <1>2
<1>4. i \in S /\ Cardinality(Below(S, R, i)) = (n + 1) - 1  BY <1>3, KthExists
<1> HIDE DEF i
<1>5. Cardinality(Below(S, R, i)) = n /\ Cardinality(Below(S, R, j)) = n  BY <1>1, <1>4 DEF n
<1>6. i = j
  <2> SUFFICES ASSUME i # j PROVE FALSE
    OBVIOUS
  <2>1. CASE <<i, j>> \in R  BY <1>1, <1>4, <1>5, <2>1, FewerBelow
  <2>2. CASE <<j, i>> \in R  BY <1>1, <1>4, <1>5, <2>2, FewerBelow
  <2>3. QED  BY <1>4, <2>1, <2>2 DEF Orders
<1>7. QED  BY <1>3, <1>6 DEF i, n
-----------------------------------------------------------------------------
(* Tools, findings and reports.                                            *)

IsSeq(s) == \E S : s \in Seq(S)

(* The sequences that the analyzer concatenates.                           *)
LEMMA Singletons == \A a : IsSeq(<<a>>) /\ IsSeq(<<>>)
<1> SUFFICES ASSUME NEW a PROVE IsSeq(<<a>>) /\ IsSeq(<<>>)
  OBVIOUS
<1>1. <<a>> \in Seq({a}) /\ <<>> \in Seq({a})  OBVIOUS
<1>2. QED  BY <1>1 DEF IsSeq

(* The elements of u are those of s at their places, or some of t.         *)
Joins(u, s, t) ==
  \A k \in DOMAIN u : (k \in DOMAIN s /\ u[k] = s[k]) \/ (\E j \in DOMAIN t : u[k] = t[j])

(* What a concatenation is made of.                                        *)
LEMMA Concatenation ==
  ASSUME NEW s, NEW t, IsSeq(s), IsSeq(t)
  PROVE  /\ IsSeq(s \o t) /\ Len(s \o t) = Len(s) + Len(t)
         /\ Len(s) \in Nat /\ Len(t) \in Nat
         /\ Joins(s \o t, s, t)
<1>1. PICK S, T : s \in Seq(S) /\ t \in Seq(T)  BY DEF IsSeq
<1>2. s \in Seq(S \cup T) /\ t \in Seq(S \cup T)  BY <1>1
<1>3. /\ s \o t \in Seq(S \cup T) /\ Len(s \o t) = Len(s) + Len(t)
      /\ Len(s) \in Nat /\ Len(t) \in Nat
  BY <1>2
<1>4. ASSUME NEW k \in DOMAIN (s \o t)
      PROVE  \/ k \in DOMAIN s /\ (s \o t)[k] = s[k]
             \/ \E j \in DOMAIN t : (s \o t)[k] = t[j]
  <2>1. k \in 1 .. Len(s) + Len(t)  BY <1>3
  <2>2. CASE k <= Len(s)  BY <1>2, <2>1, <2>2
  <2>3. CASE k > Len(s)
    <3>1. k - Len(s) \in DOMAIN t /\ (s \o t)[k] = t[k - Len(s)]  BY <1>2, <1>3, <2>1, <2>3
    <3>2. QED  BY <3>1
  <2>4. QED  BY <1>3, <2>1, <2>2, <2>3
<1>5. QED  BY <1>3, <1>4 DEF IsSeq, Joins

(* A concatenation that ends with an element is not empty.                 *)
LEMMA EndsWith ==
  ASSUME NEW s, NEW t, NEW u, NEW e, IsSeq(s), IsSeq(t), IsSeq(u)
  PROVE  (s \o t \o u \o <<e>>) # <<>>
<1>1. IsSeq(s \o t \o u) /\ IsSeq(<<e>>)  BY Concatenation, Singletons
<1>2. Len(s \o t \o u) \in Nat /\ Len(<<e>>) = 1  BY <1>1, Concatenation
<1>3. Len((s \o t \o u) \o <<e>>) = Len(s \o t \o u) + 1  BY <1>1, <1>2, Concatenation
<1>4. QED  BY <1>2, <1>3

(* Numbers are ordered by their size.                                      *)
LEMMA LessOrders ==
  ASSUME NEW S \in SUBSET Nat
  PROVE  Orders(Less(S), S)
<1>1. \A i, j \in S : <<i, j>> \in Less(S) <=> i < j  BY DEF Less
<1>2. QED  BY <1>1 DEF Orders

(* The positions of a sequence.                                            *)
LEMMA DomainFinite ==
  ASSUME NEW s, IsSeq(s)
  PROVE  /\ IsFiniteSet(DOMAIN s) /\ DOMAIN s = 1 .. Len(s) /\ Len(s) \in Nat
         /\ DOMAIN s \in SUBSET Nat /\ Cardinality(DOMAIN s) = Len(s)
<1>1. DOMAIN s = 1 .. Len(s) /\ Len(s) \in Nat  BY DEF IsSeq
<1>2. IsFiniteSet(1 .. Len(s)) /\ Cardinality(1 .. Len(s)) = Len(s)
  <2>1. Cardinality(1 .. Len(s)) = IF 1 <= Len(s) THEN Len(s) - 1 + 1 ELSE 0
    BY <1>1, FS_Interval
  <2>2. IsFiniteSet(1 .. Len(s))  BY <1>1, FS_Interval
  <2>3. QED  BY <1>1, <2>1, <2>2
<1>3. QED  BY <1>1, <1>2

(* Each line matches once.                                                 *)
LinesApart(matches) == \A i, j \in DOMAIN matches : matches[i].line = matches[j].line => i = j

(* What a tool may return for a call: only a grep has matches.             *)
IsAnswer(call, d) ==
  \/ d = Failure
  \/ \E entries, matches :
       /\ IsSeq(matches) /\ LinesApart(matches) /\ d = Data(call.path, entries, matches)
       /\ call.tool = "fs.list_dir" => matches = <<>>

IsTree(d) ==
  \A dir \in DOMAIN d : \A f \in DOMAIN d[dir] : d[dir][f] # Unreadable => IsSeq(d[dir][f])

(* The parts of an answer of a tool.                                       *)
LEMMA AnswerShape ==
  ASSUME NEW call, NEW d, IsAnswer(call, d)
  PROVE  /\ d.ok \in BOOLEAN /\ d.form = "native" /\ "form" \in DOMAIN d
         /\ d.ok => /\ d.path = call.path /\ IsSeq(d.matches) /\ d.matchCount = Len(d.matches)
                    /\ LinesApart(d.matches)
                    /\ call.tool = "fs.list_dir" => d.matches = <<>>
<1>1. CASE d = Failure  BY <1>1 DEF Failure
<1>2. ASSUME NEW entries, NEW matches, d = Data(call.path, entries, matches)
      PROVE  /\ d.ok = TRUE /\ d.form = "native" /\ "form" \in DOMAIN d
             /\ d.path = call.path /\ d.matches = matches /\ d.matchCount = Len(matches)
  BY <1>2 DEF Data
<1>3. CASE d # Failure
  <2>1. PICK entries, matches :
          /\ IsSeq(matches) /\ LinesApart(matches) /\ d = Data(call.path, entries, matches)
          /\ call.tool = "fs.list_dir" => matches = <<>>
    BY <1>3 DEF IsAnswer
  <2>2. QED  BY <1>2, <2>1
<1>4. QED  BY <1>1, <1>3

(* The tools return answers, whatever the file system holds.               *)
LEMMA ToolAnswers ==
  ASSUME NEW d, IsTree(d), NEW call
  PROVE  IsAnswer(call, RunTool(d, call))
<1>1. IsAnswer(call, ListDir(d, call))
  <2>1. IsSeq(<<>>) /\ LinesApart(<<>>)  BY DEF IsSeq, LinesApart
  <2>2. QED  BY <2>1 DEF ListDir, IsAnswer
<1>2. ASSUME call.tool # "fs.list_dir" PROVE IsAnswer(call, GrepFile(d, call))
  <2> DEFINE dir   == IF Len(call.path) = 1 THEN "." ELSE call.path[1]
             file  == Last(call.path)
             lines == d[dir][file]
             hits  == MatchingLines(lines, call.keyword)
             n     == Min({Cardinality(hits), MaxGrepMatches})
             found == [k \in 1 .. n |-> [line |-> Kth(hits, Less(hits), k),
                                         text |-> lines[Kth(hits, Less(hits), k)]]]
  <2>1. CASE dir \notin DOMAIN d \/ file \notin DOMAIN d[dir] \/ lines = Unreadable
    BY <2>1 DEF GrepFile, IsAnswer
  <2>2. CASE ~(dir \notin DOMAIN d \/ file \notin DOMAIN d[dir] \/ lines = Unreadable)
    <3>1. IsSeq(lines)  BY <2>2 DEF IsTree
    <3>2. IsFiniteSet(hits)
      BY <3>1, DomainFinite, FS_Subset DEF MatchingLines
    <3>3. n \in Nat
      <4>1. {Cardinality(hits), MaxGrepMatches} \in SUBSET Nat
        BY <3>2, FS_CardinalityType, LogAnalysisAssumption
      <4>2. QED  BY <4>1, MinIsLeast
    <3>4. GrepFile(d, call) = Data(call.path, <<>>, found)
      BY <2>2 DEF GrepFile
    <3>5. \A k \in 1 .. n : Cardinality(Below(hits, Less(hits), Kth(hits, Less(hits), k))) = k - 1
      <4>1. n <= Cardinality(hits) /\ Cardinality(hits) \in Nat
        <5>1. {Cardinality(hits), MaxGrepMatches} \in SUBSET Nat
          BY <3>2, FS_CardinalityType, LogAnalysisAssumption
        <5>2. QED  BY <5>1, MinIsLeast
      <4>2. Orders(Less(hits), hits)
        <5>1. hits \in SUBSET Nat  BY <3>1, DomainFinite DEF MatchingLines
        <5> HIDE DEF hits
        <5>2. QED  BY <5>1, LessOrders
      <4> HIDE DEF hits, n
      <4>3. \A k \in 1 .. n : k \in 1 .. Cardinality(hits)  BY <3>3, <4>1
      <4>4. QED  BY <3>2, <4>2, <4>3, KthExists
    <3>6. LinesApart(found)
      <4> SUFFICES ASSUME NEW i \in 1 .. n, NEW j \in 1 .. n,
                          Kth(hits, Less(hits), i) = Kth(hits, Less(hits), j)
                   PROVE  i = j
        BY DEF LinesApart
      <4>1. i - 1 = j - 1  BY <3>5
      <4>2. i \in Nat /\ j \in Nat  BY <3>3
      <4>3. QED  BY <4>1, <4>2
    <3> HIDE DEF n
    <3>7. found \in Seq({found[k] : k \in 1 .. n})  BY <3>3
    <3> HIDE DEF found
    <3>8. QED  BY <1>2, <3>4, <3>6, <3>7 DEF IsAnswer, IsSeq
  <2>3. QED  BY <2>1, <2>2
<1>3. QED  BY <1>1, <1>2 DEF RunTool

(* A finding has its file and its line from an output of a tool.           *)
Sourced(f, outputs) ==
  \E d \in outputs : Last(d.path) = f.file /\ \E j \in DOMAIN d.matches : d.matches[j].text = f.text

(* The findings that an answer adds come from that answer.                 *)
LEMMA FindingsSourced ==
  ASSUME NEW call, NEW d, IsAnswer(call, d)
  PROVE  /\ IsSeq(Findings(call, d))
         /\ ~d.ok => Findings(call, d) = <<>>
         /\ \A k \in DOMAIN Findings(call, d) : Sourced(Findings(call, d)[k], {d})
<1>1. CASE ~d.ok \/ MatchCount(d) = 0
  BY <1>1 DEF Findings, IsSeq
<1>2. CASE d.ok /\ MatchCount(d) # 0
  <2>1. IsSeq(d.matches) /\ d.path = call.path  BY <1>2, AnswerShape
  <2> DEFINE F == [k \in DOMAIN d.matches |->
                     [file |-> Last(call.path), line |-> d.matches[k].line,
                      text |-> d.matches[k].text, keyword |-> call.keyword]]
  <2>2. Findings(call, d) = F  BY <1>2 DEF Findings
  <2>3. F \in Seq({F[k] : k \in DOMAIN F})
    <3>1. DOMAIN d.matches = 1 .. Len(d.matches) /\ Len(d.matches) \in Nat
      BY <2>1, DomainFinite
    <3>2. QED  BY <3>1
  <2>4. \A k \in DOMAIN F : Sourced(F[k], {d})  BY <2>1 DEF Sourced
  <2> HIDE DEF F
  <2>5. QED  BY <1>2, <2>2, <2>3, <2>4 DEF IsSeq
<1>3. QED  BY <1>1, <1>2, AnswerShape

(* What comes from the table has the form of JSON and yields no findings.  *)
LEMMA StoredYieldsNothing ==
  ASSUME NEW call, NEW d, d.form = "json" \/ d.ok = FALSE
  PROVE  Findings(call, d) = <<>>
BY DEF Findings, MatchCount

(* The conversion to JSON changes the form and nothing else.               *)
LEMMA JSONKeeps ==
  ASSUME NEW v, "form" \in DOMAIN v
  PROVE  /\ JSON(v).form = "json" /\ DOMAIN JSON(v) = DOMAIN v
         /\ \A a \in DOMAIN v \ {"form"} : JSON(v)[a] = v[a]
BY DEF JSON

(* Severity and position order the findings.                               *)
LEMMA GraverOrders ==
  ASSUME NEW findings, IsSeq(findings)
  PROVE  Orders(Graver(findings), DOMAIN findings)
<1> DEFINE rank(k) == SeverityRank(findings[k].keyword)
<1>1. \A k : rank(k) \in Nat  BY DEF SeverityRank
<1>2. \A i, j \in DOMAIN findings :
         <<i, j>> \in Graver(findings) <=> (rank(i) > rank(j) \/ (rank(i) = rank(j) /\ i < j))
  BY DEF Graver
<1>3. DOMAIN findings \in SUBSET Nat  BY DomainFinite
<1> HIDE DEF rank
<1>4. QED  BY <1>1, <1>2, <1>3 DEF Orders

(* The sort of the findings permutes them: what it shows is among them.    *)
LEMMA SortedAmong ==
  ASSUME NEW findings, IsSeq(findings), NEW k \in DOMAIN findings
  PROVE  \E i \in DOMAIN findings : BySeverity(findings)[k] = findings[i]
<1>1. k \in 1 .. Cardinality(DOMAIN findings)  BY DomainFinite
<1>2. Kth(DOMAIN findings, Graver(findings), k) \in DOMAIN findings
  BY <1>1, GraverOrders, DomainFinite, KthExists
<1>3. QED  BY <1>2 DEF BySeverity

ReportFields == {"kind", "summary", "rootCause", "evidence", "confidence", "nextSteps", "form"}

(* The report of the analyzer is complete, and its evidence comes from     *)
(* where the findings come from.                                           *)
LEMMA AnalyzeValid ==
  ASSUME NEW findings, IsSeq(findings), NEW total, NEW outputs,
         \A k \in DOMAIN findings : Sourced(findings[k], outputs)
  PROVE  /\ DOMAIN Analyze(findings, total) = ReportFields
         /\ Analyze(findings, total).kind = "report"
         /\ Analyze(findings, total).form = "native"
         /\ ReportValid(Analyze(findings, total))
         /\ GroundingValid(Analyze(findings, total), outputs)
<1>1. CASE findings = <<>> \/ total = 0
  BY <1>1 DEF Analyze, AllClear, ReportFields, ReportValid, GroundingValid
<1>2. CASE ~(findings = <<>> \/ total = 0)
  <2> DEFINE panics   == CountRanks(findings, {3})
             errors   == CountRanks(findings, {0, 2})
             warnings == CountRanks(findings, {1})
             advice(n, a) == IF n > 0 THEN <<a>> ELSE <<>>
             steps == advice(panics, "investigate") \o advice(errors, "review")
                        \o advice(warnings, "evaluate") \o <<"deployment">>
             cause == IF TopCount(findings) > 0 THEN "pattern" ELSE "undetermined"
             trust == IF panics > 0 \/ TopCount(findings) >= 3 THEN "High"
                      ELSE IF total <= 2 THEN "Low" ELSE "Medium"
             n     == Min({MaxEvidence, Len(findings)})
             shown == [k \in 1 .. n |-> Item(BySeverity(findings)[k])]
  <2>1. Analyze(findings, total) =
          [kind |-> "report",
           summary |-> [panics |-> panics, errors |-> errors, warnings |-> warnings],
           rootCause |-> cause, evidence |-> shown, confidence |-> trust,
           nextSteps |-> steps, form |-> "native"]
    BY <1>2 DEF Analyze
  <2>2. trust \in {"Low", "Medium", "High"}  OBVIOUS
  <2>3. steps # <<>>
    <3>1. \A m, a : IsSeq(advice(m, a))
      <4>1. \A a : IsSeq(<<a>>) /\ IsSeq(<<>>)  BY Singletons
      <4>2. QED  BY <4>1, Zenon
    <3> HIDE DEF advice, panics, errors, warnings
    <3>2. QED  BY <3>1, EndsWith
  <2>4. n \in Nat /\ n <= Len(findings)
    <3>1. {MaxEvidence, Len(findings)} \in SUBSET Nat
      BY DomainFinite, LogAnalysisAssumption
    <3>2. QED  BY <3>1, MinIsLeast
  <2>5. \A k \in DOMAIN shown : IsGrounded(shown[k], outputs)
    <3> SUFFICES ASSUME NEW k \in 1 .. n PROVE IsGrounded(shown[k], outputs)
      OBVIOUS
    <3>1. k \in DOMAIN findings  BY <2>4, DomainFinite
    <3>2. PICK i \in DOMAIN findings : BySeverity(findings)[k] = findings[i]
      BY <3>1, SortedAmong
    <3>3. shown[k].file = findings[i].file /\ shown[k].text = findings[i].text
      BY <3>2 DEF Item
    <3>4. Sourced(findings[i], outputs)  OBVIOUS
    <3> HIDE DEF shown
    <3>5. QED  BY <3>3, <3>4 DEF Sourced, IsGrounded, FileSet, Corpus
  <2> HIDE DEF panics, errors, warnings, steps, cause, trust, shown
  <2>6. QED  BY <2>1, <2>2, <2>3, <2>5 DEF ReportFields, ReportValid, GroundingValid
<1>3. QED  BY <1>1, <1>2

(* More outputs ground no less.                                            *)
LEMMA GroundingGrows ==
  ASSUME NEW report, NEW outputs, NEW more, outputs \subseteq more,
         GroundingValid(report, outputs)
  PROVE  GroundingValid(report, more)
BY DEF GroundingValid, IsGrounded, FileSet, Corpus

(* What is stored of a report is as complete and as grounded.              *)
LEMMA StoredReport ==
  ASSUME NEW report, DOMAIN report = ReportFields
  PROVE  /\ JSON(report).kind = report.kind /\ JSON(report).form = "json"
         /\ JSON(report).evidence = report.evidence
         /\ JSON(report).nextSteps = report.nextSteps
         /\ ReportValid(report) => ReportValid(JSON(report))
         /\ \A outputs : GroundingValid(report, outputs) => GroundingValid(JSON(report), outputs)
<1>1. /\ JSON(report).kind = report.kind /\ JSON(report).form = "json"
      /\ JSON(report).evidence = report.evidence
      /\ JSON(report).nextSteps = report.nextSteps
      /\ JSON(report).confidence = report.confidence
  BY DEF JSON, ReportFields
<1>2. QED  BY <1>1 DEF ReportValid, GroundingValid
-----------------------------------------------------------------------------
(* The shape of the state, and what each step of a run changes.            *)

Fields == {"pc", "input", "source", "entries", "outputs", "attempt", "seq", "todo", "files",
           "findings", "total", "report", "reply"}

Shape ==
  /\ frontend \in Frontend /\ disk \in Disks
  /\ DOMAIN exec = Run /\ DOMAIN stepRows = Run /\ DOMAIN toolRows = Run
  /\ runRow \in [Run -> Status]
  /\ \A x \in Run :
       \/ exec[x] = NoExec
       \/ /\ DOMAIN exec[x] = Fields /\ exec[x].pc \in PC \ {"none"}
          /\ exec[x].attempt \in 1 .. MaxAttempts /\ exec[x].seq \in Nat

(* A step that calls a tool ...                                            *)
Asks(x, call, a) ==
  /\ a \in Answers(x, call) /\ Record(x, call, a.data)
  /\ exec[x].pc \in {"list", "grep"} /\ exec'[x].pc \in {"grep", "scan failed"}
  /\ exec'[x].seq = exec[x].seq + 1 /\ exec'[x].attempt = exec[x].attempt
  /\ exec'[x].entries = a.entries
  /\ exec'[x].outputs = IF a.data.ok THEN exec[x].outputs \cup {a.data} ELSE exec[x].outputs
  /\ IF exec[x].pc = "grep"
       THEN /\ exec'[x].findings = exec[x].findings \o Findings(call, a.data)
            /\ exec'[x].total = exec[x].total + (IF a.data.ok THEN MatchCount(a.data) ELSE 0)
       ELSE /\ call.tool = "fs.list_dir"
            /\ exec'[x].findings = exec[x].findings /\ exec'[x].total = exec[x].total
  /\ runRow' = runRow /\ stepRows' = stepRows

(* ... and one that does not.                                              *)
Computes(x) ==
  /\ toolRows' = toolRows
  /\ exec'[x].seq = exec[x].seq /\ exec'[x].entries = exec[x].entries
  /\ exec'[x].outputs = exec[x].outputs /\ exec'[x].findings = exec[x].findings
  /\ exec'[x].total = exec[x].total

(* The parts of an execution that is there.                                *)
LEMMA Present ==
  ASSUME Shape, NEW x \in Run, exec[x].pc # "none"
  PROVE  /\ DOMAIN exec[x] = Fields /\ exec[x].pc \in PC
         /\ exec[x].attempt \in 1 .. MaxAttempts /\ exec[x].seq \in Nat
BY DEF Shape, NoExec

(* Three actions call a tool.                                              *)
LEMMA AskingSteps ==
  ASSUME Shape, NEW x \in Run, ListDirectory(x) \/ ListDirectoryFails(x) \/ GrepNext(x)
  PROVE  /\ \E call, a : Asks(x, call, a)
         /\ DOMAIN exec' = Run /\ DOMAIN exec'[x] = Fields
         /\ \A y \in Run : y # x => exec'[y] = exec[y]
         /\ UNCHANGED <<accepted, reader, environment>>
<1> DEFINE e == exec[x]
<1>1. DOMAIN e = Fields  BY Present DEF ListDirectory, ListDirectoryFails, GrepNext, At
<1>2. \A a : /\ DOMAIN Called(x, a) = Fields /\ Called(x, a).seq = e.seq + 1
             /\ Called(x, a).entries = a.entries /\ Called(x, a).attempt = e.attempt
             /\ Called(x, a).outputs = IF a.data.ok THEN e.outputs \cup {a.data} ELSE e.outputs
             /\ Called(x, a).findings = e.findings /\ Called(x, a).total = e.total
  BY <1>1 DEF Called, Fields
<1>3. CASE ListDirectory(x)
  <2>1. PICK a \in Answers(x, ListCall(Dir(x))) :
          /\ Record(x, ListCall(Dir(x)), a.data)
          /\ exec' = [exec EXCEPT ![x] =
                [Called(x, a) EXCEPT
                   !.pc = "grep",
                   !.files = Len(SelectSeq(a.data.entries, IsLogFile)),
                   !.todo = GrepCalls(Dir(x), a.data.entries, exec[x].input.keywords)]]
    BY <1>3 DEF ListDirectory
  <2> DEFINE new == [Called(x, a) EXCEPT
                       !.pc = "grep",
                       !.files = Len(SelectSeq(a.data.entries, IsLogFile)),
                       !.todo = GrepCalls(Dir(x), a.data.entries, exec[x].input.keywords)]
  <2>2. exec' = [exec EXCEPT ![x] = new]  BY <2>1
  <2>3. /\ DOMAIN new = Fields /\ new.pc = "grep" /\ new.seq = e.seq + 1
        /\ new.entries = a.entries /\ new.attempt = e.attempt
        /\ new.outputs = IF a.data.ok THEN e.outputs \cup {a.data} ELSE e.outputs
        /\ new.findings = e.findings /\ new.total = e.total
    BY <1>2 DEF Fields
  <2> HIDE DEF new
  <2>4. e.pc = "list" /\ UNCHANGED <<runRow, stepRows, accepted, reader, environment>>
    BY <1>3 DEF ListDirectory, At
  <2>5. Asks(x, ListCall(Dir(x)), a)
    BY <2>1, <2>2, <2>3, <2>4 DEF Shape, ListCall, Asks
  <2>6. QED  BY <2>2, <2>3, <2>4, <2>5 DEF Shape
<1>4. CASE ListDirectoryFails(x)
  <2>1. PICK a \in Answers(x, ListCall(Dir(x))) :
          /\ Record(x, ListCall(Dir(x)), a.data)
          /\ exec' = [exec EXCEPT ![x] = [Called(x, a) EXCEPT !.pc = "scan failed"]]
    BY <1>4 DEF ListDirectoryFails
  <2> DEFINE new == [Called(x, a) EXCEPT !.pc = "scan failed"]
  <2>2. exec' = [exec EXCEPT ![x] = new]  BY <2>1
  <2>3. /\ DOMAIN new = Fields /\ new.pc = "scan failed" /\ new.seq = e.seq + 1
        /\ new.entries = a.entries /\ new.attempt = e.attempt
        /\ new.outputs = IF a.data.ok THEN e.outputs \cup {a.data} ELSE e.outputs
        /\ new.findings = e.findings /\ new.total = e.total
    BY <1>2 DEF Fields
  <2> HIDE DEF new
  <2>4. e.pc = "list" /\ UNCHANGED <<runRow, stepRows, accepted, reader, environment>>
    BY <1>4 DEF ListDirectoryFails, At
  <2>5. Asks(x, ListCall(Dir(x)), a)
    BY <2>1, <2>2, <2>3, <2>4 DEF Shape, ListCall, Asks
  <2>6. QED  BY <2>2, <2>3, <2>4, <2>5 DEF Shape
<1>5. CASE GrepNext(x)
  <2> DEFINE call == Head(exec[x].todo)
  <2>1. PICK a \in Answers(x, call) :
       /\ Record(x, call, a.data)
       /\ exec' = [exec EXCEPT ![x] =
            [Called(x, a) EXCEPT
               !.todo = Tail(@),
               !.findings = @ \o Findings(call, a.data),
               !.total = @ + (IF a.data.ok THEN MatchCount(a.data) ELSE 0)]]
    BY <1>5 DEF GrepNext
  <2> DEFINE more == IF a.data.ok THEN MatchCount(a.data) ELSE 0
             new  == [Called(x, a) EXCEPT !.todo = Tail(@),
                                          !.findings = @ \o Findings(call, a.data),
                                          !.total = @ + more]
  <2>2. exec' = [exec EXCEPT ![x] = new]  BY <2>1
  <2> HIDE DEF call, more
  <2>3. /\ DOMAIN new = Fields /\ new.pc = e.pc /\ new.seq = e.seq + 1
        /\ new.entries = a.entries /\ new.attempt = e.attempt
        /\ new.outputs = IF a.data.ok THEN e.outputs \cup {a.data} ELSE e.outputs
        /\ new.findings = e.findings \o Findings(call, a.data) /\ new.total = e.total + more
    <3>1. DOMAIN Called(x, a) = Fields /\ Called(x, a).pc = e.pc
      BY <1>1 DEF Called, Fields
    <3>2. QED  BY <1>2, <3>1 DEF Fields
  <2> HIDE DEF new
  <2>4. e.pc = "grep" /\ UNCHANGED <<runRow, stepRows, accepted, reader, environment>>
    BY <1>5 DEF GrepNext, At
  <2>5. Asks(x, call, a)  BY <2>1, <2>2, <2>3, <2>4 DEF Shape, Asks, more
  <2>6. QED  BY <2>2, <2>3, <2>4, <2>5 DEF Shape
<1>6. QED  BY <1>3, <1>4, <1>5

(* What the steps do that call no tool.                                    *)
Moves(x) ==
  LET from(a) == exec[x].pc = a
      to(b)   == exec'[x].pc = b
      rows(r) == stepRows' = [stepRows EXCEPT ![x] = @ \cup r]
      keep    == stepRows' = stepRows
      same    == exec'[x].attempt = exec[x].attempt
      report  == exec'[x].report = exec[x].report
  IN
  \/ /\ from("spawned") /\ to("created") /\ same /\ keep
     /\ runRow' = [runRow EXCEPT ![x] = IF @ = "NONE" THEN "CREATED" ELSE @]
  \/ /\ from("created") /\ to("list") /\ same /\ keep
     /\ runRow' = [runRow EXCEPT ![x] = "RUNNING"]
  \/ /\ from("scan failed") /\ runRow' = runRow
     /\ rows({StepRow("scan", exec[x].attempt, "FAILED", ErrorText)})
     /\ \/ to("fail") /\ same
        \/ to("list") /\ exec'[x].attempt = exec[x].attempt + 1 /\ exec[x].attempt < MaxAttempts
  \/ /\ from("grep") /\ to("analyze") /\ same /\ runRow' = runRow
     /\ rows({StepRow("scan", exec[x].attempt, "SUCCEEDED",
                      JSON(Scan(exec[x].files, exec[x].findings, exec[x].total)))})
     /\ exec'[x].report = Analyze(exec[x].findings, exec[x].total)
  \/ /\ from("analyze") /\ to("complete") /\ same /\ report /\ runRow' = runRow
     /\ Valid(exec[x].report, exec[x].outputs)
     /\ rows({StepRow("analyze", 1, "SUCCEEDED", JSON(exec[x].report))})
  \/ /\ from("analyze") /\ to("fail") /\ same /\ runRow' = runRow
     /\ ~Valid(exec[x].report, exec[x].outputs)
     /\ rows({StepRow("analyze", 1, "FAILED", ErrorText)})
  \/ /\ from("complete") /\ to("returned") /\ same /\ report /\ keep
     /\ runRow' = [runRow EXCEPT ![x] = "COMPLETED"]
     /\ exec'[x].reply = FormatReport(exec[x].report)
  \/ /\ from("fail") /\ to("returned") /\ same /\ keep
     /\ runRow' = [runRow EXCEPT ![x] = "FAILED"]
     /\ exec'[x].reply = ErrorReply

(* The other actions of an execution call none.                            *)
LEMMA ComputingSteps ==
  ASSUME Shape, NEW x \in Run,
         \/ Create(x) \/ Start(x) \/ ScanFails(x) \/ ScanSucceeds(x) \/ JudgeReport(x)
         \/ Complete(x) \/ Fail(x)
  PROVE  /\ Computes(x) /\ Moves(x)
         /\ DOMAIN exec' = Run /\ DOMAIN exec'[x] = Fields
         /\ \A y \in Run : y # x => exec'[y] = exec[y]
         /\ UNCHANGED <<accepted, reader, environment>>
<1> DEFINE e == exec[x]
<1>1. DOMAIN e = Fields
  BY Present DEF Create, Start, ScanFails, ScanSucceeds, JudgeReport, Complete, Fail, At
<1>2. DOMAIN exec = Run  BY DEF Shape
<1>3. CASE Create(x)
  BY <1>1, <1>2, <1>3 DEF Create, At, Fields, Computes, Moves
<1>4. CASE Start(x)
  BY <1>1, <1>2, <1>4 DEF Start, At, Fields, Computes, Moves
<1>5. CASE ScanFails(x)
  <2> DEFINE again == [e EXCEPT !.pc = "list", !.attempt = @ + 1]
             over  == [e EXCEPT !.pc = "fail"]
  <2>1. \/ e.attempt < MaxAttempts /\ exec' = [exec EXCEPT ![x] = again]
        \/ exec' = [exec EXCEPT ![x] = over]
    BY <1>1, <1>2, <1>5 DEF ScanFails
  <2>2. /\ e.pc = "scan failed" /\ UNCHANGED <<runRow, toolRows, accepted, reader, environment>>
        /\ stepRows' = [stepRows EXCEPT ![x] = @ \cup
                          {StepRow("scan", e.attempt, "FAILED", ErrorText)}]
    BY <1>5 DEF ScanFails, At
  <2>3. /\ DOMAIN again = Fields /\ again.pc = "list" /\ again.attempt = e.attempt + 1
        /\ again.seq = e.seq /\ again.entries = e.entries /\ again.outputs = e.outputs
        /\ again.findings = e.findings /\ again.total = e.total
    BY <1>1 DEF Fields
  <2>4. /\ DOMAIN over = Fields /\ over.pc = "fail" /\ over.attempt = e.attempt
        /\ over.seq = e.seq /\ over.entries = e.entries /\ over.outputs = e.outputs
        /\ over.findings = e.findings /\ over.total = e.total
    BY <1>1 DEF Fields
  <2> HIDE DEF again, over
  <2>5. CASE e.attempt < MaxAttempts /\ exec' = [exec EXCEPT ![x] = again]
    BY <1>2, <2>2, <2>3, <2>5 DEF Computes, Moves
  <2>6. CASE exec' = [exec EXCEPT ![x] = over]
    BY <1>2, <2>2, <2>4, <2>6 DEF Computes, Moves
  <2>7. QED  BY <2>1, <2>5, <2>6
<1>6. CASE ScanSucceeds(x)
  BY <1>1, <1>2, <1>6 DEF ScanSucceeds, At, Fields, Computes, Moves
<1>7. CASE JudgeReport(x)
  BY <1>1, <1>2, <1>7 DEF JudgeReport, At, Fields, Computes, Moves
<1>8. CASE Complete(x)
  BY <1>1, <1>2, <1>8 DEF Complete, At, Fields, Computes, Moves
<1>9. CASE Fail(x)
  BY <1>1, <1>2, <1>9 DEF Fail, At, Fields, Computes, Moves
<1>10. QED  BY <1>3, <1>4, <1>5, <1>6, <1>7, <1>8, <1>9
-----------------------------------------------------------------------------
(* The inductive invariant, a conjunction for every run.                   *)

(* How far the row of a run is, given where its execution is.              *)
Life(x) ==
  /\ exec[x].pc = "spawned" => runRow[x] \in {"NONE", "CREATED"}
  /\ exec[x].pc = "created" => runRow[x] = "CREATED"
  /\ exec[x].pc \in {"list", "scan failed", "grep", "analyze", "complete", "fail"} =>
       runRow[x] = "RUNNING"
  /\ exec[x].pc = "returned" =>
       \/ runRow[x] = "COMPLETED" /\ exec[x].reply.kind = "text"
       \/ runRow[x] = "FAILED" /\ exec[x].reply.kind = "error"
  /\ frontend = "http" /\ ~x.replay /\ exec[x].pc # "none" => runRow[x] # "NONE"

(* The tool calls of a run are numbered without gaps, from its start on;   *)
(* replays add none.                                                       *)
Numbered(x) ==
  /\ IsSeq(toolRows[x])
  /\ \A k \in DOMAIN toolRows[x] :
       /\ toolRows[x][k].seq = k
       /\ IsAnswer(toolRows[x][k].call, toolRows[x][k].data)
  /\ runRow[x] \in {"NONE", "CREATED"} => toolRows[x] = <<>> /\ stepRows[x] = {}
  /\ ~x.replay /\ exec[x].pc # "none" => exec[x].seq = Len(toolRows[x])
  /\ x.replay => toolRows[x] = <<>>

OkData(x) == {toolRows[x][k].data : k \in {j \in DOMAIN toolRows[x] : toolRows[x][j].data.ok}}

(* The findings of an execution come from outputs that its collector has,  *)
(* and these are the ones in the table; a replay has no findings at all.   *)
Founded(x) ==
  exec[x].pc # "none" =>
    /\ IsSeq(exec[x].findings)
    /\ \A k \in DOMAIN exec[x].findings : Sourced(exec[x].findings[k], exec[x].outputs)
    /\ ~x.replay => exec[x].outputs = OkData(x)
    /\ x.replay =>
         /\ exec[x].findings = <<>>
         /\ IsSeq(exec[x].entries)
         /\ \A k \in DOMAIN exec[x].entries : exec[x].entries[k].data.form = "json"

ScanRow(row) ==
  /\ row.step = "scan"
  /\ \/ row.status = "FAILED" /\ row.output = ErrorText
     \/ row.status = "SUCCEEDED" /\ row.output.kind = "scan"

ReportRow(row, outputs) ==
  /\ row.step = "analyze" /\ row.status = "SUCCEEDED" /\ row.output.kind = "report"
  /\ ReportValid(row.output) /\ GroundingValid(row.output, outputs)

(* The rows of the steps: any number of failed scans, one that succeeded,  *)
(* and then the report, complete and grounded in what the table has.       *)
Recorded(x) ==
  /\ \A row \in stepRows[x] : ScanRow(row) \/ ReportRow(row, OkData(x))
  /\ exec[x].pc \in {"analyze", "complete"} \/ (exec[x].pc = "returned" /\ exec[x].reply.kind = "text")
       => exec[x].report = Analyze(exec[x].findings, exec[x].total)
  /\ exec[x].pc \in {"created", "list", "scan failed", "grep", "analyze"} =>
       \A row \in stepRows[x] : row.step # "analyze"
  /\ exec[x].pc = "complete" \/ (exec[x].pc = "returned" /\ exec[x].reply.kind = "text") =>
       \A row \in stepRows[x] : row.step = "analyze" => row.output = JSON(exec[x].report)
  /\ exec[x].pc = "complete" \/ runRow[x] = "COMPLETED" =>
       \E row \in stepRows[x] : row.step = "analyze"
  /\ exec[x].pc = "analyze" \/ (\E row \in stepRows[x] : row.step = "analyze") =>
       \E row \in stepRows[x] : row.step = "scan" /\ row.status = "SUCCEEDED"

RunInv(x) == Life(x) /\ Numbered(x) /\ Founded(x) /\ Recorded(x)

Inv == Shape /\ \A x \in Run : RunInv(x)
-----------------------------------------------------------------------------
(* What a step of the system is for one run: its execution is spawned,     *)
(* calls a tool or goes on without one, or the run rests - then at most    *)
(* the memory of its execution is lost.                                    *)

Spawns(x) ==
  /\ exec[x] = NoExec /\ runRow[x] = "NONE"
  /\ \E in, source, entries :
       /\ exec'[x] = Exec(in, source, entries)
       /\ x.replay => IsSeq(entries) /\ \A k \in DOMAIN entries : entries[k].data.form = "json"
  /\ runRow'[x] \in {"NONE", "CREATED"}
  /\ frontend = "http" /\ ~x.replay => runRow'[x] = "CREATED"
  /\ stepRows'[x] = stepRows[x] /\ toolRows'[x] = toolRows[x]

Rests(x) ==
  /\ runRow'[x] = runRow[x] /\ stepRows'[x] = stepRows[x] /\ toolRows'[x] = toolRows[x]
  /\ exec'[x] = exec[x] \/ (exec'[x] = NoExec /\ exec[x].pc # "returned")

(* The entries of a replay have the form of JSON.                          *)
LEMMA StoredForm ==
  ASSUME NEW x \in Run, Numbered(x)
  PROVE  /\ IsSeq(StoredCalls(x))
         /\ \A k \in DOMAIN StoredCalls(x) : StoredCalls(x)[k].data.form = "json"
<1> DEFINE ok == {k \in DOMAIN toolRows[x] : toolRows[x][k].data.ok}
           row(n) == toolRows[x][Kth(ok, Less(ok), n)]
           calls == [n \in 1 .. Cardinality(ok) |-> [call |-> row(n).call, data |-> JSON(row(n).data)]]
<1>1. StoredCalls(x) = calls  BY DEF StoredCalls
<1>2. IsFiniteSet(ok) /\ Cardinality(ok) \in Nat /\ ok \in SUBSET Nat
  BY DomainFinite, FS_Subset, FS_CardinalityType DEF Numbered
<1>3. ASSUME NEW n \in 1 .. Cardinality(ok)
      PROVE  JSON(row(n).data).form = "json"
  <2>1. Kth(ok, Less(ok), n) \in ok
    <3>1. Orders(Less(ok), ok)  BY <1>2, LessOrders
    <3> HIDE DEF ok
    <3>2. QED  BY <1>2, <3>1, KthExists
  <2>2. "form" \in DOMAIN row(n).data
    BY <2>1, AnswerShape DEF Numbered
  <2> HIDE DEF row
  <2>3. QED  BY <2>2, JSONKeeps
<1> HIDE DEF ok, row
<1>4. calls \in Seq({calls[n] : n \in 1 .. Cardinality(ok)})  BY <1>2
<1>5. \A n \in DOMAIN calls : calls[n].data.form = "json"  BY <1>3
<1> HIDE DEF calls
<1>6. QED  BY <1>1, <1>4, <1>5 DEF IsSeq

(* The rest of the state is as it was, and so are the other runs.          *)
LEMMA StepElsewhere ==
  ASSUME Shape, NEW y \in Run, Step(y)
  PROVE  /\ (\E call, a : Asks(y, call, a)) \/ (Computes(y) /\ Moves(y))
         /\ DOMAIN exec' = Run /\ DOMAIN exec'[y] = Fields
         /\ \A x \in Run : x # y => Rests(x)
         /\ UNCHANGED <<accepted, reader, environment>>
<1>0. DOMAIN stepRows = Run /\ DOMAIN toolRows = Run /\ runRow \in [Run -> Status]
  BY DEF Shape
<1>1. CASE ListDirectory(y) \/ ListDirectoryFails(y) \/ GrepNext(y)
  <2>1. PICK call, a : Asks(y, call, a)  BY <1>1, AskingSteps
  <2>2. \A x \in Run : x # y => toolRows'[x] = toolRows[x]
    BY <1>0, <2>1 DEF Asks, Record
  <2>3. runRow' = runRow /\ stepRows' = stepRows  BY <2>1 DEF Asks
  <2>4. \A x \in Run : x # y => exec'[x] = exec[x]  BY <1>1, AskingSteps
  <2>5. QED  BY <1>1, <2>1, <2>2, <2>3, <2>4, AskingSteps DEF Rests
<1>2. CASE \/ Create(y) \/ Start(y) \/ ScanFails(y) \/ ScanSucceeds(y) \/ JudgeReport(y)
           \/ Complete(y) \/ Fail(y)
  <2>1. Computes(y) /\ Moves(y)  BY <1>2, ComputingSteps
  <2>2. toolRows' = toolRows  BY <2>1 DEF Computes
  <2>3. \A x \in Run : x # y => runRow'[x] = runRow[x] /\ stepRows'[x] = stepRows[x]
    BY <1>0, <2>1 DEF Moves
  <2>4. \A x \in Run : x # y => exec'[x] = exec[x]  BY <1>2, ComputingSteps
  <2>5. QED  BY <1>2, <2>1, <2>2, <2>3, <2>4, ComputingSteps DEF Rests
<1>3. QED  BY <1>1, <1>2 DEF Step

(* The requests spawn one execution, with entries in the form of JSON.     *)
LEMMA SpawningSteps ==
  ASSUME Inv, NEW r \in Request, CreateRun(r) \/ AnalyzeLogs(r) \/ ReplayRun(r)
  PROVE  /\ \A x \in Run : Spawns(x) \/ Rests(x)
         /\ DOMAIN exec' = Run /\ runRow' \in [Run -> Status]
         /\ UNCHANGED <<stepRows, toolRows, accepted, reader, environment>>
<1>0. /\ DOMAIN exec = Run /\ runRow \in [Run -> Status]
      /\ \A x \in Run : exec[x].pc = "none" => exec[x] = NoExec
  BY DEF Inv, Shape
<1>1. Original(r) \in Run /\ Replay(r) \in Run /\ ~Original(r).replay /\ Replay(r).replay
  BY RunsApart
<1>2. CASE CreateRun(r)
  <2>1. PICK in \in Input : exec' = [exec EXCEPT ![Original(r)] = Exec(in, "none", <<>>)]
    BY <1>2 DEF CreateRun
  <2>2. /\ exec[Original(r)] = NoExec /\ runRow[Original(r)] = "NONE"
        /\ runRow' = [runRow EXCEPT ![Original(r)] = "CREATED"]
        /\ UNCHANGED <<stepRows, toolRows, accepted, reader, environment>>
    BY <1>0, <1>1, <1>2 DEF CreateRun, At
  <2>3. Spawns(Original(r))  BY <1>0, <1>1, <2>1, <2>2 DEF Spawns
  <2>4. \A x \in Run : x # Original(r) => Rests(x)
    BY <1>0, <2>1, <2>2 DEF Rests
  <2>5. QED  BY <1>0, <2>1, <2>2, <2>3, <2>4 DEF Status
<1>3. CASE AnalyzeLogs(r)
  <2>1. PICK in \in Input : exec' = [exec EXCEPT ![Original(r)] = Exec(in, "none", <<>>)]
    BY <1>3 DEF AnalyzeLogs
  <2>2. /\ exec[Original(r)] = NoExec /\ runRow[Original(r)] = "NONE" /\ frontend = "mcp"
        /\ UNCHANGED <<tables, accepted, reader, environment>>
    BY <1>0, <1>1, <1>3 DEF AnalyzeLogs, At
  <2>3. Spawns(Original(r))  BY <1>0, <1>1, <2>1, <2>2 DEF Spawns, tables
  <2>4. \A x \in Run : x # Original(r) => Rests(x)
    BY <1>0, <2>1, <2>2 DEF Rests, tables
  <2>5. QED  BY <1>0, <2>1, <2>2, <2>3, <2>4 DEF tables
<1>4. CASE ReplayRun(r)
  <2> DEFINE in == [dir |-> ".", keywords |-> DefaultKeywords]
             calls == StoredCalls(Original(r))
  <2>1. exec' = [exec EXCEPT ![Replay(r)] = Exec(in, runRow[Original(r)], calls)]
    BY <1>4 DEF ReplayRun
  <2>2. IsSeq(calls) /\ \A k \in DOMAIN calls : calls[k].data.form = "json"
    BY <1>1, StoredForm DEF Inv, RunInv
  <2>3. /\ exec[Replay(r)] = NoExec /\ runRow[Replay(r)] = "NONE"
        /\ UNCHANGED <<tables, accepted, reader, environment>>
    BY <1>0, <1>1, <1>4 DEF ReplayRun, At
  <2> HIDE DEF in, calls
  <2>4. Spawns(Replay(r))  BY <1>0, <1>1, <2>1, <2>2, <2>3 DEF Spawns, tables
  <2>5. \A x \in Run : x # Replay(r) => Rests(x)
    BY <1>0, <2>1, <2>3 DEF Rests, tables
  <2>6. QED  BY <1>0, <2>1, <2>3, <2>4, <2>5 DEF tables
<1>5. QED  BY <1>2, <1>3, <1>4

(* A step of the execution: it calls a tool, or it does not.               *)
Works(x) ==
  /\ DOMAIN exec'[x] = Fields
  /\ (\E call, a : Asks(x, call, a)) \/ (Computes(x) /\ Moves(x))

(* What is there for good, whatever happens.                               *)
Frame ==
  /\ frontend' = frontend /\ disk' \in Disks
  /\ DOMAIN exec' = Run /\ DOMAIN stepRows' = Run /\ DOMAIN toolRows' = Run
  /\ runRow' \in [Run -> Status]

(* A step of one execution, seen by all the runs.                          *)
LEMMA StepFrames ==
  ASSUME Shape, NEW y \in Run, Step(y)
  PROVE  Frame /\ Works(y) /\ (\A x \in Run : x # y => Rests(x))
<1>0. DOMAIN stepRows = Run /\ DOMAIN toolRows = Run /\ runRow \in [Run -> Status]
      /\ disk \in Disks
  BY DEF Shape
<1>1. /\ (\E call, a : Asks(y, call, a)) \/ (Computes(y) /\ Moves(y))
      /\ DOMAIN exec' = Run /\ DOMAIN exec'[y] = Fields
      /\ \A x \in Run : x # y => Rests(x)
      /\ UNCHANGED <<accepted, reader, environment>>
  BY StepElsewhere
<1>2. DOMAIN toolRows' = Run
  <2>1. CASE Computes(y)  BY <1>0, <2>1 DEF Computes
  <2>2. ASSUME NEW call, NEW a, Asks(y, call, a) PROVE DOMAIN toolRows' = Run
    BY <1>0, <2>2 DEF Asks, Record
  <2>3. QED  BY <1>1, <2>1, <2>2
<1>3. DOMAIN stepRows' = Run /\ runRow' \in [Run -> Status]
  <2>1. CASE Moves(y)  BY <1>0, <2>1 DEF Moves, Status
  <2>2. ASSUME NEW call, NEW a, Asks(y, call, a)
        PROVE  DOMAIN stepRows' = Run /\ runRow' \in [Run -> Status]
    BY <1>0, <2>2 DEF Asks
  <2>3. QED  BY <1>1, <2>1, <2>2
<1>4. frontend' = frontend /\ disk' = disk  BY <1>1 DEF environment
<1>5. QED  BY <1>0, <1>1, <1>2, <1>3, <1>4 DEF Works, Frame

(* In every step of the system each run is spawned, works or rests.        *)
LEMMA EachRun ==
  ASSUME Inv, [Next]_vars
  PROVE  Frame /\ \A x \in Run : Spawns(x) \/ Works(x) \/ Rests(x)
<1>0. /\ DOMAIN exec = Run /\ DOMAIN stepRows = Run /\ DOMAIN toolRows = Run
      /\ runRow \in [Run -> Status] /\ disk \in Disks
      /\ Shape
  BY DEF Inv, Shape
<1>1. ASSUME NEW r \in Request, CreateRun(r) \/ AnalyzeLogs(r) \/ ReplayRun(r)
      PROVE  Frame /\ \A x \in Run : Spawns(x) \/ Rests(x)
  BY <1>0, <1>1, SpawningSteps DEF Frame, environment
<1>2. ASSUME NEW y \in Run, Step(y)
      PROVE  Frame /\ \A x \in Run : Works(x) \/ Rests(x)
  BY <1>0, <1>2, StepFrames
<1>3. ASSUME UNCHANGED <<tables, exec, frontend>>, disk' \in Disks
      PROVE  Frame /\ \A x \in Run : Rests(x)
  BY <1>0, <1>3 DEF tables, Frame, Rests
<1>4. ASSUME NEW r \in Request, Accept(r) PROVE Frame /\ \A x \in Run : Rests(x)
  BY <1>0, <1>3, <1>4 DEF Accept, environment
<1>5. CASE Metrics
  BY <1>0, <1>3, <1>5
     DEF Metrics, RequestMetrics, ReadSteps, ReadTools, RespondMetrics, environment
<1>6. CASE ChangeFiles  BY <1>0, <1>3, <1>6 DEF ChangeFiles
<1>7. CASE Crash
  <2>1. exec' = [x \in Run |-> IF exec[x].pc = "returned" THEN exec[x] ELSE NoExec]
    BY <1>7 DEF Crash, At
  <2>2. UNCHANGED <<frontend, disk, runRow, stepRows, toolRows>>  BY <1>7 DEF Crash, tables
  <2>3. QED  BY <1>0, <2>1, <2>2 DEF Frame, Rests
<1>8. CASE UNCHANGED vars  BY <1>0, <1>3, <1>8 DEF vars, tables
<1>9. QED  BY <1>1, <1>2, <1>4, <1>5, <1>6, <1>7, <1>8 DEF Next

(* The parts of an execution that was spawned.                             *)
LEMMA SpawnedShape ==
  ASSUME NEW in, NEW source, NEW entries
  PROVE  LET e == Exec(in, source, entries)
         IN /\ DOMAIN e = Fields /\ e.pc = "spawned" /\ e.attempt = 1 /\ e.seq = 0
            /\ e.entries = entries /\ e.outputs = {} /\ e.findings = <<>> /\ e.total = 0
BY DEF Exec, Fields

(* Every step keeps the shape of the state.                                *)
LEMMA ShapeNext ==
  ASSUME Inv, [Next]_vars
  PROVE  Shape'
<1>1. Frame /\ \A x \in Run : Spawns(x) \/ Works(x) \/ Rests(x)  BY EachRun
<1>2. Shape /\ MaxAttempts \in Nat \ {0}  BY ServiceAssumption DEF Inv
<1>3. SUFFICES ASSUME NEW x \in Run
      PROVE  \/ exec'[x] = NoExec
             \/ /\ DOMAIN exec'[x] = Fields /\ exec'[x].pc \in PC \ {"none"}
                /\ exec'[x].attempt \in 1 .. MaxAttempts /\ exec'[x].seq \in Nat
  BY <1>1, <1>2 DEF Frame, Shape
<1>4. CASE Spawns(x)
  <2>1. PICK in, source, entries : exec'[x] = Exec(in, source, entries)  BY <1>4 DEF Spawns
  <2>2. /\ DOMAIN exec'[x] = Fields /\ exec'[x].pc = "spawned"
        /\ exec'[x].attempt = 1 /\ exec'[x].seq = 0
    BY <2>1, SpawnedShape
  <2>3. 1 \in 1 .. MaxAttempts  BY <1>2
  <2>4. exec'[x].pc \in PC \ {"none"}  BY <2>2 DEF PC
  <2>5. QED  BY <2>2, <2>3, <2>4
<1>5. CASE Works(x)
  <2>1. exec[x].pc # "none"
    <3>1. ASSUME NEW call, NEW a, Asks(x, call, a) PROVE exec[x].pc # "none"
      BY <3>1 DEF Asks
    <3>2. CASE Moves(x)  BY <3>2 DEF Moves
    <3>3. QED  BY <1>5, <3>1, <3>2 DEF Works
  <2>2. exec[x].attempt \in 1 .. MaxAttempts /\ exec[x].seq \in Nat  BY <1>2, <2>1, Present
  <2>3. ASSUME NEW call, NEW a, Asks(x, call, a)
        PROVE  /\ exec'[x].pc \in PC \ {"none"} /\ exec'[x].attempt \in 1 .. MaxAttempts
               /\ exec'[x].seq \in Nat
    <3>1. exec'[x].pc \in PC \ {"none"}  BY <2>3 DEF Asks, PC
    <3>2. exec'[x].attempt = exec[x].attempt /\ exec'[x].seq = exec[x].seq + 1
      BY <2>3 DEF Asks
    <3>3. QED  BY <2>2, <3>1, <3>2
  <2>4. CASE Computes(x) /\ Moves(x)
    <3>1. exec'[x].pc \in PC \ {"none"}  BY <2>4 DEF Moves, PC
    <3>2. \/ exec'[x].attempt = exec[x].attempt
          \/ exec'[x].attempt = exec[x].attempt + 1 /\ exec[x].attempt < MaxAttempts
      BY <2>4 DEF Moves
    <3>3. exec'[x].seq = exec[x].seq  BY <2>4 DEF Computes
    <3>4. exec'[x].attempt \in 1 .. MaxAttempts  BY <1>2, <2>2, <3>2
    <3>5. QED  BY <1>5, <2>2, <3>1, <3>3, <3>4 DEF Works
  <2>5. QED  BY <1>5, <2>3, <2>4 DEF Works
<1>6. CASE Rests(x)  BY <1>2, <1>6 DEF Rests, Shape
<1>7. QED  BY <1>1, <1>4, <1>5, <1>6
-----------------------------------------------------------------------------
(* What a call adds to the table and to the memory of the execution.       *)

(* What the tools of a process can see is a tree of files.                 *)
LEMMA VisibleTree ==
  ASSUME Shape, NEW x \in Run
  PROVE  IsTree(Visible(x))
<1>1. IsTree(disk)
  <2>1. \A dir \in DOMAIN disk : \A f \in DOMAIN disk[dir] :
          disk[dir][f] = Unreadable \/ disk[dir][f] \in Seq(Range(disk[dir][f]))
    BY ServiceAssumption DEF Shape
  <2>2. QED  BY <2>1 DEF IsTree, IsSeq
<1>2. CASE frontend = "http"  BY <1>1, <1>2 DEF Visible
<1>3. CASE frontend # "http"
  <2> DEFINE dir == exec[x].input.dir
             V   == [d \in {"."} \cap {"." : e \in {dir} \cap DOMAIN disk} |-> disk[dir]]
  <2>1. Visible(x) = V  BY <1>3 DEF Visible
  <2>2. \A d \in DOMAIN V : dir \in DOMAIN disk /\ V[d] = disk[dir]  OBVIOUS
  <2> HIDE DEF V, dir
  <2>3. QED  BY <1>1, <2>1, <2>2 DEF IsTree
<1>4. QED  BY <1>2, <1>3

JsonEntries(entries) == IsSeq(entries) /\ \A k \in DOMAIN entries : entries[k].data.form = "json"

(* A replay that consumes an entry keeps the others.                       *)
LEMMA EntriesRemain ==
  ASSUME NEW s, JsonEntries(s), NEW k \in DOMAIN s
  PROVE  JsonEntries(RemoveAt(s, k))
<1>1. PICK S : s \in Seq(S)  BY DEF JsonEntries, IsSeq
<1>2. k \in 1 .. Len(s) /\ Len(s) \in Nat  BY <1>1
<1> DEFINE a == SubSeq(s, 1, k - 1)
           b == SubSeq(s, k + 1, Len(s))
<1>3. /\ a \in Seq(S) /\ \A i \in DOMAIN a : i \in DOMAIN s /\ a[i] = s[i]
      /\ b \in Seq(S) /\ \A i \in DOMAIN b : i + k \in DOMAIN s /\ b[i] = s[i + k]
  <2>1. a \in Seq(S) /\ Len(a) = k - 1 /\ \A i \in 1 .. k - 1 : a[i] = s[i]
    BY <1>1, <1>2
  <2>2. b \in Seq(S) /\ Len(b) = Len(s) - k /\ \A i \in 1 .. Len(s) - k : b[i] = s[i + k]
    BY <1>1, <1>2
  <2> HIDE DEF a, b
  <2>3. QED  BY <1>1, <1>2, <2>1, <2>2
<1> HIDE DEF a, b
<1>4. RemoveAt(s, k) = a \o b  BY DEF RemoveAt, a, b
<1> DEFINE T == {e \in S : e.data.form = "json"}
<1>5. a \in Seq(T) /\ b \in Seq(T)
  <2>1. \A i \in DOMAIN s : s[i].data.form = "json" /\ s[i] \in S  BY <1>1 DEF JsonEntries
  <2>2. (\A i \in DOMAIN a : a[i] \in T) /\ (\A i \in DOMAIN b : b[i] \in T)
    BY <1>3, <2>1
  <2> HIDE DEF T
  <2>3. QED  BY <1>3, <2>2
<1>6. a \o b \in Seq(T)
  <2> HIDE DEF T
  <2>1. QED  BY <1>5
<1>7. \A i \in DOMAIN (a \o b) : (a \o b)[i] \in T
  <2> HIDE DEF T
  <2>1. QED  BY <1>6
<1>8. QED  BY <1>4, <1>6, <1>7 DEF JsonEntries, IsSeq

(* A replay is answered from its entries and gains no findings ...         *)
LEMMA ReplayAnswers ==
  ASSUME NEW x \in Run, x.replay, JsonEntries(exec[x].entries), NEW call,
         NEW a \in Answers(x, call)
  PROVE  Findings(call, a.data) = <<>> /\ JsonEntries(a.entries)
<1>1. CASE Unconsumed(x, call) = {}
  <2>1. a = [data |-> Failure, entries |-> exec[x].entries]  BY <1>1 DEF Answers
  <2>2. a.data.ok = FALSE  BY <2>1 DEF Failure
  <2>3. QED  BY <2>1, <2>2, StoredYieldsNothing
<1>2. CASE Unconsumed(x, call) # {}
  <2> DEFINE k == Min(Unconsumed(x, call))
  <2>1. k \in Unconsumed(x, call)
    <3>1. Unconsumed(x, call) \in SUBSET Nat  BY DomainFinite DEF Unconsumed, JsonEntries
    <3>2. QED  BY <1>2, <3>1, MinIsLeast
  <2>2. a = [data |-> exec[x].entries[k].data, entries |-> RemoveAt(exec[x].entries, k)]
    BY <1>2 DEF Answers
  <2> HIDE DEF k
  <2>3. k \in DOMAIN exec[x].entries  BY <2>1 DEF Unconsumed
  <2>4. a.data.form = "json"  BY <2>2, <2>3 DEF JsonEntries
  <2>5. QED  BY <2>2, <2>3, <2>4, EntriesRemain, StoredYieldsNothing
<1>3. QED  BY <1>1, <1>2

(* ... and a row is added for the answer of a tool.                        *)
LEMMA CallRecorded ==
  ASSUME Shape, NEW x \in Run, ~x.replay, Numbered(x), NEW call, NEW a, Asks(x, call, a)
  PROVE  /\ IsAnswer(call, a.data)
         /\ toolRows'[x] = Append(toolRows[x], [seq |-> Len(toolRows[x]) + 1, call |-> call,
                                                data |-> a.data])
<1>1. a = [data |-> RunTool(Visible(x), call), entries |-> <<>>]  BY DEF Asks, Answers
<1>2. IsAnswer(call, a.data)  BY <1>1, VisibleTree, ToolAnswers
<1>3. exec[x].seq = Len(toolRows[x])
  <2>1. exec[x].pc # "none"  BY DEF Asks
  <2>2. QED  BY <2>1 DEF Numbered
<1>4. \A k \in DOMAIN toolRows[x] : toolRows[x][k].seq # exec[x].seq + 1
  <2>1. DOMAIN toolRows[x] = 1 .. Len(toolRows[x]) /\ Len(toolRows[x]) \in Nat
    BY DomainFinite DEF Numbered
  <2>2. \A k \in DOMAIN toolRows[x] : toolRows[x][k].seq = k  BY DEF Numbered
  <2>3. QED  BY <1>3, <2>1, <2>2
<1> DEFINE row == [seq |-> exec[x].seq + 1, call |-> call, data |-> a.data]
<1>5. toolRows' = [toolRows EXCEPT ![x] = Append(@, row)]  BY <1>4 DEF Asks, Record
<1>6. x \in DOMAIN toolRows  BY DEF Shape
<1>7. QED  BY <1>2, <1>3, <1>5, <1>6

(* What is in a sequence after Append.                                     *)
LEMMA Appended ==
  ASSUME NEW s, IsSeq(s), NEW e
  PROVE  /\ IsSeq(Append(s, e)) /\ Len(Append(s, e)) = Len(s) + 1 /\ Len(s) \in Nat
         /\ DOMAIN s = 1 .. Len(s) /\ DOMAIN Append(s, e) = 1 .. Len(s) + 1
         /\ \A k \in DOMAIN s : Append(s, e)[k] = s[k]
         /\ Append(s, e)[Len(s) + 1] = e
<1>1. PICK S : s \in Seq(S)  BY DEF IsSeq
<1>2. s \in Seq(S \cup {e}) /\ e \in S \cup {e}  BY <1>1
<1>3. Append(s, e) \in Seq(S \cup {e})  BY <1>2
<1>4. QED  BY <1>2, <1>3 DEF IsSeq

(* A row that is added is the only one that is added to the outputs.       *)
LEMMA OkDataGrows ==
  ASSUME NEW x \in Run, NEW row, IsSeq(toolRows[x]), toolRows'[x] = Append(toolRows[x], row)
  PROVE  OkData(x)' = IF row.data.ok THEN OkData(x) \cup {row.data} ELSE OkData(x)
<1> DEFINE s == toolRows[x]
           t == toolRows'[x]
           n == Len(s) + 1
<1>1. /\ DOMAIN t = DOMAIN s \cup {n} /\ n \notin DOMAIN s /\ t[n] = row
      /\ \A k \in DOMAIN s : t[k] = s[k]
  BY Appended
<1>2. OkData(x)' = {t[k].data : k \in {j \in DOMAIN t : t[j].data.ok}}  BY DEF OkData
<1>3. OkData(x) = {s[k].data : k \in {j \in DOMAIN s : s[j].data.ok}}  BY DEF OkData
<1> HIDE DEF s, t, n
<1>4. QED  BY <1>1, <1>2, <1>3
-----------------------------------------------------------------------------
(* The invariant of a run, in each of the four cases.                      *)

(* A run that rests keeps its invariant, also when the process crashes.    *)
LEMMA Resting ==
  ASSUME Inv, NEW x \in Run, frontend' = frontend, Rests(x)
  PROVE  RunInv(x)'
<1>1. RunInv(x)  BY DEF Inv
<1>2. runRow'[x] = runRow[x] /\ stepRows'[x] = stepRows[x] /\ toolRows'[x] = toolRows[x]
  BY DEF Rests
<1>3. OkData(x)' = OkData(x)  BY <1>2 DEF OkData
<1>4. CASE exec'[x] = exec[x]
  <2>1. Life(x)'  BY <1>1, <1>2, <1>4 DEF RunInv, Life
  <2>2. Numbered(x)'  BY <1>1, <1>2, <1>4 DEF RunInv, Numbered
  <2>3. Founded(x)'  BY <1>1, <1>3, <1>4 DEF RunInv, Founded
  <2>4. Recorded(x)'
    <3>1. Recorded(x)  BY <1>1 DEF RunInv
    <3>2. QED  BY <1>2, <1>3, <1>4, <3>1 DEF Recorded
  <2>5. QED  BY <2>1, <2>2, <2>3, <2>4 DEF RunInv
<1>5. CASE exec'[x] = NoExec
  <2>1. exec'[x].pc = "none"  BY <1>5 DEF NoExec
  <2>2. Life(x)'  BY <2>1 DEF Life
  <2>3. Numbered(x)'  BY <1>1, <1>2, <2>1 DEF RunInv, Numbered
  <2>4. Founded(x)'  BY <2>1 DEF Founded
  <2>5. Recorded(x)'
    <3>1. Recorded(x)  BY <1>1 DEF RunInv
    <3>2. QED  BY <1>2, <1>3, <2>1, <3>1 DEF Recorded
  <2>6. QED  BY <2>2, <2>3, <2>4, <2>5 DEF RunInv
<1>6. QED  BY <1>4, <1>5 DEF Rests

(* A run that is spawned begins with the invariant.                        *)
LEMMA Spawning ==
  ASSUME Inv, NEW x \in Run, frontend' = frontend, Spawns(x)
  PROVE  RunInv(x)'
<1>1. RunInv(x)  BY DEF Inv
<1>2. PICK in, source, entries :
        /\ exec'[x] = Exec(in, source, entries)
        /\ x.replay => IsSeq(entries) /\ \A k \in DOMAIN entries : entries[k].data.form = "json"
  BY DEF Spawns
<1>3. /\ exec'[x].pc = "spawned" /\ exec'[x].seq = 0 /\ exec'[x].entries = entries
      /\ exec'[x].outputs = {} /\ exec'[x].findings = <<>>
  BY <1>2, SpawnedShape
<1>4. /\ stepRows'[x] = {} /\ toolRows'[x] = <<>> /\ runRow'[x] \in {"NONE", "CREATED"}
      /\ frontend = "http" /\ ~x.replay => runRow'[x] = "CREATED"
  BY <1>1 DEF RunInv, Numbered, Spawns
<1>5. IsSeq(<<>>)  BY DEF IsSeq
<1>6. Life(x)'  BY <1>3, <1>4 DEF Life
<1>7. Numbered(x)'  BY <1>3, <1>4, <1>5 DEF Numbered
<1>8. OkData(x)' = {}  BY <1>4 DEF OkData
<1>9. Founded(x)'  BY <1>2, <1>3, <1>5, <1>8 DEF Founded
<1>10. Recorded(x)'  BY <1>3, <1>4 DEF Recorded
<1>11. QED  BY <1>6, <1>7, <1>9, <1>10 DEF RunInv

(* More outputs, and findings from one of them.                            *)
Backed(findings, outputs) ==
  IsSeq(findings) /\ \A k \in DOMAIN findings : Sourced(findings[k], outputs)

(* Findings stay backed when an answer adds outputs and findings.          *)
LEMMA MoreFindings ==
  ASSUME NEW findings, NEW outputs, Backed(findings, outputs),
         NEW call, NEW d, IsAnswer(call, d), NEW seen,
         seen = IF d.ok THEN outputs \cup {d} ELSE outputs
  PROVE  Backed(findings \o Findings(call, d), seen) /\ Backed(findings, seen)
<1> DEFINE new == Findings(call, d)
           all == findings \o new
<1>1. /\ IsSeq(new) /\ (~d.ok => new = <<>>)
      /\ \A k \in DOMAIN new : Sourced(new[k], {d})
  BY FindingsSourced
<1>2. \A k \in DOMAIN findings : Sourced(findings[k], seen)  BY DEF Sourced, Backed
<1>3. \A k \in DOMAIN new : Sourced(new[k], seen)  BY <1>1 DEF Sourced
<1> HIDE DEF new
<1>4. IsSeq(findings)  BY DEF Backed
<1>5. IsSeq(all) /\ Joins(all, findings, new)  BY <1>1, <1>4, Concatenation
<1> HIDE DEF all
<1>6. \A k \in DOMAIN all : Sourced(all[k], seen)
  BY <1>2, <1>3, <1>5 DEF Joins
<1>7. QED  BY <1>2, <1>4, <1>5, <1>6 DEF Backed, all, new

(* A call of a tool keeps the invariant of its run.                        *)
LEMMA Asking ==
  ASSUME Inv, NEW x \in Run, frontend' = frontend, NEW call, NEW a, Asks(x, call, a)
  PROVE  RunInv(x)'
<1>1. Life(x) /\ Numbered(x) /\ Founded(x) /\ Recorded(x) /\ Shape
  BY DEF Inv, RunInv
<1>2. /\ exec[x].pc \in {"list", "grep"} /\ exec'[x].pc \in {"grep", "scan failed"}
      /\ runRow'[x] = runRow[x] /\ stepRows'[x] = stepRows[x] /\ runRow[x] = "RUNNING"
      /\ exec'[x].entries = a.entries /\ exec'[x].seq = exec[x].seq + 1
      /\ exec'[x].outputs = IF a.data.ok THEN exec[x].outputs \cup {a.data} ELSE exec[x].outputs
      /\ exec'[x].findings \in {exec[x].findings, exec[x].findings \o Findings(call, a.data)}
  BY <1>1 DEF Asks, Life
<1>3. Life(x)'  BY <1>2 DEF Life
<1>4. \A row \in stepRows[x] : row.step # "analyze"  BY <1>1, <1>2 DEF Recorded
<1>5. \A row \in stepRows[x] : ScanRow(row)  BY <1>1, <1>4 DEF Recorded, ReportRow
<1>6. Recorded(x)'  BY <1>2, <1>4, <1>5 DEF Recorded
<1>7. Backed(exec[x].findings, exec[x].outputs)
  BY <1>1, <1>2 DEF Founded, Backed
<1>8. CASE x.replay
  <2>1. toolRows' = toolRows  BY <1>8 DEF Asks, Record
  <2>2. Numbered(x)'  BY <1>1, <1>2, <1>8, <2>1 DEF Numbered
  <2>3. JsonEntries(exec[x].entries) /\ exec[x].findings = <<>>
    BY <1>1, <1>2, <1>8 DEF Founded, JsonEntries
  <2>4. a \in Answers(x, call)  BY DEF Asks
  <2>5. Findings(call, a.data) = <<>> /\ JsonEntries(a.entries)
    BY <1>8, <2>3, <2>4, ReplayAnswers
  <2>6. <<>> \o <<>> = <<>>  OBVIOUS
  <2>7. exec'[x].findings = <<>>  BY <1>2, <2>3, <2>5, <2>6
  <2>8. IsSeq(<<>>)  BY DEF IsSeq
  <2>9. \A k \in DOMAIN <<>> : Sourced(<<>>[k], exec'[x].outputs)  OBVIOUS
  <2>10. Founded(x)'  BY <1>2, <1>8, <2>5, <2>7, <2>8, <2>9 DEF Founded, JsonEntries
  <2>11. QED  BY <1>3, <1>6, <2>2, <2>10 DEF RunInv
<1>9. CASE ~x.replay
  <2> DEFINE row == [seq |-> Len(toolRows[x]) + 1, call |-> call, data |-> a.data]
  <2>1. IsAnswer(call, a.data) /\ toolRows'[x] = Append(toolRows[x], row)
    BY <1>1, <1>9, CallRecorded
  <2>2. IsSeq(toolRows[x])  BY <1>1 DEF Numbered
  <2>3. row.seq = Len(toolRows[x]) + 1 /\ row.call = call /\ row.data = a.data  OBVIOUS
  <2> HIDE DEF row
  <2>4. OkData(x)' = IF a.data.ok THEN OkData(x) \cup {a.data} ELSE OkData(x)
    BY <2>1, <2>2, <2>3, OkDataGrows
  <2>5. Founded(x)'
    <3>1. exec[x].outputs = OkData(x)  BY <1>1, <1>2, <1>9 DEF Founded
    <3>2. exec'[x].outputs = OkData(x)'  BY <1>2, <2>4, <3>1
    <3>3. Backed(exec'[x].findings, exec'[x].outputs)
      <4> DEFINE seen == exec'[x].outputs
      <4>1. seen = IF a.data.ok THEN exec[x].outputs \cup {a.data} ELSE exec[x].outputs
        BY <1>2
      <4> HIDE DEF seen
      <4>2. /\ Backed(exec[x].findings \o Findings(call, a.data), seen)
            /\ Backed(exec[x].findings, seen)
        BY <1>7, <2>1, <4>1, MoreFindings
      <4>3. QED  BY <1>2, <4>2 DEF seen
    <3>4. QED  BY <1>9, <3>2, <3>3 DEF Founded, Backed
  <2>6. Numbered(x)'
    <3> DEFINE s == toolRows[x]
               t == toolRows'[x]
    <3>1. /\ IsSeq(t) /\ Len(t) = Len(s) + 1 /\ DOMAIN s = 1 .. Len(s)
          /\ DOMAIN t = 1 .. Len(s) + 1 /\ t[Len(s) + 1] = row /\ Len(s) \in Nat
          /\ \A k \in DOMAIN s : t[k] = s[k]
      BY <2>1, <2>2, Appended
    <3>2. \A k \in DOMAIN s : s[k].seq = k /\ IsAnswer(s[k].call, s[k].data)
      BY <1>1 DEF Numbered
    <3>3. exec[x].seq = Len(s)  BY <1>1, <1>2, <1>9 DEF Numbered
    <3>4. row.seq = Len(s) + 1  BY <2>3
    <3> HIDE DEF s, t
    <3>5. \A k \in DOMAIN t : t[k].seq = k /\ IsAnswer(t[k].call, t[k].data)
      <4> SUFFICES ASSUME NEW k \in DOMAIN t
                   PROVE  t[k].seq = k /\ IsAnswer(t[k].call, t[k].data)
        OBVIOUS
      <4>1. CASE k = Len(s) + 1  BY <2>1, <2>3, <3>4, <3>1, <4>1
      <4>2. CASE k # Len(s) + 1
        <5>1. k \in DOMAIN s  BY <3>1, <4>2
        <5>2. QED  BY <3>1, <3>2, <5>1
      <4>3. QED  BY <4>1, <4>2
    <3>6. exec'[x].seq = Len(t)  BY <1>2, <3>1, <3>3
    <3>7. QED  BY <1>2, <1>9, <3>1, <3>5, <3>6 DEF Numbered, t
  <2>7. QED  BY <1>3, <1>6, <2>5, <2>6 DEF RunInv
<1>10. QED  BY <1>8, <1>9

(* The report is complete and grounded in what the table has - and in what *)
(* the collector has, which is what the validator asks.                    *)
LEMMA ReportGrounded ==
  ASSUME NEW x \in Run, Founded(x), exec[x].pc # "none",
         exec[x].report = Analyze(exec[x].findings, exec[x].total)
  PROVE  /\ DOMAIN exec[x].report = ReportFields /\ exec[x].report.kind = "report"
         /\ exec[x].report.form = "native"
         /\ ReportValid(exec[x].report) /\ GroundingValid(exec[x].report, OkData(x))
         /\ Valid(exec[x].report, exec[x].outputs)
<1> DEFINE f == exec[x].findings
<1>1. IsSeq(f) /\ \A k \in DOMAIN f : Sourced(f[k], exec[x].outputs)  BY DEF Founded
<1>2. \A k \in DOMAIN f : Sourced(f[k], OkData(x))  BY <1>1 DEF Founded
<1> DEFINE report == exec[x].report
<1>3. /\ DOMAIN report = ReportFields /\ report.kind = "report" /\ report.form = "native"
      /\ ReportValid(report) /\ GroundingValid(report, OkData(x))
  BY <1>1, <1>2, AnalyzeValid
<1>4. GroundingValid(report, exec[x].outputs)  BY <1>1, AnalyzeValid
<1>5. QED  BY <1>3, <1>4 DEF Valid

(* A step without a tool keeps the invariant of its run.                   *)
LEMMA Computing ==
  ASSUME Inv, NEW x \in Run, frontend' = frontend, DOMAIN exec'[x] = Fields,
         Computes(x), Moves(x)
  PROVE  RunInv(x)'
<1>1. Life(x) /\ Numbered(x) /\ Founded(x) /\ Recorded(x) /\ Shape
  BY DEF Inv, RunInv
<1>2. x \in DOMAIN stepRows /\ x \in DOMAIN runRow  BY <1>1 DEF Shape
<1>3. /\ toolRows'[x] = toolRows[x] /\ exec'[x].seq = exec[x].seq
      /\ exec'[x].entries = exec[x].entries /\ exec'[x].outputs = exec[x].outputs
      /\ exec'[x].findings = exec[x].findings /\ exec'[x].total = exec[x].total
  BY DEF Computes
<1>4. OkData(x)' = OkData(x)  BY <1>3 DEF OkData
<1>5. exec[x].pc # "none" /\ exec'[x].pc # "none"  BY DEF Moves
<1>6. Founded(x)'  BY <1>1, <1>3, <1>4, <1>5 DEF Founded
<1>7. runRow'[x] \in {"NONE", "CREATED"} =>
        runRow[x] \in {"NONE", "CREATED"} /\ stepRows'[x] = stepRows[x]
  BY <1>1, <1>2 DEF Moves, Life
<1>8. Numbered(x)'  BY <1>1, <1>3, <1>5, <1>7 DEF Numbered
<1>9. SUFFICES Life(x)' /\ Recorded(x)'  BY <1>6, <1>8 DEF RunInv
<1>10. CASE exec[x].pc = "spawned"
  <2>1. /\ exec'[x].pc = "created" /\ stepRows'[x] = stepRows[x] /\ runRow'[x] = "CREATED"
        /\ stepRows[x] = {}
    BY <1>1, <1>2, <1>10 DEF Moves, Life, Numbered
  <2>2. QED  BY <2>1 DEF Life, Recorded
<1>11. CASE exec[x].pc = "created"
  <2>1. /\ exec'[x].pc = "list" /\ stepRows'[x] = stepRows[x] /\ runRow'[x] = "RUNNING"
    BY <1>2, <1>11 DEF Moves
  <2>2. \A row \in stepRows[x] : row.step # "analyze"  BY <1>1, <1>11 DEF Recorded
  <2>3. QED  BY <1>1, <1>4, <2>1, <2>2 DEF Life, Recorded
<1>12. CASE exec[x].pc = "scan failed"
  <2> DEFINE row == StepRow("scan", exec[x].attempt, "FAILED", ErrorText)
  <2>1. /\ exec'[x].pc \in {"list", "fail"} /\ stepRows'[x] = stepRows[x] \cup {row}
        /\ runRow'[x] = "RUNNING"
    BY <1>1, <1>2, <1>12 DEF Moves, Life
  <2>2. ScanRow(row) /\ row.step # "analyze"  BY DEF ScanRow, StepRow
  <2>3. \A r \in stepRows[x] : r.step # "analyze" /\ ScanRow(r)
    BY <1>1, <1>12 DEF Recorded, ReportRow
  <2> HIDE DEF row
  <2>4. QED  BY <1>5, <2>1, <2>2, <2>3 DEF Life, Recorded
<1>13. CASE exec[x].pc = "grep"
  <2> DEFINE row == StepRow("scan", exec[x].attempt, "SUCCEEDED",
                            JSON(Scan(exec[x].files, exec[x].findings, exec[x].total)))
  <2>1. /\ exec'[x].pc = "analyze" /\ stepRows'[x] = stepRows[x] \cup {row}
        /\ runRow'[x] = "RUNNING"
        /\ exec'[x].report = Analyze(exec'[x].findings, exec'[x].total)
    BY <1>1, <1>2, <1>3, <1>13 DEF Moves, Life
  <2>2. ScanRow(row) /\ row.step = "scan" /\ row.status = "SUCCEEDED"
    BY DEF ScanRow, StepRow, Scan, JSON
  <2>3. \A r \in stepRows[x] : r.step # "analyze" /\ ScanRow(r)
    BY <1>1, <1>13 DEF Recorded, ReportRow
  <2> HIDE DEF row
  <2>4. QED  BY <1>5, <2>1, <2>2, <2>3 DEF Life, Recorded
<1>14. CASE exec[x].pc = "analyze"
  <2>0. exec[x].report = Analyze(exec[x].findings, exec[x].total)
    BY <1>1, <1>14 DEF Recorded
  <2>1. /\ DOMAIN exec[x].report = ReportFields /\ exec[x].report.kind = "report"
        /\ exec[x].report.form = "native"
        /\ ReportValid(exec[x].report) /\ GroundingValid(exec[x].report, OkData(x))
        /\ Valid(exec[x].report, exec[x].outputs)
    BY <1>1, <1>5, <2>0, ReportGrounded
  <2> DEFINE output == JSON(exec[x].report)
             row    == StepRow("analyze", 1, "SUCCEEDED", output)
  <2>2. /\ exec'[x].pc = "complete" /\ stepRows'[x] = stepRows[x] \cup {row}
        /\ runRow'[x] = "RUNNING" /\ exec'[x].report = exec[x].report
    BY <1>1, <1>2, <1>14, <2>1 DEF Moves, Life
  <2>3. output.kind = "report" /\ ReportValid(output) /\ GroundingValid(output, OkData(x))
    BY <2>1, StoredReport
  <2> HIDE DEF output
  <2>4. ReportRow(row, OkData(x)) /\ row.step = "analyze" /\ row.output = output
    BY <2>3 DEF ReportRow, StepRow
  <2>5. \A r \in stepRows[x] : r.step # "analyze" /\ ScanRow(r)
    BY <1>1, <1>14 DEF Recorded, ReportRow
  <2>6. \E r \in stepRows[x] : r.step = "scan" /\ r.status = "SUCCEEDED"
    BY <1>1, <1>14 DEF Recorded
  <2> HIDE DEF row
  <2>7. Life(x)'  BY <1>5, <2>2 DEF Life
  <2>8. \A r \in stepRows'[x] : ScanRow(r) \/ ReportRow(r, OkData(x)')
    BY <1>4, <2>2, <2>4, <2>5
  <2>9. \A r \in stepRows'[x] : r.step = "analyze" => r.output = JSON(exec'[x].report)
    BY <2>2, <2>4, <2>5 DEF output
  <2>10. exec'[x].report = Analyze(exec'[x].findings, exec'[x].total)  BY <1>3, <2>0, <2>2
  <2>11. Recorded(x)'
    BY <2>2, <2>4, <2>6, <2>8, <2>9, <2>10 DEF Recorded
  <2>12. QED  BY <2>7, <2>11
<1>15. CASE exec[x].pc = "complete"
  <2>1. /\ exec'[x].pc = "returned" /\ stepRows'[x] = stepRows[x] /\ runRow'[x] = "COMPLETED"
        /\ exec'[x].report = exec[x].report /\ exec'[x].reply = FormatReport(exec[x].report)
    BY <1>2, <1>15 DEF Moves
  <2>2. exec'[x].reply.kind = "text"  BY <2>1 DEF FormatReport
  <2>3. Life(x)'  BY <2>1, <2>2 DEF Life
  <2>4. Recorded(x)'  BY <1>1, <1>3, <1>4, <1>15, <2>1 DEF Recorded
  <2>5. QED  BY <2>3, <2>4
<1>16. CASE exec[x].pc = "fail"
  <2>1. /\ exec'[x].pc = "returned" /\ stepRows'[x] = stepRows[x] /\ runRow'[x] = "FAILED"
        /\ exec'[x].reply = ErrorReply
    BY <1>2, <1>16 DEF Moves
  <2>2. exec'[x].reply.kind = "error"  BY <2>1 DEF ErrorReply
  <2>3. Life(x)'  BY <2>1, <2>2 DEF Life
  <2>4. Recorded(x)'  BY <1>1, <1>4, <1>16, <2>1, <2>2 DEF Recorded
  <2>5. QED  BY <2>3, <2>4
<1>17. exec[x].pc \in {"spawned", "created", "scan failed", "grep", "analyze", "complete", "fail"}
  BY DEF Moves
<1>18. QED  BY <1>10, <1>11, <1>12, <1>13, <1>14, <1>15, <1>16, <1>17

(* The invariant holds when the process starts with empty tables.          *)
LEMMA Initial ==
  ASSUME Init
  PROVE  Inv
<1>1. \A x \in Run : exec[x] = NoExec /\ runRow[x] = "NONE" /\ stepRows[x] = {} /\ toolRows[x] = <<>>
  BY DEF Init
<1>2. Shape  BY <1>1 DEF Init, Shape, Status
<1>3. ASSUME NEW x \in Run PROVE RunInv(x)
  <2>1. exec[x].pc = "none"  BY <1>1 DEF NoExec
  <2>2. IsSeq(<<>>)  BY DEF IsSeq
  <2>3. Life(x)  BY <2>1 DEF Life
  <2>4. Numbered(x)  BY <1>1, <2>1, <2>2 DEF Numbered
  <2>5. Founded(x)  BY <2>1 DEF Founded
  <2>6. Recorded(x)  BY <1>1, <2>1 DEF Recorded
  <2>7. QED  BY <2>3, <2>4, <2>5, <2>6 DEF RunInv
<1>4. QED  BY <1>2, <1>3 DEF Inv

(* Every step of the system keeps the invariant of every run.              *)
LEMMA InvNext ==
  ASSUME Inv, [Next]_vars
  PROVE  Inv'
<1>1. Frame /\ \A x \in Run : Spawns(x) \/ Works(x) \/ Rests(x)  BY EachRun
<1>2. frontend' = frontend  BY <1>1 DEF Frame
<1>3. ASSUME NEW x \in Run PROVE RunInv(x)'
  <2>1. CASE Spawns(x)  BY <1>2, <2>1, Spawning
  <2>2. CASE Rests(x)  BY <1>2, <2>2, Resting
  <2>3. CASE Works(x)
    <3>1. CASE Computes(x) /\ Moves(x)
      <4>1. DOMAIN exec'[x] = Fields  BY <2>3 DEF Works
      <4>2. QED  BY <1>2, <3>1, <4>1, Computing
    <3>2. ASSUME NEW call, NEW a, Asks(x, call, a) PROVE RunInv(x)'
      BY <1>2, <3>2, Asking
    <3>3. QED  BY <2>3, <3>1, <3>2 DEF Works
  <2>4. QED  BY <1>1, <2>1, <2>2, <2>3
<1>4. QED  BY <1>3, ShapeNext DEF Inv

(* The inductive invariant holds in every reachable state.                 *)
THEOREM Invariant == Spec => []Inv
BY Initial, InvNext, PTL DEF Spec
-----------------------------------------------------------------------------
(* What the rows say for good.                                             *)

(* In no history do the validators reject a report of the analyzer: every  *)
(* row of that step has status SUCCEEDED, for all logs, keywords, crashes  *)
(* and replays.                                                            *)
THEOREM EveryReportAccepted == Spec => []ReportsAccepted
<1>1. Inv => ReportsAccepted  BY DEF Inv, RunInv, Recorded, ScanRow, ReportRow, ReportsAccepted
<1>2. QED  BY <1>1, Invariant, PTL

(* A run that says COMPLETED has a complete report, grounded in its own    *)
(* rows of tool_calls, whatever crashed or changed in between.             *)
THEOREM CompletedMeansReported == Spec => []CompletedHasReport
<1>1. ASSUME Inv PROVE CompletedHasReport
  <2> SUFFICES ASSUME NEW x \in Run, runRow[x] = "COMPLETED"
               PROVE  \E report \in Reports(x) :
                         ReportValid(report) /\ GroundingValid(report, OkData(x))
    BY DEF CompletedHasReport, OkData
  <2>1. Recorded(x)  BY <1>1 DEF Inv, RunInv
  <2>2. PICK row \in stepRows[x] : row.step = "analyze"  BY <2>1 DEF Recorded
  <2>3. ReportRow(row, OkData(x))  BY <2>1, <2>2 DEF Recorded, ScanRow
  <2>4. row.output \in Reports(x)  BY <2>3 DEF Reports, IsReport, ReportRow
  <2>5. QED  BY <2>3, <2>4 DEF ReportRow
<1>2. QED  BY <1>1, Invariant, PTL

(* The form of what get_report finds is that of JSON.                      *)
LEMMA OneReport ==
  ASSUME Inv, NEW x \in Run, At(x, "returned"), exec[x].reply.kind = "text"
  PROVE  Reports(x) = {JSON(exec[x].report)} /\ DOMAIN exec[x].report = ReportFields
<1>1. Life(x) /\ Founded(x) /\ Recorded(x) /\ exec[x].pc = "returned"
  BY DEF Inv, RunInv, At
<1>2. runRow[x] = "COMPLETED"  BY <1>1 DEF Life
<1>3. exec[x].report = Analyze(exec[x].findings, exec[x].total)  BY <1>1 DEF Recorded
<1>4. DOMAIN exec[x].report = ReportFields  BY <1>1, <1>3, ReportGrounded
<1>5. PICK row \in stepRows[x] : row.step = "analyze"  BY <1>1, <1>2 DEF Recorded
<1>6. \A r \in stepRows[x] : IsReport(r) => r.output = JSON(exec[x].report)
  BY <1>1 DEF Recorded, ScanRow, ReportRow, IsReport
<1>7. IsReport(row)
  BY <1>1, <1>5 DEF Recorded, ScanRow, ReportRow, IsReport
<1>8. QED  BY <1>4, <1>6, <1>7 DEF Reports

(* What analyze_logs has answered, get_report finds at any later time, with*)
(* the same evidence and the same advice.                                  *)
THEOREM ReportsStayRetrievable == Spec => []ReportRetrievable
<1>1. ASSUME Inv PROVE ReportRetrievable
  <2> SUFFICES ASSUME NEW r \in Request, At(Original(r), "returned"),
                      exec[Original(r)].reply.kind = "text"
               PROVE  /\ GetReport(Original(r)) # ErrorReply
                      /\ GetReport(Original(r)).evidence = exec[Original(r)].report.evidence
                      /\ GetReport(Original(r)).nextSteps = exec[Original(r)].report.nextSteps
    BY DEF ReportRetrievable
  <2> DEFINE x      == Original(r)
             report == exec[x].report
  <2>1. x \in Run  BY RunsApart
  <2>2. Reports(x) = {JSON(report)} /\ DOMAIN report = ReportFields  BY <1>1, <2>1, OneReport
  <2>3. GetReport(x) = FormatReport(JSON(report))  BY <2>2 DEF GetReport
  <2>4. /\ JSON(report).form = "json" /\ JSON(report).evidence = report.evidence
        /\ JSON(report).nextSteps = report.nextSteps
    BY <2>2, StoredReport
  <2> HIDE DEF x, report
  <2>5. /\ GetReport(x).kind = "text" /\ GetReport(x).evidence = report.evidence
        /\ GetReport(x).nextSteps = report.nextSteps
    BY <2>3, <2>4 DEF FormatReport
  <2>6. GetReport(x) # ErrorReply  BY <2>5 DEF ErrorReply
  <2>7. QED  BY <2>5, <2>6 DEF x, report
<1>2. QED  BY <1>1, Invariant, PTL
-----------------------------------------------------------------------------
(* The report accounts for what the recorded tool calls found.             *)

(* The matches of one row.                                                 *)
MatchesOf(row, k) ==
  {[rank |-> SeverityRank(row.call.keyword), key |-> k,
    item |-> [file |-> Last(row.call.path), line |-> row.data.matches[j].line,
              text |-> row.data.matches[j].text]] : j \in DOMAIN row.data.matches}

(* A pairing of matches in the table with findings in the memory.          *)
Pairs(f, M, F) ==
  /\ f \in [DOMAIN F -> M]
  /\ \A i, j \in DOMAIN F : f[i] = f[j] => i = j
  /\ \A m \in M : \E j \in DOMAIN F : f[j] = m
  /\ \A j \in DOMAIN F : f[j].rank = SeverityRank(F[j].keyword) /\ f[j].item = Item(F[j])

Matched(M, F) == \E f : Pairs(f, M, F)

(* What a report says, against a set of matches.                           *)
Accounts(M, report) ==
  LET with(ranks) == Cardinality({m \in M : m.rank \in ranks})
      shown == Range(report.evidence)
  IN /\ (report.rootCause = "N/A") <=> (M = {})
     /\ report.summary = [panics |-> with({3}), errors |-> with({0, 2}), warnings |-> with({1})]
     /\ \A m \in M : m.item \notin shown =>
          \A item \in shown : \E n \in M : n.item = item /\ n.rank >= m.rank

(* An execution begins without findings.                                   *)
LEMMA NothingMatched == Matched({}, <<>>)
<1> DEFINE f == [j \in {} |-> j]
<1>1. f \in [DOMAIN <<>> -> {}]  OBVIOUS
<1>2. Pairs(f, {}, <<>>)  BY <1>1 DEF Pairs
<1>3. QED  BY <1>2 DEF Matched

(* The elements of a concatenation.                                        *)
LEMMA ConcatenationAt ==
  ASSUME NEW s, NEW t, IsSeq(s), IsSeq(t)
  PROVE  /\ DOMAIN (s \o t) = 1 .. Len(s) + Len(t)
         /\ DOMAIN s = 1 .. Len(s) /\ DOMAIN t = 1 .. Len(t) /\ Len(s) \in Nat /\ Len(t) \in Nat
         /\ \A k \in 1 .. Len(s) : (s \o t)[k] = s[k]
         /\ \A k \in 1 .. Len(t) : (s \o t)[Len(s) + k] = t[k]
<1>1. PICK S, T : s \in Seq(S) /\ t \in Seq(T)  BY DEF IsSeq
<1>2. s \in Seq(S \cup T) /\ t \in Seq(S \cup T)  BY <1>1
<1>3. s \o t \in Seq(S \cup T) /\ Len(s \o t) = Len(s) + Len(t) /\ Len(s) \in Nat /\ Len(t) \in Nat
  BY <1>2
<1>4. \A k \in 1 .. Len(s) : (s \o t)[k] = s[k]  BY <1>2
<1>5. ASSUME NEW k \in 1 .. Len(t) PROVE (s \o t)[Len(s) + k] = t[k]
  <2>1. /\ Len(s) + k \in 1 .. Len(s) + Len(t) /\ Len(s) + k > Len(s)
        /\ (Len(s) + k) - Len(s) = k
    BY <1>3
  <2>2. QED  BY <1>2, <2>1
<1>6. QED  BY <1>2, <1>3, <1>4, <1>5

(* Matches and findings that are added together stay paired.               *)
LEMMA MatchedJoin ==
  ASSUME NEW M, NEW N, M \cap N = {}, NEW F, NEW G, IsSeq(F), IsSeq(G),
         Matched(M, F), Matched(N, G)
  PROVE  Matched(M \cup N, F \o G)
<1>1. PICK f, g : Pairs(f, M, F) /\ Pairs(g, N, G)  BY DEF Matched
<1> DEFINE m == Len(F)
           n == Len(G)
           H == F \o G
           h == [k \in 1 .. m + n |-> IF k <= m THEN f[k] ELSE g[k - m]]
<1>2. /\ DOMAIN H = 1 .. m + n /\ DOMAIN F = 1 .. m /\ DOMAIN G = 1 .. n
      /\ m \in Nat /\ n \in Nat
      /\ \A k \in 1 .. m : H[k] = F[k]
      /\ \A k \in 1 .. n : H[m + k] = G[k]
  BY ConcatenationAt
<1>3. /\ \A k \in 1 .. m : k \in 1 .. m + n /\ h[k] = f[k]
      /\ \A k \in 1 .. n : m + k \in 1 .. m + n /\ h[m + k] = g[k]
  BY <1>2
<1>4. \A k \in 1 .. m + n : k \in 1 .. m \/ (\E j \in 1 .. n : k = m + j)
  <2> SUFFICES ASSUME NEW k \in 1 .. m + n, k \notin 1 .. m PROVE k - m \in 1 .. n /\ k = m + (k - m)
    OBVIOUS
  <2>1. QED  BY <1>2
<1>5. DOMAIN h = 1 .. m + n  OBVIOUS
<1> HIDE DEF m, n, H, h
<1>6. /\ \A k \in 1 .. m : f[k] \in M
      /\ \A k \in 1 .. n : g[k] \in N
  BY <1>1, <1>2 DEF Pairs
<1>7. h \in [DOMAIN H -> M \cup N]
  <2>1. \A k \in 1 .. m + n : h[k] \in M \cup N  BY <1>3, <1>4, <1>6
  <2>2. h = [k \in 1 .. m + n |-> h[k]]  BY DEF h
  <2>3. QED  BY <1>2, <2>1, <2>2
<1>8. ASSUME NEW i \in DOMAIN H, NEW j \in DOMAIN H, h[i] = h[j] PROVE i = j
  <2>1. CASE i \in 1 .. m /\ j \in 1 .. m
    BY <1>1, <1>2, <1>3, <1>8, <2>1 DEF Pairs
  <2>2. CASE i \notin 1 .. m /\ j \notin 1 .. m
    <3>1. PICK a \in 1 .. n, b \in 1 .. n : i = m + a /\ j = m + b
      BY <1>2, <1>4, <2>2
    <3>2. g[a] = g[b]  BY <1>3, <1>8, <3>1
    <3>3. a = b  BY <1>1, <1>2, <3>2 DEF Pairs
    <3>4. QED  BY <3>1, <3>3
  <2>3. CASE ~(i \in 1 .. m <=> j \in 1 .. m)
    <3>1. ASSUME NEW k \in 1 .. m PROVE h[k] \in M  BY <1>3, <1>6
    <3>2. ASSUME NEW k \in 1 .. m + n, k \notin 1 .. m PROVE h[k] \in N
      <4>1. PICK a \in 1 .. n : k = m + a  BY <1>4, <3>2
      <4>2. QED  BY <1>3, <1>6, <4>1
    <3>3. i \in 1 .. m + n /\ j \in 1 .. m + n  BY <1>2
    <3>4. \/ h[i] \in M /\ h[j] \in N
          \/ h[i] \in N /\ h[j] \in M
      BY <2>3, <3>1, <3>2, <3>3
    <3>5. QED  BY <1>8, <3>4
  <2>4. QED  BY <2>1, <2>2, <2>3
<1>9. ASSUME NEW q \in M \cup N PROVE \E k \in DOMAIN H : h[k] = q
  <2>1. CASE q \in M
    <3>1. PICK k \in 1 .. m : f[k] = q  BY <1>1, <1>2, <2>1 DEF Pairs
    <3>2. k \in DOMAIN H /\ h[k] = q  BY <1>2, <1>3, <3>1
    <3>3. QED  BY <3>2
  <2>2. CASE q \in N
    <3>1. PICK k \in 1 .. n : g[k] = q  BY <1>1, <1>2, <2>2 DEF Pairs
    <3>2. m + k \in DOMAIN H /\ h[m + k] = q  BY <1>2, <1>3, <3>1
    <3>3. QED  BY <3>2
  <2>3. QED  BY <2>1, <2>2
<1>10. ASSUME NEW k \in DOMAIN H
       PROVE  h[k].rank = SeverityRank(H[k].keyword) /\ h[k].item = Item(H[k])
  <2>1. CASE k \in 1 .. m
    <3>1. f[k].rank = SeverityRank(F[k].keyword) /\ f[k].item = Item(F[k])
      BY <1>1, <1>2, <2>1 DEF Pairs
    <3>2. h[k] = f[k] /\ H[k] = F[k]  BY <1>2, <1>3, <2>1
    <3>3. QED  BY <3>1, <3>2
  <2>2. CASE k \notin 1 .. m
    <3>1. PICK j \in 1 .. n : k = m + j  BY <1>2, <1>4, <2>2
    <3>2. g[j].rank = SeverityRank(G[j].keyword) /\ g[j].item = Item(G[j])
      BY <1>1, <1>2 DEF Pairs
    <3>3. h[k] = g[j] /\ H[k] = G[j]  BY <1>2, <1>3, <3>1
    <3>4. QED  BY <3>2, <3>3
  <2>3. QED  BY <2>1, <2>2
<1>11. Pairs(h, M \cup N, H)  BY <1>7, <1>8, <1>9, <1>10 DEF Pairs
<1>12. QED  BY <1>11 DEF Matched, H

(* The matches of an answer and the findings it adds are the same.         *)
LEMMA NewMatched ==
  ASSUME NEW call, NEW d, IsAnswer(call, d), d.ok, NEW k,
         NEW row, row.call = call, row.data = d
  PROVE  /\ Matched(MatchesOf(row, k), Findings(call, d))
         /\ Len(Findings(call, d)) = MatchCount(d)
<1> DEFINE matches == d.matches
           match(j) == [rank |-> SeverityRank(call.keyword), key |-> k,
                        item |-> [file |-> Last(call.path), line |-> matches[j].line,
                                  text |-> matches[j].text]]
           finding(j) == [file |-> Last(call.path), line |-> matches[j].line,
                          text |-> matches[j].text, keyword |-> call.keyword]
<1>1. /\ IsSeq(matches) /\ LinesApart(matches) /\ MatchCount(d) = Len(matches)
  BY AnswerShape DEF MatchCount
<1>2. DOMAIN matches = 1 .. Len(matches) /\ Len(matches) \in Nat  BY <1>1, DomainFinite
<1>3. MatchesOf(row, k) = {match(j) : j \in DOMAIN matches}  BY DEF MatchesOf
<1>4. CASE MatchCount(d) = 0
  <2>1. Findings(call, d) = <<>>  BY <1>4 DEF Findings
  <2>2. MatchesOf(row, k) = {}  BY <1>1, <1>2, <1>3, <1>4
  <2>3. QED  BY <1>4, <2>1, <2>2, NothingMatched
<1>5. CASE MatchCount(d) # 0
  <2> DEFINE F == [j \in DOMAIN matches |-> finding(j)]
             f == [j \in DOMAIN matches |-> match(j)]
  <2>1. Findings(call, d) = F  BY <1>5 DEF Findings
  <2>2. F \in Seq({F[j] : j \in DOMAIN F}) /\ Len(F) = Len(matches)  BY <1>2
  <2>3. \A i, j \in DOMAIN matches : f[i] = f[j] => i = j
    <3> SUFFICES ASSUME NEW i \in DOMAIN matches, NEW j \in DOMAIN matches, f[i] = f[j]
                 PROVE  i = j
      OBVIOUS
    <3>1. f[i].item.line = f[j].item.line  OBVIOUS
    <3>2. matches[i].line = matches[j].line  BY <3>1
    <3>3. QED  BY <1>1, <3>2 DEF LinesApart
  <2>4. \A j \in DOMAIN matches : f[j].rank = SeverityRank(F[j].keyword) /\ f[j].item = Item(F[j])
    BY DEF Item
  <2>5. f \in [DOMAIN F -> MatchesOf(row, k)]  BY <1>3
  <2>6. \A q \in MatchesOf(row, k) : \E j \in DOMAIN F : f[j] = q  BY <1>3
  <2>7. DOMAIN F = DOMAIN matches  OBVIOUS
  <2> HIDE DEF f, F, matches
  <2>8. Pairs(f, MatchesOf(row, k), F)  BY <2>3, <2>4, <2>5, <2>6, <2>7 DEF Pairs
  <2>9. QED  BY <1>1, <2>1, <2>2, <2>8 DEF Matched, matches
<1>6. QED  BY <1>4, <1>5

(* Sets that a one-to-one function pairs have as many elements.            *)
LEMMA SameCount ==
  ASSUME NEW A, NEW B, IsFiniteSet(A), NEW g \in [A -> B],
         \A i, j \in A : g[i] = g[j] => i = j, \A b \in B : \E i \in A : g[i] = b
  PROVE  Cardinality(B) = Cardinality(A)
<1>1. g \in Injection(A, B)  BY DEF Injection, IsInjective
<1>2. g \in Surjection(A, B)  BY DEF Surjection
<1>3. ExistsBijection(A, B)  BY <1>1, <1>2 DEF Bijection, ExistsBijection
<1>4. QED  BY <1>3, FS_Bijection

(* The counts of the analyzer are those of the matches.                    *)
LEMMA MatchesCounted ==
  ASSUME NEW M, NEW F, IsSeq(F), Matched(M, F), NEW ranks
  PROVE  Cardinality({m \in M : m.rank \in ranks}) = CountRanks(F, ranks)
<1>1. PICK f : Pairs(f, M, F)  BY DEF Matched
<1> DEFINE A == {k \in DOMAIN F : SeverityRank(F[k].keyword) \in ranks}
           B == {m \in M : m.rank \in ranks}
           g == [k \in A |-> f[k]]
<1>2. IsFiniteSet(A)  BY DomainFinite, FS_Subset
<1>3. g \in [A -> B]
  <2>1. \A k \in A : f[k] \in B  BY <1>1 DEF Pairs
  <2>2. QED  BY <2>1
<1>4. \A i, j \in A : g[i] = g[j] => i = j  BY <1>1 DEF Pairs
<1>5. \A b \in B : \E i \in A : g[i] = b
  <2> SUFFICES ASSUME NEW b \in B PROVE \E i \in A : g[i] = b
    OBVIOUS
  <2>1. PICK i \in DOMAIN F : f[i] = b  BY <1>1 DEF Pairs
  <2>2. i \in A  BY <1>1, <2>1 DEF Pairs
  <2>3. QED  BY <2>1, <2>2
<1> HIDE DEF A, B, g
<1>6. Cardinality(B) = Cardinality(A)  BY <1>2, <1>3, <1>4, <1>5, SameCount
<1>7. QED  BY <1>6 DEF A, B, CountRanks

(* Whatever is not among the first n findings is no graver than these.     *)
LEMMA FirstAreGravest ==
  ASSUME NEW F, IsSeq(F), NEW n \in Nat, NEW k \in 1 .. n, n <= Len(F), NEW j \in DOMAIN F,
         \A q \in 1 .. n : Kth(DOMAIN F, Graver(F), q) # j
  PROVE  LET i == Kth(DOMAIN F, Graver(F), k)
         IN i \in DOMAIN F /\ SeverityRank(F[i].keyword) >= SeverityRank(F[j].keyword)
<1> DEFINE S == DOMAIN F
           R == Graver(F)
           i == Kth(S, R, k)
           rank(q) == SeverityRank(F[q].keyword)
<1>1. IsFiniteSet(S) /\ Cardinality(S) = Len(F) /\ Len(F) \in Nat  BY DomainFinite
<1>2. Orders(R, S)  BY GraverOrders
<1>3. \A q : rank(q) \in Nat  BY DEF SeverityRank
<1>4. \A p, q \in S : rank(p) > rank(q) => <<p, q>> \in R  BY DEF Graver
<1> HIDE DEF S, R, rank
<1>5. k \in 1 .. Cardinality(S)  BY <1>1
<1>6. i \in S /\ Cardinality(Below(S, R, i)) = k - 1  BY <1>1, <1>2, <1>5, KthExists
<1>7. j \in S  BY DEF S
<1> HIDE DEF i
<1>8. ASSUME rank(j) > rank(i) PROVE FALSE
  <2>1. Cardinality(Below(S, R, j)) < k - 1  BY <1>1, <1>2, <1>4, <1>6, <1>7, <1>8, FewerBelow
  <2> DEFINE q == Cardinality(Below(S, R, j)) + 1
  <2>2. q \in 1 .. Cardinality(S) /\ Kth(S, R, q) = j  BY <1>1, <1>2, <1>7, KthPlace
  <2>3. Cardinality(Below(S, R, j)) \in Nat  BY <1>1, BelowFinite
  <2>4. q \in 1 .. n  BY <2>1, <2>3
  <2> HIDE DEF q
  <2>5. QED  BY <2>2, <2>4 DEF S, R
<1>9. rank(i) \in Nat /\ rank(j) \in Nat  BY <1>3
<1>10. rank(i) >= rank(j)  BY <1>8, <1>9
<1>11. QED  BY <1>6, <1>10 DEF i, S, R, rank

(* The analyzer accounts for the matches that its findings stand for.      *)
LEMMA AnalyzeAccounts ==
  ASSUME NEW M, NEW F, IsSeq(F), Matched(M, F)
  PROVE  Accounts(M, Analyze(F, Len(F)))
<1>0. DOMAIN F = 1 .. Len(F) /\ Len(F) \in Nat  BY DomainFinite
<1>1. PICK f : Pairs(f, M, F)  BY DEF Matched
<1>2. \A ranks : Cardinality({m \in M : m.rank \in ranks}) = CountRanks(F, ranks)
  BY MatchesCounted
<1>3. CASE Len(F) = 0
  <2>1. DOMAIN F = {}  BY <1>0, <1>3
  <2>2. M = {}  BY <1>1, <2>1 DEF Pairs
  <2>3. \A ranks : Cardinality({m \in M : m.rank \in ranks}) = 0
    <3>1. \A ranks : {m \in M : m.rank \in ranks} = {}  BY <2>2
    <3>2. QED  BY <3>1, FS_EmptySet
  <2>4. Analyze(F, Len(F)) = AllClear  BY <1>3 DEF Analyze
  <2>5. /\ AllClear.rootCause = "N/A"
        /\ AllClear.summary = [panics |-> 0, errors |-> 0, warnings |-> 0]
    BY DEF AllClear
  <2>6. QED  BY <2>2, <2>3, <2>4, <2>5 DEF Accounts
<1>4. CASE Len(F) # 0
  <2> DEFINE n     == Min({MaxEvidence, Len(F)})
             place(k) == Kth(DOMAIN F, Graver(F), k)
             shown == [k \in 1 .. n |-> Item(BySeverity(F)[k])]
             sums  == [panics |-> CountRanks(F, {3}), errors |-> CountRanks(F, {0, 2}),
                       warnings |-> CountRanks(F, {1})]
             report == Analyze(F, Len(F))
  <2>1. F # <<>>  BY <1>4
  <2>2. /\ report.rootCause \in {"pattern", "undetermined"}
        /\ report.summary = sums /\ report.evidence = shown
    BY <1>4, <2>1 DEF Analyze
  <2>3. n \in Nat /\ n <= Len(F)
    <3>1. {MaxEvidence, Len(F)} \in SUBSET Nat  BY <1>0, LogAnalysisAssumption
    <3>2. QED  BY <3>1, MinIsLeast
  <2> HIDE DEF n
  <2>4. \A k \in 1 .. n : shown[k] = Item(F[place(k)])
    <3> SUFFICES ASSUME NEW k \in 1 .. n PROVE shown[k] = Item(F[place(k)])
      OBVIOUS
    <3>1. k \in DOMAIN F  BY <1>0, <2>3
    <3>2. QED  BY <3>1 DEF BySeverity
  <2>5. DOMAIN shown = 1 .. n  OBVIOUS
  <2> HIDE DEF shown, report
  <2>6. Range(report.evidence) = {Item(F[place(k)]) : k \in 1 .. n}
    BY <2>2, <2>4, <2>5 DEF Range
  <2>7. M # {}
    <3>1. 1 \in DOMAIN F  BY <1>0, <1>4
    <3>2. f[1] \in M  BY <1>1, <3>1 DEF Pairs
    <3>3. QED  BY <3>2
  <2>8. ASSUME NEW m \in M, m.item \notin Range(report.evidence),
               NEW item \in Range(report.evidence)
        PROVE  \E q \in M : q.item = item /\ q.rank >= m.rank
    <3>1. PICK j \in DOMAIN F : f[j] = m  BY <1>1 DEF Pairs
    <3>2. m.item = Item(F[j]) /\ m.rank = SeverityRank(F[j].keyword)  BY <1>1, <3>1 DEF Pairs
    <3>3. PICK k \in 1 .. n : item = Item(F[place(k)])  BY <2>6, <2>8
    <3>4. \A q \in 1 .. n : place(q) # j  BY <2>6, <2>8, <3>2
    <3>5. /\ place(k) \in DOMAIN F
          /\ SeverityRank(F[place(k)].keyword) >= SeverityRank(F[j].keyword)
      BY <2>3, <3>4, FirstAreGravest
    <3>6. /\ f[place(k)] \in M /\ f[place(k)].item = Item(F[place(k)])
          /\ f[place(k)].rank = SeverityRank(F[place(k)].keyword)
      BY <1>1, <3>5 DEF Pairs
    <3>7. QED  BY <3>2, <3>3, <3>5, <3>6
  <2>9. report.summary = [panics   |-> Cardinality({m \in M : m.rank \in {3}}),
                          errors   |-> Cardinality({m \in M : m.rank \in {0, 2}}),
                          warnings |-> Cardinality({m \in M : m.rank \in {1}})]
    <3>1. /\ Cardinality({m \in M : m.rank \in {3}}) = CountRanks(F, {3})
          /\ Cardinality({m \in M : m.rank \in {0, 2}}) = CountRanks(F, {0, 2})
          /\ Cardinality({m \in M : m.rank \in {1}}) = CountRanks(F, {1})
      BY <1>2
    <3>2. QED  BY <2>2, <3>1
  <2>10. report.rootCause # "N/A"  BY <2>2
  <2>11. Accounts(M, report)  BY <2>7, <2>8, <2>9, <2>10 DEF Accounts
  <2>12. QED  BY <2>11 DEF report
<1>5. QED  BY <1>3, <1>4

(* ... and so does what is stored of its report.                           *)
LEMMA StoredAccounts ==
  ASSUME NEW M, NEW report, Accounts(M, report), DOMAIN report = ReportFields
  PROVE  Accounts(M, JSON(report))
<1>1. /\ JSON(report).rootCause = report.rootCause /\ JSON(report).summary = report.summary
      /\ JSON(report).evidence = report.evidence
  BY DEF JSON, ReportFields
<1>2. QED  BY <1>1 DEF Accounts

(* The matches of the rows of succeeded calls.                             *)
LEMMA MatchesOfRows ==
  ASSUME NEW x \in Run
  PROVE  RecordedMatches(x) =
           UNION {MatchesOf(toolRows[x][k], k) :
                    k \in {j \in DOMAIN toolRows[x] : toolRows[x][j].data.ok}}
BY DEF RecordedMatches, MatchesOf

(* A row that is added is the only one that adds matches.                  *)
LEMMA MatchesGrow ==
  ASSUME NEW x \in Run, NEW row, IsSeq(toolRows[x]), toolRows'[x] = Append(toolRows[x], row),
         NEW new, new = IF row.data.ok THEN MatchesOf(row, Len(toolRows[x]) + 1) ELSE {}
  PROVE  RecordedMatches(x)' = RecordedMatches(x) \cup new /\ RecordedMatches(x) \cap new = {}
<1> DEFINE s == toolRows[x]
           t == toolRows'[x]
           n == Len(s) + 1
           of(r, k) == MatchesOf(r, k)
<1>1. /\ DOMAIN t = DOMAIN s \cup {n} /\ n \notin DOMAIN s /\ t[n] = row
      /\ \A k \in DOMAIN s : t[k] = s[k]
  BY Appended
<1>2. RecordedMatches(x)' = UNION {of(t[k], k) : k \in {j \in DOMAIN t : t[j].data.ok}}
  BY MatchesOfRows DEF RecordedMatches, MatchesOf
<1>3. RecordedMatches(x) = UNION {of(s[k], k) : k \in {j \in DOMAIN s : s[j].data.ok}}
  BY MatchesOfRows
<1>4. \A r, k : \A m \in of(r, k) : m.key = k  BY DEF MatchesOf
<1>5. new = IF row.data.ok THEN of(row, n) ELSE {}  OBVIOUS
<1> HIDE DEF s, t, n, of
<1>6. \A m \in RecordedMatches(x) : m.key # n  BY <1>1, <1>3, <1>4
<1>7. \A m \in new : m.key = n  BY <1>4, <1>5
<1>8. ASSUME NEW m PROVE m \in RecordedMatches(x)' <=> m \in RecordedMatches(x) \/ m \in new
  BY <1>1, <1>2, <1>3, <1>5
<1>9. QED  BY <1>6, <1>7, <1>8

(* The findings of an execution are the matches in its table, and every    *)
(* report accounts for them.                                               *)
Tallied(x) ==
  exec[x].pc # "none" =>
    /\ Matched(RecordedMatches(x), exec[x].findings)
    /\ exec[x].total = Len(exec[x].findings)

Accounting(x) ==
  ~x.replay => /\ Tallied(x)
               /\ \A report \in Reports(x) : Accounts(RecordedMatches(x), report)

(* Before the analyzer there is no report.                                 *)
LEMMA NoReportYet ==
  ASSUME NEW x \in Run, \A row \in stepRows[x] : ScanRow(row)
  PROVE  Reports(x) = {}
<1>1. \A row \in stepRows[x] : ~IsReport(row)
  BY DEF ScanRow, IsReport, ErrorText
<1>2. QED  BY <1>1 DEF Reports

(* A run that rests keeps its account.                                     *)
LEMMA RestingAccounts ==
  ASSUME NEW x \in Run, Rests(x), Accounting(x)
  PROVE  Accounting(x)'
<1>1. /\ stepRows'[x] = stepRows[x] /\ toolRows'[x] = toolRows[x]
      /\ exec'[x] = exec[x] \/ exec'[x].pc = "none"
  BY DEF Rests, NoExec
<1>2. RecordedMatches(x)' = RecordedMatches(x)  BY <1>1 DEF RecordedMatches
<1>3. Reports(x)' = Reports(x)  BY <1>1 DEF Reports
<1>4. QED  BY <1>1, <1>2, <1>3 DEF Accounting, Tallied

(* A run is spawned with empty tables.                                     *)
LEMMA SpawningAccounts ==
  ASSUME Inv, NEW x \in Run, Spawns(x)
  PROVE  Accounting(x)'
<1>1. Numbered(x)  BY DEF Inv, RunInv
<1>2. stepRows'[x] = {} /\ toolRows'[x] = <<>>  BY <1>1 DEF Numbered, Spawns
<1>3. exec'[x].findings = <<>> /\ exec'[x].total = 0  BY SpawnedShape DEF Spawns
<1>4. RecordedMatches(x)' = {}  BY <1>2 DEF RecordedMatches
<1>5. Reports(x)' = {}  BY <1>2 DEF Reports
<1>6. Len(<<>>) = 0  OBVIOUS
<1>7. QED  BY <1>3, <1>4, <1>5, <1>6, NothingMatched DEF Accounting, Tallied

(* A call of a tool adds the same matches to the table and to the findings.*)
LEMMA AskingAccounts ==
  ASSUME Inv, NEW x \in Run, NEW call, NEW a, Asks(x, call, a), Accounting(x)
  PROVE  Accounting(x)'
<1> SUFFICES ASSUME ~x.replay PROVE Accounting(x)'
  BY DEF Accounting
<1>1. Shape /\ Numbered(x) /\ Founded(x) /\ Recorded(x)  BY DEF Inv, RunInv
<1>2. /\ exec[x].pc \in {"list", "grep"} /\ exec'[x].pc # "none" /\ stepRows' = stepRows
      /\ IF exec[x].pc = "grep"
           THEN /\ exec'[x].findings = exec[x].findings \o Findings(call, a.data)
                /\ exec'[x].total = exec[x].total + (IF a.data.ok THEN MatchCount(a.data) ELSE 0)
           ELSE /\ call.tool = "fs.list_dir"
                /\ exec'[x].findings = exec[x].findings /\ exec'[x].total = exec[x].total
  BY DEF Asks
<1>3. Reports(x)' = {}
  <2>1. \A row \in stepRows[x] : ScanRow(row)  BY <1>1, <1>2 DEF Recorded, ReportRow
  <2>2. Reports(x) = {}  BY <2>1, NoReportYet
  <2>3. QED  BY <1>2, <2>2 DEF Reports
<1> DEFINE F   == exec[x].findings
           d   == a.data
           G   == Findings(call, d)
           n   == Len(toolRows[x]) + 1
           row == [seq |-> n, call |-> call, data |-> d]
           old == RecordedMatches(x)
           new == IF d.ok THEN MatchesOf(row, n) ELSE {}
<1>4. IsAnswer(call, d) /\ toolRows'[x] = Append(toolRows[x], row)
  BY <1>1, CallRecorded
<1>5. IsSeq(toolRows[x]) /\ IsSeq(F)  BY <1>1, <1>2 DEF Numbered, Founded
<1>6. Matched(old, F) /\ exec[x].total = Len(F)  BY <1>2 DEF Accounting, Tallied
<1>7. row.call = call /\ row.data = d  OBVIOUS
<1> HIDE DEF row
<1>8. RecordedMatches(x)' = old \cup new /\ old \cap new = {}
  <2>1. new = IF row.data.ok THEN MatchesOf(row, Len(toolRows[x]) + 1) ELSE {}  BY <1>7
  <2> HIDE DEF new
  <2>2. QED  BY <1>4, <1>5, <2>1, MatchesGrow
<1>9. /\ Matched(new, G) /\ IsSeq(G)
      /\ Len(G) = IF d.ok THEN MatchCount(d) ELSE 0
  <2>1. IsSeq(G) /\ (~d.ok => G = <<>>)  BY <1>4, FindingsSourced
  <2>2. CASE d.ok  BY <1>4, <1>7, <2>1, <2>2, NewMatched
  <2>3. CASE ~d.ok
    <3>1. new = {} /\ G = <<>> /\ Len(<<>>) = 0  BY <2>1, <2>3
    <3>2. QED  BY <2>1, <2>3, <3>1, NothingMatched
  <2>4. QED  BY <2>2, <2>3
<1>10. d.ok /\ call.tool = "fs.list_dir" => new = {}
  <2> SUFFICES ASSUME d.ok, call.tool = "fs.list_dir" PROVE new = {}
    OBVIOUS
  <2>1. d.matches = <<>>  BY <1>4, AnswerShape
  <2>2. DOMAIN row.data.matches = {}  BY <1>7, <2>1
  <2>3. QED  BY <2>2 DEF MatchesOf
<1>11. ~d.ok => new = {}  OBVIOUS
<1> HIDE DEF F, d, G, n, old, new
<1>12. Tallied(x)'
  <2>1. CASE exec[x].pc = "grep"
    <3>1. exec'[x].findings = F \o G /\ exec'[x].total = Len(F) + Len(G)
      BY <1>2, <1>6, <1>9, <2>1 DEF F, G, d
    <3>2. Len(F \o G) = Len(F) + Len(G)  BY <1>5, <1>9, Concatenation
    <3>3. Matched(old \cup new, F \o G)  BY <1>5, <1>6, <1>8, <1>9, MatchedJoin
    <3>4. QED  BY <1>8, <3>1, <3>2, <3>3 DEF Tallied
  <2>2. CASE exec[x].pc # "grep"
    <3>1. exec'[x].findings = F /\ exec'[x].total = Len(F) /\ new = {}
      BY <1>2, <1>6, <1>10, <1>11, <2>2 DEF F
    <3>2. RecordedMatches(x)' = old  BY <1>8, <3>1
    <3>3. QED  BY <1>6, <3>1, <3>2 DEF Tallied
  <2>3. QED  BY <2>1, <2>2
<1>13. QED  BY <1>3, <1>12 DEF Accounting

(* The analyzer accounts for the findings, and its report is stored.       *)
LEMMA ComputingAccounts ==
  ASSUME Inv, NEW x \in Run, Computes(x), Moves(x), Accounting(x)
  PROVE  Accounting(x)'
<1> SUFFICES ASSUME ~x.replay PROVE Accounting(x)'
  BY DEF Accounting
<1>1. Shape /\ Founded(x) /\ Recorded(x) /\ x \in DOMAIN stepRows  BY DEF Inv, RunInv, Shape
<1>2. exec[x].pc # "none" /\ exec'[x].pc # "none"  BY DEF Moves
<1>3. /\ toolRows' = toolRows /\ exec'[x].findings = exec[x].findings
      /\ exec'[x].total = exec[x].total
  BY DEF Computes
<1>4. RecordedMatches(x)' = RecordedMatches(x)  BY <1>3 DEF RecordedMatches
<1>5. Tallied(x)'  BY <1>2, <1>3, <1>4 DEF Accounting, Tallied
<1>6. ASSUME Reports(x)' \subseteq Reports(x) PROVE Accounting(x)'
  BY <1>4, <1>5, <1>6 DEF Accounting
<1>7. CASE stepRows' = stepRows  BY <1>6, <1>7 DEF Reports
<1>8. ASSUME NEW row, stepRows'[x] = stepRows[x] \cup {row}, ~IsReport(row)
      PROVE  Accounting(x)'
  BY <1>6, <1>8 DEF Reports
<1>9. ASSUME NEW attempt
      PROVE  /\ ~IsReport(StepRow("scan", attempt, "FAILED", ErrorText))
             /\ ~IsReport(StepRow("analyze", attempt, "FAILED", ErrorText))
             /\ ~IsReport(StepRow("scan", attempt, "SUCCEEDED",
                                  JSON(Scan(exec[x].files, exec[x].findings, exec[x].total))))
  BY DEF IsReport, StepRow, ErrorText, JSON, Scan
<1>10. ASSUME exec[x].pc = "analyze",
              stepRows'[x] = stepRows[x] \cup {StepRow("analyze", 1, "SUCCEEDED", JSON(exec[x].report))}
       PROVE  Accounting(x)'
  <2> DEFINE F == exec[x].findings
  <2>1. exec[x].report = Analyze(F, Len(F))
    BY <1>1, <1>2, <1>10 DEF Recorded, Accounting, Tallied
  <2>2. Matched(RecordedMatches(x), F) /\ IsSeq(F)
    BY <1>1, <1>2 DEF Accounting, Tallied, Founded
  <2>3. Accounts(RecordedMatches(x), exec[x].report)  BY <2>1, <2>2, AnalyzeAccounts
  <2>4. DOMAIN exec[x].report = ReportFields
    <3>1. exec[x].report = Analyze(exec[x].findings, exec[x].total)
      BY <1>1, <1>10 DEF Recorded
    <3>2. QED  BY <1>1, <1>2, <3>1, ReportGrounded
  <2>5. Accounts(RecordedMatches(x), JSON(exec[x].report))  BY <2>3, <2>4, StoredAccounts
  <2>6. \A report \in Reports(x)' : report \in Reports(x) \/ report = JSON(exec[x].report)
    BY <1>10 DEF Reports, StepRow
  <2>7. QED  BY <1>4, <1>5, <2>5, <2>6 DEF Accounting
<1>11. QED
  <2>1. CASE exec[x].pc \in {"spawned", "created", "complete", "fail"}
    BY <1>7, <2>1 DEF Moves
  <2>2. CASE exec[x].pc \in {"scan failed", "grep"}
    BY <1>1, <1>8, <1>9, <2>2 DEF Moves
  <2>3. CASE exec[x].pc = "analyze"
    BY <1>1, <1>8, <1>9, <1>10, <2>3 DEF Moves
  <2>4. QED  BY <2>1, <2>2, <2>3 DEF Moves

(* Every step keeps the account of every run.                              *)
LEMMA AccountingNext ==
  ASSUME Inv, [Next]_vars, \A x \in Run : Accounting(x)
  PROVE  (\A x \in Run : Accounting(x))'
<1> SUFFICES ASSUME NEW x \in Run PROVE Accounting(x)'
  OBVIOUS
<1>1. Spawns(x) \/ Works(x) \/ Rests(x)  BY EachRun
<1>2. CASE Spawns(x)  BY <1>2, SpawningAccounts
<1>3. CASE Rests(x)  BY <1>3, RestingAccounts
<1>4. ASSUME NEW call, NEW a, Asks(x, call, a) PROVE Accounting(x)'
  BY <1>4, AskingAccounts
<1>5. CASE Computes(x) /\ Moves(x)  BY <1>5, ComputingAccounts
<1>6. QED  BY <1>1, <1>2, <1>3, <1>4, <1>5 DEF Works

(* A report accounts for exactly what the rows of tool_calls of its run    *)
(* hold: it is the all-clear only if they hold no match, its counts are    *)
(* theirs, and what its evidence leaves out is no graver than what it      *)
(* shows - for all logs, keywords and limits, however the files change     *)
(* between the calls and wherever the process crashes.                     *)
THEOREM ReportsAccountForCalls == Spec => []ReportMatchesToolCalls
<1>1. Init => \A x \in Run : Accounting(x)
  BY DEF Init, NoExec, Accounting, Tallied, Reports
<1>2. Spec => [](\A x \in Run : Accounting(x))
  BY <1>1, AccountingNext, Invariant, PTL DEF Spec
<1>3. (\A x \in Run : Accounting(x)) => ReportMatchesToolCalls
  <2> SUFFICES ASSUME \A x \in Run : Accounting(x), NEW r \in Request,
                      NEW report \in Reports(Original(r))
               PROVE  Accounts(RecordedMatches(Original(r)), report)
    BY DEF ReportMatchesToolCalls, Accounts, RecordedWith
  <2>1. QED  BY RunsApart DEF Accounting
<1>4. QED  BY <1>2, <1>3, PTL
-----------------------------------------------------------------------------
(* The status is final, and runs are never forgotten.                      *)

(* Rows stay: a run is not forgotten, COMPLETED is final, steps are kept.  *)
LEMMA RowsStay ==
  ASSUME Inv, [Next]_vars, NEW x \in Run
  PROVE  /\ runRow[x] # "NONE" => runRow'[x] # "NONE"
         /\ runRow[x] = "COMPLETED" => runRow'[x] = "COMPLETED"
         /\ stepRows[x] \subseteq stepRows'[x]
<1>1. Life(x) /\ Shape /\ x \in DOMAIN stepRows /\ x \in DOMAIN runRow
  BY DEF Inv, RunInv, Shape
<1>2. CASE Spawns(x)  BY <1>2 DEF Spawns
<1>3. CASE Rests(x)  BY <1>3 DEF Rests
<1>4. ASSUME NEW call, NEW a, Asks(x, call, a)
      PROVE  runRow'[x] = runRow[x] /\ stepRows'[x] = stepRows[x]
  BY <1>4 DEF Asks
<1>5. CASE Moves(x)
  <2>1. runRow[x] # "COMPLETED" /\ runRow'[x] # "NONE"
    <3>1. runRow[x] # "COMPLETED" /\ (exec[x].pc # "spawned" => runRow[x] # "NONE")
      BY <1>1, <1>5 DEF Moves, Life
    <3>2. exec[x].pc = "spawned" => runRow'[x] # "NONE"  BY <1>1, <1>5 DEF Moves
    <3>3. exec[x].pc # "spawned" => runRow'[x] \in {runRow[x], "RUNNING", "COMPLETED", "FAILED"}
      BY <1>1, <1>5 DEF Moves
    <3>4. QED  BY <3>1, <3>2, <3>3
  <2>2. stepRows[x] \subseteq stepRows'[x]  BY <1>1, <1>5 DEF Moves
  <2>3. QED  BY <2>1, <2>2
<1>6. QED  BY <1>2, <1>3, <1>4, <1>5, EachRun DEF Works

(* The answers 202, the counters of the environment and the reader.        *)
Surroundings ==
  /\ accepted \subseteq Run /\ \A x \in accepted : runRow[x] # "NONE"
  /\ changes \in Nat /\ crashes \in Nat /\ changes + crashes <= MaxFaults
  /\ reader.at \in {"idle", "steps", "tools", "answer"}

(* A run is in the table when its request is answered, and from then on.   *)
LEMMA SurroundingsNext ==
  ASSUME Inv, Surroundings, [Next]_vars
  PROVE  accepted' \subseteq Run /\ \A x \in accepted' : runRow'[x] # "NONE"
<1>1. \A x \in accepted : runRow'[x] # "NONE"  BY RowsStay DEF Surroundings
<1>2. CASE accepted' = accepted  BY <1>1, <1>2 DEF Surroundings
<1>3. ASSUME NEW r \in Request, Accept(r)
      PROVE  accepted' \subseteq Run /\ \A x \in accepted' : runRow'[x] # "NONE"
  <2>1. /\ frontend = "http" /\ exec[Original(r)].pc # "none"
        /\ accepted' = accepted \cup {Original(r)} /\ runRow' = runRow
    BY <1>3 DEF Accept, At, tables
  <2>2. Original(r) \in Run /\ ~Original(r).replay  BY RunsApart
  <2>3. runRow[Original(r)] # "NONE"  BY <2>1, <2>2 DEF Inv, RunInv, Life
  <2>4. QED  BY <2>1, <2>2, <2>3 DEF Surroundings
<1>4. ASSUME NEW r \in Request, CreateRun(r) \/ AnalyzeLogs(r) \/ ReplayRun(r)
      PROVE  accepted' = accepted
  BY <1>4 DEF CreateRun, AnalyzeLogs, ReplayRun
<1>5. ASSUME NEW y \in Run, Step(y) PROVE accepted' = accepted
  BY <1>5, StepElsewhere DEF Inv
<1>6. CASE Metrics
  BY <1>2, <1>6 DEF Metrics, RequestMetrics, ReadSteps, ReadTools, RespondMetrics
<1>7. CASE ChangeFiles \/ Crash  BY <1>2, <1>7 DEF ChangeFiles, Crash
<1>8. CASE UNCHANGED vars  BY <1>2, <1>8 DEF vars
<1>9. QED  BY <1>2, <1>3, <1>4, <1>5, <1>6, <1>7, <1>8 DEF Next
-----------------------------------------------------------------------------
(* What the metrics count for a run whose rows are sound.                  *)

SoundRows(steps, outputs) == \A row \in steps : ScanRow(row) \/ ReportRow(row, outputs)

(* Each item of evidence is found again in the outputs of the tool calls.  *)
LEMMA AllGrounded ==
  ASSUME NEW x \in Run, NEW steps, SoundRows(steps, OkData(x))
  PROVE  GroundedItems(steps, Range(toolRows[x])) = EvidenceItems(steps)
<1> DEFINE calls   == Range(toolRows[x])
           outputs == {c.data : c \in {d \in calls : d.data.ok}}
<1>1. outputs = OkData(x)  BY DEF Range, OkData
<1>2. \A row \in steps : IsReport(row) => GroundingValid(row.output, outputs)
  BY <1>1 DEF SoundRows, IsReport, ScanRow, ReportRow
<1>3. \A row \in {s \in steps : IsReport(s)} :
        {j \in DOMAIN row.output.evidence : IsGrounded(row.output.evidence[j], outputs)}
          = DOMAIN row.output.evidence
  BY <1>2 DEF GroundingValid
<1>4. GroundedItems(steps, calls) =
        UNION {{<<row.step, row.attempt, k>> :
                  k \in {j \in DOMAIN row.output.evidence :
                           IsGrounded(row.output.evidence[j], outputs)}}
                 : row \in {s \in steps : IsReport(s)}}
  BY DEF GroundedItems
<1> HIDE DEF outputs
<1>5. QED  BY <1>3, <1>4 DEF EvidenceItems

(* Only one of the two steps can have rows that failed.                    *)
LEMMA AtMostOne ==
  ASSUME NEW S, S \subseteq {"scan"}
  PROVE  Cardinality(S) \in {0, 1}
<1>1. S = {} \/ S = {"scan"}  OBVIOUS
<1>2. Cardinality({}) = 0 /\ Cardinality({"scan"}) = 1  BY FS_EmptySet, FS_Singleton
<1>3. QED  BY <1>1, <1>2

(* A scan that succeeds in the end has repaired its failed attempts.       *)
LEMMA Repairs ==
  ASSUME NEW steps, NEW outputs, SoundRows(steps, outputs)
  PROVE  /\ Cardinality(Repairable(steps)) \in {0, 1} /\ Cardinality(Repaired(steps)) \in {0, 1}
         /\ (\E row \in steps : row.step = "scan" /\ row.status = "SUCCEEDED")
              => Repaired(steps) = Repairable(steps)
<1>1. Repairable(steps) \subseteq {"scan"}
  BY DEF Repairable, StepsWith, SoundRows, ScanRow, ReportRow
<1>2. Repaired(steps) \subseteq {"scan"}  BY <1>1 DEF Repaired
<1>3. ASSUME NEW row \in steps, row.step = "scan", row.status = "SUCCEEDED"
      PROVE  Repaired(steps) = Repairable(steps)
  <2>1. "scan" \in StepsWith(steps, "SUCCEEDED")  BY <1>3 DEF StepsWith
  <2>2. QED  BY <1>1, <2>1 DEF Repaired
<1>4. QED  BY <1>1, <1>2, <1>3, AtMostOne

(* The rows that make a run COMPLETED.                                     *)
Finished(steps) ==
  /\ \E row \in steps : row.step = "analyze"
  /\ \E row \in steps : row.step = "scan" /\ row.status = "SUCCEEDED"

ReaderFields == {"at", "todo", "status", "run", "steps", "totals"}

TotalFields == {"runs", "succeeded", "structured", "items", "grounded", "repairable", "repaired"}

(* The numbers, when "open" runs are yet to be counted.                    *)
Balanced(t, open) ==
  /\ DOMAIN t = TotalFields
  /\ t.grounded = t.items
  /\ t.runs \in Nat /\ t.succeeded \in Nat /\ t.structured \in Nat
  /\ t.repairable \in Nat /\ t.repaired \in Nat
  /\ t.succeeded <= t.structured
  /\ t.repairable + t.succeeded + open <= t.runs + t.repaired

(* Counting a run keeps the numbers balanced.                              *)
LEMMA CountsBalance ==
  ASSUME NEW x \in Run, NEW status, NEW steps, SoundRows(steps, OkData(x)),
         status = "COMPLETED" => Finished(steps),
         NEW t, NEW open \in Nat, Balanced(t, open + 1)
  PROVE  Balanced(Counted(t, status, steps, Range(toolRows[x])), open)
<1> DEFINE calls == Range(toolRows[x])
           items == Cardinality(EvidenceItems(steps))
           a == Indicator(status = "COMPLETED")
           b == Indicator(HasValidStructuredOutput(steps))
           c == Cardinality(Repairable(steps))
           d == Cardinality(Repaired(steps))
           new == Counted(t, status, steps, calls)
<1>1. Cardinality(GroundedItems(steps, calls)) = items  BY AllGrounded
<1>2. c \in {0, 1} /\ d \in {0, 1}  BY Repairs
<1>3. a \in {0, 1} /\ b \in {0, 1}  BY DEF Indicator
<1>4. a <= b /\ c + a <= d + 1
  <2>1. CASE status = "COMPLETED"
    <3>1. HasValidStructuredOutput(steps)
      BY <2>1 DEF Finished, HasValidStructuredOutput, IsReport, SoundRows, ScanRow, ReportRow
    <3>2. Repaired(steps) = Repairable(steps)  BY <2>1, Repairs DEF Finished
    <3>3. a = 1 /\ b = 1 /\ c = d  BY <2>1, <3>1, <3>2 DEF Indicator
    <3>4. QED  BY <1>2, <3>3
  <2>2. CASE status # "COMPLETED"
    <3>1. a = 0  BY <2>2 DEF Indicator
    <3> HIDE DEF a, b, c, d
    <3>2. QED  BY <1>2, <1>3, <3>1
  <2>3. QED  BY <2>1, <2>2
<1> DEFINE g == Cardinality(GroundedItems(steps, calls))
<1>5. new = [t EXCEPT !.succeeded = @ + a, !.structured = @ + b, !.items = @ + items,
                      !.grounded = @ + g, !.repairable = @ + c, !.repaired = @ + d]
  BY DEF Counted
<1> HIDE DEF a, b, c, d, items, g, calls, new
<1>6. DOMAIN t = TotalFields  BY DEF Balanced
<1>7. /\ DOMAIN new = TotalFields /\ new.runs = t.runs
      /\ new.succeeded = t.succeeded + a /\ new.structured = t.structured + b
      /\ new.items = t.items + items /\ new.grounded = t.grounded + g
      /\ new.repairable = t.repairable + c /\ new.repaired = t.repaired + d
  BY <1>5, <1>6 DEF TotalFields
<1>8. new.grounded = new.items  BY <1>1, <1>7 DEF Balanced, g, calls
<1>9. /\ new.runs \in Nat /\ new.succeeded \in Nat /\ new.structured \in Nat
      /\ new.repairable \in Nat /\ new.repaired \in Nat
      /\ new.succeeded <= new.structured
      /\ new.repairable + new.succeeded + open <= new.runs + new.repaired
  <2>1. /\ t.runs \in Nat /\ t.succeeded \in Nat /\ t.structured \in Nat
        /\ t.repairable \in Nat /\ t.repaired \in Nat /\ t.succeeded <= t.structured
        /\ t.repairable + t.succeeded + (open + 1) <= t.runs + t.repaired
    BY DEF Balanced
  <2>2. QED  BY <1>2, <1>3, <1>4, <1>7, <2>1
<1>10. QED  BY <1>7, <1>8, <1>9 DEF Balanced, new, calls
-----------------------------------------------------------------------------
(* Only finitely many runs are in the table, so they can be counted.       *)

(* Each step adds at most one run to the table.                            *)
LEMMA ListedFinite ==
  ASSUME Inv, IsFiniteSet(Listed), [Next]_vars
  PROVE  IsFiniteSet(Listed')
<1>1. runRow \in [Run -> Status] /\ Shape  BY DEF Inv, Shape
<1>2. ASSUME NEW y \in Run, \A x \in Run : x # y => runRow'[x] = runRow[x]
      PROVE  IsFiniteSet(Listed')
  <2>1. Listed' \subseteq Listed \cup {y}  BY <1>2 DEF Listed
  <2>2. IsFiniteSet(Listed \cup {y})  BY FS_AddElement
  <2>3. QED  BY <2>1, <2>2, FS_Subset
<1>3. CASE runRow' = runRow
  <2>1. Listed' = Listed  BY <1>3 DEF Listed
  <2>2. QED  BY <2>1
<1>4. ASSUME NEW r \in Request, CreateRun(r) PROVE IsFiniteSet(Listed')
  <2>1. runRow' = [runRow EXCEPT ![Original(r)] = "CREATED"]  BY <1>4 DEF CreateRun
  <2>2. \A x \in Run : x # Original(r) => runRow'[x] = runRow[x]  BY <1>1, <2>1
  <2>3. Original(r) \in Run  BY RunsApart
  <2>4. QED  BY <1>2, <2>2, <2>3
<1>5. ASSUME NEW r \in Request, Accept(r) \/ AnalyzeLogs(r) \/ ReplayRun(r)
      PROVE  runRow' = runRow
  BY <1>5 DEF Accept, AnalyzeLogs, ReplayRun, tables
<1>6. ASSUME NEW y \in Run, Step(y) PROVE \A x \in Run : x # y => runRow'[x] = runRow[x]
  BY <1>1, <1>6, StepElsewhere DEF Rests
<1>7. CASE Metrics
  BY <1>3, <1>7 DEF Metrics, RequestMetrics, ReadSteps, ReadTools, RespondMetrics, tables
<1>8. CASE ChangeFiles \/ Crash  BY <1>3, <1>8 DEF ChangeFiles, Crash, tables
<1>9. CASE UNCHANGED vars  BY <1>3, <1>9 DEF vars
<1>10. QED  BY <1>2, <1>3, <1>4, <1>5, <1>6, <1>7, <1>8, <1>9 DEF Next

(* What the reader has read: statuses that are final, rows that are still  *)
(* there, and numbers that balance.                                        *)
Open == Cardinality(reader.todo) + (IF reader.at = "tools" THEN 1 ELSE 0)

Reading ==
  /\ reader.at \in {"steps", "tools", "answer"} /\ DOMAIN reader = ReaderFields
  /\ reader.todo \subseteq Run /\ IsFiniteSet(reader.todo)
  /\ reader.at = "answer" => reader.todo = {}
  /\ \A x \in Run : reader.status[x] = "COMPLETED" => runRow[x] = "COMPLETED"
  /\ reader.at = "tools" =>
       /\ reader.run \in Run /\ reader.steps \subseteq stepRows[reader.run]
       /\ reader.status[reader.run] = "COMPLETED" => Finished(reader.steps)
  /\ Balanced(reader.totals, Open)

ReaderInv == (reader = NoReader \/ Reading) /\ IsFiniteSet(Listed)

(* While others write, what was read stays true.                           *)
LEMMA ReaderWaits ==
  ASSUME Inv, ReaderInv, [Next]_vars, reader' = reader
  PROVE  reader' = NoReader \/ Reading'
<1>1. SUFFICES ASSUME Reading PROVE Reading'  BY DEF ReaderInv
<1>2. Open' = Open  BY DEF Open
<1>3. Balanced(reader'.totals, Open')  BY <1>1, <1>2 DEF Reading
<1>4. \A x \in Run : reader.status[x] = "COMPLETED" => runRow'[x] = "COMPLETED"
  BY <1>1, RowsStay DEF Reading
<1>5. ASSUME reader.at = "tools" PROVE reader.steps \subseteq stepRows'[reader.run]
  BY <1>1, <1>5, RowsStay DEF Reading
<1>6. QED  BY <1>1, <1>3, <1>4, <1>5 DEF Reading

(* A request for metrics begins with all runs open.                        *)
LEMMA ReaderStarts ==
  ASSUME Inv, ReaderInv, RequestMetrics
  PROVE  Reading'
<1>1. PICK todo \in {Listed} \cup {{x} : x \in Listed} :
        /\ todo # {}
        /\ reader' = [at |-> "steps", todo |-> todo, status |-> runRow, run |-> NoExec,
                      steps |-> {}, totals |-> [Zero EXCEPT !.runs = Cardinality(todo)]]
  BY DEF RequestMetrics
<1>2. todo \subseteq Run /\ IsFiniteSet(todo) /\ Cardinality(todo) \in Nat
  BY <1>1, FS_Singleton, FS_CardinalityType DEF ReaderInv, Listed
<1> DEFINE n == Cardinality(todo)
           t == [Zero EXCEPT !.runs = n]
<1>3. n \in Nat  BY <1>2
<1> HIDE DEF n
<1>4. t = [runs |-> n, succeeded |-> 0, structured |-> 0, items |-> 0, grounded |-> 0,
           repairable |-> 0, repaired |-> 0]
  BY DEF Zero
<1>5. Balanced(t, n)  BY <1>3, <1>4 DEF Balanced, TotalFields
<1> HIDE DEF t
<1>6. /\ reader'.at = "steps" /\ DOMAIN reader' = ReaderFields /\ reader'.todo = todo
      /\ reader'.status = runRow /\ reader'.totals = t
  BY <1>1 DEF ReaderFields, t, n
<1>7. Open' = n
  <2>1. Open' = Cardinality(todo) + 0  BY <1>6 DEF Open
  <2>2. QED  BY <1>3, <2>1 DEF n
<1>8. runRow' = runRow  BY DEF RequestMetrics, tables
<1>9. QED  BY <1>2, <1>5, <1>6, <1>7, <1>8 DEF Reading

(* The steps are read when the status, read before, is final or open.      *)
LEMMA ReaderReads ==
  ASSUME Inv, ReaderInv, ReadSteps
  PROVE  Reading'
<1>1. PICK x \in reader.todo :
         reader' = [reader EXCEPT !.at = "tools", !.todo = @ \ {x}, !.run = x,
                                  !.steps = stepRows[x]]
  BY DEF ReadSteps
<1>2. reader.at = "steps" /\ Reading  BY DEF ReadSteps, ReaderInv, NoReader
<1>3. /\ reader'.at = "tools" /\ DOMAIN reader' = ReaderFields
      /\ reader'.todo = reader.todo \ {x} /\ reader'.run = x /\ reader'.steps = stepRows[x]
      /\ reader'.status = reader.status /\ reader'.totals = reader.totals
  BY <1>1, <1>2 DEF Reading, ReaderFields
<1>4. x \in Run /\ IsFiniteSet(reader.todo)  BY <1>2 DEF Reading
<1>5. Open' = Open
  <2>1. Cardinality(reader'.todo) = Cardinality(reader.todo) - 1
    BY <1>3, <1>4, FS_RemoveElement
  <2>2. Cardinality(reader.todo) \in Nat  BY <1>4, FS_CardinalityType
  <2>3. QED  BY <1>2, <1>3, <2>1, <2>2 DEF Open
<1>6. runRow' = runRow /\ stepRows' = stepRows  BY DEF ReadSteps, tables
<1>7. reader.status[x] = "COMPLETED" => Finished(stepRows[x])
  BY <1>2, <1>4 DEF Reading, Inv, RunInv, Recorded, Finished
<1>8. IsFiniteSet(reader'.todo) /\ reader'.todo \subseteq Run
  BY <1>2, <1>3, <1>4, FS_RemoveElement DEF Reading
<1>9. Balanced(reader'.totals, Open')  BY <1>2, <1>3, <1>5 DEF Reading
<1>10. QED  BY <1>2, <1>3, <1>4, <1>6, <1>7, <1>8, <1>9 DEF Reading

(* The tool calls are read later than the steps, and ground all of them.   *)
LEMMA ReaderCounts ==
  ASSUME Inv, ReaderInv, ReadTools
  PROVE  Reading'
<1> DEFINE x == reader.run
           t == Counted(reader.totals, reader.status[x], reader.steps, Range(toolRows[x]))
<1>1. reader' = [reader EXCEPT !.at = IF reader.todo = {} THEN "answer" ELSE "steps",
                               !.totals = t]
  BY DEF ReadTools
<1>2. reader.at = "tools" /\ Reading  BY DEF ReadTools, ReaderInv, NoReader
<1>3. /\ x \in Run /\ reader.steps \subseteq stepRows[x]
      /\ reader.status[x] = "COMPLETED" => Finished(reader.steps)
  BY <1>2 DEF Reading
<1>4. SoundRows(reader.steps, OkData(x))
  BY <1>3 DEF Inv, RunInv, Recorded, SoundRows
<1> DEFINE open == Cardinality(reader.todo)
<1>5. open \in Nat /\ Balanced(reader.totals, open + 1)
  BY <1>2, FS_CardinalityType DEF Reading, Open
<1> HIDE DEF open
<1>6. Balanced(t, open)  BY <1>3, <1>4, <1>5, CountsBalance
<1> HIDE DEF t, x
<1>7. /\ DOMAIN reader' = ReaderFields /\ reader'.todo = reader.todo
      /\ reader'.status = reader.status /\ reader'.totals = t
      /\ reader'.at \in {"steps", "answer"} /\ (reader'.at = "answer" => reader.todo = {})
  BY <1>1, <1>2 DEF Reading, ReaderFields
<1>8. Open' = open
  <2>1. Open' = Cardinality(reader.todo) + 0  BY <1>7 DEF Open
  <2>2. QED  BY <1>5, <2>1 DEF open
<1>9. runRow' = runRow  BY DEF ReadTools, tables
<1>10. QED  BY <1>2, <1>6, <1>7, <1>8, <1>9 DEF Reading

(* Every step of the system keeps what the reader has read true.           *)
LEMMA ReaderNext ==
  ASSUME Inv, ReaderInv, [Next]_vars
  PROVE  ReaderInv'
<1>1. IsFiniteSet(Listed')  BY ListedFinite DEF ReaderInv
<1>2. SUFFICES reader' = NoReader \/ Reading'  BY <1>1 DEF ReaderInv
<1>3. CASE reader' = reader  BY <1>3, ReaderWaits
<1>4. ASSUME NEW r \in Request, CreateRun(r) \/ Accept(r) \/ AnalyzeLogs(r) \/ ReplayRun(r)
      PROVE  reader' = reader
  BY <1>4 DEF CreateRun, Accept, AnalyzeLogs, ReplayRun
<1>5. ASSUME NEW y \in Run, Step(y) PROVE reader' = reader
  BY <1>5, StepElsewhere DEF Inv
<1>6. CASE Metrics
  BY <1>6, ReaderStarts, ReaderReads, ReaderCounts DEF Metrics, RespondMetrics
<1>7. CASE ChangeFiles  BY <1>3, <1>7 DEF ChangeFiles
<1>8. CASE Crash  BY <1>8 DEF Crash
<1>9. CASE UNCHANGED vars  BY <1>3, <1>9 DEF vars
<1>10. QED  BY <1>3, <1>4, <1>5, <1>6, <1>7, <1>8, <1>9 DEF Next

(* Nobody reads at first, and no run is listed.                            *)
LEMMA ReaderInitial ==
  ASSUME Init
  PROVE  ReaderInv
<1>1. Listed = {}  BY DEF Init, Listed
<1>2. QED  BY <1>1, FS_EmptySet DEF Init, ReaderInv

(* What the reader has read is sound in every reachable state.             *)
THEOREM ReaderInvariant == Spec => []ReaderInv
BY ReaderInitial, ReaderNext, Invariant, PTL DEF Spec

(* Metrics read while runs go on never take grounded evidence for a        *)
(* hallucination.                                                          *)
THEOREM NoHallucinationReported == Spec => []NoFalseHallucination
<1>1. ReaderInv => NoFalseHallucination
  BY DEF ReaderInv, Reading, Balanced, NoReader, NoFalseHallucination
<1>2. QED  BY <1>1, ReaderInvariant, PTL

(* The numbers of the metrics agree with each other, although they are     *)
(* read at different times.                                                *)
THEOREM MetricsAgree == Spec => []MetricsConsistent
<1>1. ASSUME ReaderInv PROVE MetricsConsistent
  <2> SUFFICES ASSUME reader.at = "answer"
               PROVE  /\ reader.totals.succeeded <= reader.totals.structured
                      /\ reader.totals.repairable - reader.totals.repaired
                           <= reader.totals.runs - reader.totals.succeeded
    BY DEF MetricsConsistent
  <2>1. Reading /\ reader.todo = {}  BY <1>1 DEF ReaderInv, NoReader, Reading
  <2>2. Open = 0  BY <2>1, FS_EmptySet DEF Open
  <2>3. Balanced(reader.totals, 0)  BY <2>1, <2>2 DEF Reading
  <2>4. QED  BY <2>3 DEF Balanced
<1>2. QED  BY <1>1, ReaderInvariant, PTL
-----------------------------------------------------------------------------
(* Types, answers and the life cycle.                                      *)

(* Crashes and changes are counted and bounded.                            *)
LEMMA CountersNext ==
  ASSUME Inv, Surroundings, [Next]_vars
  PROVE  changes' \in Nat /\ crashes' \in Nat /\ changes' + crashes' <= MaxFaults
<1>1. MaxFaults \in Nat  BY ServiceAssumption
<1>2. ASSUME NEW r \in Request, CreateRun(r) \/ Accept(r) \/ AnalyzeLogs(r) \/ ReplayRun(r)
      PROVE  changes' = changes /\ crashes' = crashes
  BY <1>2 DEF CreateRun, Accept, AnalyzeLogs, ReplayRun, environment
<1>3. ASSUME NEW y \in Run, Step(y) PROVE changes' = changes /\ crashes' = crashes
  BY <1>3, StepElsewhere DEF Inv, environment
<1>4. CASE Metrics
  BY <1>4 DEF Metrics, RequestMetrics, ReadSteps, ReadTools, RespondMetrics, environment,
              Surroundings
<1>5. CASE ChangeFiles  BY <1>1, <1>5 DEF ChangeFiles, Surroundings
<1>6. CASE Crash  BY <1>1, <1>6 DEF Crash, Surroundings
<1>7. CASE UNCHANGED vars  BY <1>7 DEF vars, Surroundings
<1>8. QED  BY <1>2, <1>3, <1>4, <1>5, <1>6, <1>7 DEF Next, Surroundings

(* Answers, counters and the stage of the reader, in reachable states.     *)
THEOREM SurroundingsInvariant == Spec => []Surroundings
<1>1. Init => Surroundings
  <2>1. MaxFaults \in Nat  BY ServiceAssumption
  <2>2. QED  BY <2>1 DEF Init, Surroundings, NoReader
<1>2. Inv /\ ReaderInv' /\ Surroundings /\ [Next]_vars => Surroundings'
  <2> SUFFICES ASSUME Inv, ReaderInv', Surroundings, [Next]_vars PROVE Surroundings'
    OBVIOUS
  <2>1. reader'.at \in {"idle", "steps", "tools", "answer"}
    BY DEF ReaderInv, Reading, NoReader
  <2>2. QED  BY <2>1, SurroundingsNext, CountersNext DEF Surroundings
<1>3. QED  BY <1>1, <1>2, Invariant, ReaderInvariant, PTL DEF Spec

(* A client that was told 202 finds its run, whenever it asks, also after  *)
(* a crash.                                                                *)
THEOREM AcceptedRunsAreKnown == Spec => []AcceptedIsKnown
<1>1. Surroundings => AcceptedIsKnown  BY DEF Surroundings, AcceptedIsKnown
<1>2. QED  BY <1>1, SurroundingsInvariant, PTL

(* The types; attempts stay within their bound and the tool calls of a run *)
(* are numbered without gaps, as many as the execution has counted.        *)
THEOREM TypesCorrect == Spec => []TypeOK
<1>1. ASSUME Inv, Surroundings PROVE TypeOK
  <2>1. /\ frontend \in Frontend /\ disk \in Disks /\ runRow \in [Run -> Status]
    BY <1>1 DEF Inv, Shape
  <2>2. ASSUME NEW x \in Run
        PROVE  /\ exec[x].pc \in PC
               /\ ~At(x, "none") => /\ exec[x].attempt \in 1 .. MaxAttempts
                                    /\ exec[x].seq = Len(toolRows[x]) \/ x.replay
               /\ \A row \in stepRows[x] : row.status \in {"SUCCEEDED", "FAILED"}
               /\ \A k \in DOMAIN toolRows[x] : toolRows[x][k].seq = k
    <3>1. exec[x].pc \in PC
      <4>1. exec[x] = NoExec \/ exec[x].pc \in PC  BY <1>1 DEF Inv, Shape
      <4>2. NoExec.pc \in PC  BY DEF NoExec, PC
      <4>3. QED  BY <4>1, <4>2
    <3>2. exec[x].pc # "none" => exec[x].attempt \in 1 .. MaxAttempts
      BY <1>1, Present DEF Inv
    <3>3. exec[x].pc # "none" => exec[x].seq = Len(toolRows[x]) \/ x.replay
      BY <1>1 DEF Inv, RunInv, Numbered
    <3>4. \A row \in stepRows[x] : row.status \in {"SUCCEEDED", "FAILED"}
      BY <1>1 DEF Inv, RunInv, Recorded, ScanRow, ReportRow
    <3>5. \A k \in DOMAIN toolRows[x] : toolRows[x][k].seq = k
      BY <1>1 DEF Inv, RunInv, Numbered
    <3>6. QED  BY <3>1, <3>2, <3>3, <3>4, <3>5 DEF At
  <2>3. QED  BY <1>1, <2>1, <2>2 DEF TypeOK, Surroundings
<1>2. QED  BY <1>1, Invariant, SurroundingsInvariant, PTL

(* One step of the system is, for each run, a step of its life cycle or    *)
(* none at all.                                                            *)
LEMMA LifecycleStep ==
  ASSUME Inv, [Next]_vars, NEW x \in Run
  PROVE  [Lifecycle(x)!Next]_<<runRow[x], Outcome(x)>>
<1> DEFINE was == Outcome(x)
           is  == Outcome(x)'
<1>1. Life(x) /\ Shape /\ x \in DOMAIN runRow  BY DEF Inv, RunInv, Shape
<1>2. CASE Spawns(x)
  <2>1. exec'[x].pc = "spawned" /\ exec[x].pc = "none"
    BY <1>2, SpawnedShape DEF Spawns, NoExec
  <2>2. was = "none" /\ is = "none"  BY <2>1 DEF Outcome, At
  <2>3. runRow[x] = "NONE" /\ runRow'[x] \in {"NONE", "CREATED"}  BY <1>2 DEF Spawns
  <2>4. QED  BY <2>2, <2>3 DEF Lifecycle!Next, Lifecycle!Create
<1>3. CASE Rests(x)
  <2>1. is = was  BY <1>3 DEF Rests, Outcome, At, NoExec
  <2>2. QED  BY <1>3, <2>1 DEF Rests
<1>4. CASE Works(x)
  <2>1. ASSUME NEW call, NEW a, Asks(x, call, a)
        PROVE  runRow'[x] = runRow[x] /\ was = "none" /\ is = "none"
    BY <2>1 DEF Asks, Outcome, At
  <2>2. CASE Moves(x)
    <3>1. CASE exec[x].pc = "spawned"
      <4>1. was = "none" /\ is = "none"  BY <2>2, <3>1 DEF Moves, Outcome, At
      <4>2. runRow'[x] = "CREATED" /\ runRow[x] \in {"NONE", "CREATED"}
        BY <1>1, <2>2, <3>1 DEF Moves, Life
      <4>3. QED  BY <4>1, <4>2 DEF Lifecycle!Next, Lifecycle!Create
    <3>2. CASE exec[x].pc = "created"
      <4>1. was = "none" /\ is = "none"  BY <2>2, <3>2 DEF Moves, Outcome, At
      <4>2. runRow'[x] = "RUNNING" /\ runRow[x] = "CREATED"
        BY <1>1, <2>2, <3>2 DEF Moves, Life
      <4>3. QED  BY <4>1, <4>2 DEF Lifecycle!Next, Lifecycle!Start
    <3>3. CASE exec[x].pc \in {"scan failed", "grep", "analyze"}
      <4>1. was = "none" /\ is = "none"  BY <2>2, <3>3 DEF Moves, Outcome, At
      <4>2. runRow'[x] = runRow[x]  BY <1>1, <2>2, <3>3 DEF Moves
      <4>3. QED  BY <4>1, <4>2
    <3>4. CASE exec[x].pc = "complete"
      <4>1. /\ exec'[x].pc = "returned" /\ exec'[x].reply = FormatReport(exec[x].report)
            /\ runRow'[x] = "COMPLETED" /\ runRow[x] = "RUNNING"
        BY <1>1, <2>2, <3>4 DEF Moves, Life
      <4>2. exec'[x].reply.kind = "text"  BY <4>1 DEF FormatReport
      <4>3. was = "none" /\ is = "succeeded"  BY <3>4, <4>1, <4>2 DEF Outcome, At
      <4>4. QED  BY <4>1, <4>3 DEF Lifecycle!Next, Lifecycle!Complete
    <3>5. CASE exec[x].pc = "fail"
      <4>1. /\ exec'[x].pc = "returned" /\ exec'[x].reply.kind = "error"
            /\ runRow'[x] = "FAILED" /\ runRow[x] = "RUNNING"
        BY <1>1, <2>2, <3>5 DEF Moves, Life, ErrorReply
      <4>2. was = "none" /\ is = "failed"  BY <3>5, <4>1 DEF Outcome, At
      <4>3. QED  BY <4>1, <4>2 DEF Lifecycle!Next, Lifecycle!Fail
    <3>6. exec[x].pc \in {"spawned", "created", "scan failed", "grep", "analyze", "complete",
                          "fail"}
      BY <2>2 DEF Moves
    <3>7. QED  BY <3>1, <3>2, <3>3, <3>4, <3>5, <3>6
  <2>3. QED  BY <1>4, <2>1, <2>2 DEF Works
<1>5. QED  BY <1>2, <1>3, <1>4, EachRun

(* Each run follows RunLifecycle, across requests, replays and crashes.    *)
THEOREM RunsFollowLifecycle == Spec => LifecycleSpec
<1>1. ASSUME Init, NEW x \in Run PROVE Lifecycle(x)!Init
  BY <1>1 DEF Init, NoExec, Outcome, At, Lifecycle!Init
<1>2. Init => \A x \in Run : Lifecycle(x)!Init  BY <1>1
<1>3. Inv /\ [Next]_vars =>
        [\A x \in Run : [Lifecycle(x)!Next]_<<runRow[x], Outcome(x)>>]_vars
  BY LifecycleStep
<1>4. QED  BY <1>2, <1>3, Invariant, PTL DEF Spec, LifecycleSpec
=============================================================================
