------------------------------ MODULE MvsProofs ------------------------------
(***************************************************************************)
(* Proofs about Mvs, for every content of the module proxy, every query,   *)
(* every order in which the files are read and every set of requests that  *)
(* fail.                                                                   *)
(***************************************************************************)
EXTENDS Mvs, TLAPS

-----------------------------------------------------------------------------
(***************************************************************************)
(* What a go.mod file requires, and how versions compare.                  *)
(***************************************************************************)
LEMMA RequiresCoords ==
    ASSUME NEW text \in Seq(Line)
    PROVE  Requires(text) \subseteq Coord
<1> SUFFICES ASSUME NEW i \in RequireLines(text)
             PROVE  text[i].mod \in Module /\ text[i].ver \in Version
    BY DEF Requires, Coord
<1>1. i \in DOMAIN text /\ text[i].kind \in {"require", "entry"} /\ text[i].ver # NoVersion
    BY DEF RequireLines
<1>2. text[i] \in Line
    BY <1>1
<1>3. text[i] \in [kind: {"require", "entry"}, mod: Module, ver: Version \cup {NoVersion},
                   indirect: BOOLEAN]
    BY <1>1, <1>2 DEF Line
<1>. QED
    BY <1>1, <1>3

LEMMA Inputs ==
    ASSUME TypeOK
    PROVE  /\ \A c \in DOMAIN Text[world] : c \in Coord /\ ReqsOf(c) \subseteq Coord
           /\ query.version \in Version /\ Requires(query.text) \subseteq Coord
<1>1. ASSUME NEW c \in DOMAIN Text[world] PROVE c \in Coord /\ ReqsOf(c) \subseteq Coord
  <2>1. c \in Coord /\ Text[world][c] \in Seq(Line)
      BY MvsAssumption DEF TypeOK
  <2>. QED
      BY <2>1, RequiresCoords DEF ReqsOf
<1>2. query.version \in Version /\ query.text \in Seq(Line)
    BY MvsAssumption DEF TypeOK
<1>. QED
    BY <1>1, <1>2, RequiresCoords

\* What a higher version covers.
LEMMA LessCovers ==
    ASSUME NEW a \in Version, NEW b \in Version, NEW c \in Version, Less(a, b), ~Less(a, c)
    PROVE  ~Less(b, c)
<1>1. Rank[a] \in Nat /\ Rank[b] \in Nat /\ Rank[c] \in Nat
    BY MvsAssumption
<1>. QED
    BY <1>1 DEF Less

\* A selection that counts the requirements R: it keeps or raises each module's
\* version, to one required in R, and is nowhere below R.
Raises(f, R) ==
    /\ f \in [Module -> Version \cup {NoVersion}]
    /\ \A m \in Module : f[m] = selected[m] \/ <<m, f[m]>> \in R
    /\ \A m \in Module : selected[m] # NoVersion =>
          f[m] # NoVersion /\ (f[m] = selected[m] \/ Less(selected[m], f[m]))
    /\ \A c \in R : f[c[1]] # NoVersion /\ ~Less(f[c[1]], c[2])

LEMMA RaisedRaises ==
    ASSUME TypeOK, NEW R \in SUBSET Coord, NEW f \in Raised(R)
    PROVE  Raises(f, R)
<1>. DEFINE rising     == {m \in Module : Above(m, R) # {}}
            highest(m) == {v \in Above(m, R) : \A u \in Above(m, R) : ~Less(v, u)}
            choices    == {g \in [rising -> {c[2] : c \in R}] : \A m \in rising : g[m] \in highest(m)}
            raised(g)  == [m \in Module |-> IF m \in rising THEN g[m] ELSE selected[m]]
<1>0. selected \in [Module -> Version \cup {NoVersion}] /\ NoVersion \notin Version
    BY MvsAssumption DEF TypeOK
<1>1. \E g \in choices : f = raised(g)
  <2>1. Raised(R) = {raised(g) : g \in choices}
      BY Zenon DEF Raised
  <2>. HIDE DEF raised, choices
  <2>. QED
      BY <2>1
<1>2. PICK g \in [rising -> {c[2] : c \in R}] :
          /\ \A m \in rising : g[m] \in highest(m)
          /\ f = [m \in Module |-> IF m \in rising THEN g[m] ELSE selected[m]]
  <2>. HIDE DEF rising, highest
  <2>. QED
      BY <1>1
<1>. HIDE DEF rising, highest
<1>3. ASSUME NEW m \in Module, m \in rising
      PROVE  /\ f[m] \in Version /\ <<m, f[m]>> \in R
             /\ selected[m] # NoVersion => Less(selected[m], f[m])
             /\ \A u \in Above(m, R) : ~Less(f[m], u)
  <2>1. f[m] \in highest(m)
      BY <1>2, <1>3
  <2>. QED
      BY <2>1 DEF highest, Above
<1>4. ASSUME NEW m \in Module, m \notin rising
      PROVE  f[m] = selected[m] /\ Above(m, R) = {}
    BY <1>2, <1>4 DEF rising
<1>5. f \in [Module -> Version \cup {NoVersion}]
    BY <1>0, <1>2, <1>3, <1>4
<1>6. ASSUME NEW m \in Module
      PROVE  /\ f[m] = selected[m] \/ <<m, f[m]>> \in R
             /\ selected[m] # NoVersion =>
                   f[m] # NoVersion /\ (f[m] = selected[m] \/ Less(selected[m], f[m]))
    BY <1>0, <1>3, <1>4
<1>7. ASSUME NEW c \in R
      PROVE  f[c[1]] # NoVersion /\ ~Less(f[c[1]], c[2])
  <2>. DEFINE m == c[1]
              v == c[2]
  <2>1. m \in Module /\ v \in Version /\ <<m, v>> \in R
      BY DEF Coord
  <2>2. CASE v \in Above(m, R)
    <3>1. m \in rising
        BY <2>1, <2>2 DEF rising
    <3>. QED
        BY <1>0, <1>3, <2>1, <2>2, <3>1
  <2>3. CASE v \notin Above(m, R)
    <3>1. selected[m] # NoVersion /\ ~Less(selected[m], v)
        BY <2>1, <2>3 DEF Above
    <3>2. selected[m] \in Version
        BY <1>0, <2>1, <3>1
    <3>3. CASE m \in rising
      <4>1. f[m] \in Version /\ Less(selected[m], f[m])
          BY <1>3, <2>1, <3>1, <3>3
      <4>2. ~Less(f[m], v)
          BY <2>1, <3>1, <3>2, <4>1, LessCovers
      <4>. QED
          BY <1>0, <4>1, <4>2
    <3>4. CASE m \notin rising
        BY <1>4, <2>1, <3>1, <3>4
    <3>. QED
        BY <3>3, <3>4
  <2>. QED
      BY <2>2, <2>3
<1>. QED
    BY <1>5, <1>6, <1>7 DEF Raises

-----------------------------------------------------------------------------
(***************************************************************************)
(* The least closed set.                                                   *)
(***************************************************************************)
LEMMA LeastHolds ==
    ASSUME NEW M, NEW needs, NEW S \in SUBSET M
    PROVE  S \subseteq Least(M, needs, S) /\ Least(M, needs, S) \subseteq M
BY DEF Least

LEMMA LeastStep ==
    ASSUME NEW M, NEW needs, NEW S, NEW c \in Least(M, needs, S), NEW d \in needs[c], d \in M
    PROVE  d \in Least(M, needs, S)
BY DEF Least

LEMMA LeastWithin ==
    ASSUME NEW M, NEW needs, NEW S, NEW T \in SUBSET M, S \subseteq T,
           \A c \in T : needs[c] \subseteq T
    PROVE  Least(M, needs, S) \subseteq T
BY DEF Least

LEMMA LeastGrows ==
    ASSUME NEW M, NEW needs, NEW more, NEW S, NEW R,
           S \subseteq R, \A c \in M : needs[c] \subseteq more[c]
    PROVE  Least(M, needs, S) \subseteq Least(M, more, R)
BY DEF Least

-----------------------------------------------------------------------------
(***************************************************************************)
(* A request.                                                              *)
(***************************************************************************)

\* The outcomes known so far stay; what is asked for now has one.
Asks(c, o) ==
    /\ read' \in [Coord -> Outcome \cup {"unasked"}]
    /\ unread' \in [Module -> Version \cup {NoVersion}]
    /\ read'[c] = o /\ o \in Outcome
    /\ o = "read" => c \in DOMAIN Text[world]
    /\ \A d \in Coord : d # c \/ read[d] # "unasked" => read'[d] = read[d]

LEMMA FetchAsks ==
    ASSUME TypeOK, ReadsRemembered, NEW c \in Coord, NEW o, Fetch(c, o)
    PROVE  Asks(c, o)
<1>1. c[1] \in Module /\ c[2] \in Version
    BY DEF Coord
<1>2. read \in [Coord -> Outcome \cup {"unasked"}] /\ unread \in [Module -> Version \cup {NoVersion}]
    BY DEF TypeOK
<1>3. o \in Outcome /\ (o = "read" => c \in DOMAIN Text[world])
    BY <1>2 DEF Fetch, Outcomes, Outcome, ReadsRemembered
<1>4. read[c] # "unasked" => o = read[c]
    BY DEF Fetch, Outcomes
<1>. QED
    BY <1>1, <1>2, <1>3, <1>4 DEF Fetch, Asks

\* A failed request is remembered by its module, at a version that failed.
LEMMA FetchRemembers ==
    ASSUME TypeOK, ReadsRemembered, NEW c \in Coord, NEW o, Fetch(c, o), world' = world
    PROVE  /\ \A d \in Coord : /\ read'[d] = "read" => d \in DOMAIN Text[world]
                               /\ read'[d] = "failed" => unread'[d[1]] # NoVersion
           /\ \A m \in Module : unread'[m] # NoVersion => read'[<<m, unread'[m]>>] = "failed"
<1>1. Asks(c, o)
    BY FetchAsks
<1>2. unread \in [Module -> Version \cup {NoVersion}] /\ NoVersion \notin Version
    BY MvsAssumption DEF TypeOK
<1>3. unread' = [unread EXCEPT ![c[1]] = IF o = "failed" /\ unread[c[1]] = NoVersion THEN c[2] ELSE unread[c[1]]]
    BY DEF Fetch
<1>4. c[1] \in Module /\ c[2] \in Version /\ c = <<c[1], c[2]>>
    BY DEF Coord
<1>5. ASSUME NEW d \in Coord
      PROVE  /\ read'[d] = "read" => d \in DOMAIN Text[world]
             /\ read'[d] = "failed" => unread'[d[1]] # NoVersion
  <2>1. d[1] \in Module
      BY DEF Coord
  <2>2. CASE d = c
      BY <1>1, <1>2, <1>3, <1>4, <2>2 DEF Asks
  <2>3. CASE d # c
    <3>1. read'[d] = read[d]
        BY <1>1, <2>3 DEF Asks
    <3>2. unread[d[1]] # NoVersion => unread'[d[1]] # NoVersion
        BY <1>2, <1>3, <1>4, <2>1
    <3>. QED
        BY <3>1, <3>2 DEF ReadsRemembered
  <2>. QED
      BY <2>2, <2>3
<1>6. ASSUME NEW m \in Module, unread'[m] # NoVersion
      PROVE  read'[<<m, unread'[m]>>] = "failed"
  <2>1. CASE unread'[m] = unread[m]
    <3>1. <<m, unread[m]>> \in Coord /\ read[<<m, unread[m]>>] = "failed"
        BY <1>2, <1>6, <2>1 DEF Coord, ReadsRemembered
    <3>. QED
        BY <1>1, <2>1, <3>1 DEF Asks
  <2>2. CASE unread'[m] # unread[m]
    <3>1. m = c[1] /\ unread'[m] = c[2] /\ o = "failed"
        BY <1>2, <1>3, <1>4, <2>2
    <3>. QED
        BY <1>1, <1>4, <3>1 DEF Asks
  <2>. QED
      BY <2>1, <2>2
<1>. QED
    BY <1>5, <1>6

-----------------------------------------------------------------------------
(***************************************************************************)
(* Reading one file of the worklist, in either mode.                       *)
(***************************************************************************)
LEMMA RecordEffects ==
    ASSUME TypeOK, NEW R \in SUBSET Coord, NEW u, NEW rest \in SUBSET seen, Record(R, u, rest)
    PROVE  /\ Raises(selected', R)
           /\ seen' = seen \cup (R \X {u})
           /\ work' \subseteq seen' /\ seen' \ work' \subseteq seen \ rest
<1>. DEFINE fresh == (R \X {u}) \ seen
<1>1. selected' \in Raised(R) /\ seen' = seen \cup fresh /\ work' = rest \cup fresh
    BY DEF Record
<1>2. Raises(selected', R)
    BY <1>1, RaisedRaises
<1>. QED
    BY <1>1, <1>2

\* The requirements that a read brought.
Gained(it) == IF read'[it[1]] = "read" THEN ReqsOf(it[1]) ELSE {}

Visits(it) ==
    /\ stage = "select"
    /\ UNCHANGED <<inputs, stage, rootReqs, pruned, answer>>
    /\ Asks(it[1], read'[it[1]])
    /\ Gained(it) \subseteq Coord
    /\ Raises(selected', Gained(it))
    /\ seen' = seen \cup (IF pruned /\ ~Expands(it) THEN {} ELSE Gained(it) \X {pruned})
    /\ work' \subseteq seen' /\ seen' \ work' \subseteq (seen \ work) \cup {it}

\* A file that is not there, or did not come, changes nothing but the worklist.
LEMMA NothingRaised ==
    ASSUME TypeOK
    PROVE  Raises(selected, {})
BY DEF TypeOK, Raises

LEMMA ItemTypes ==
    ASSUME TypeOK, NEW it \in work
    PROVE  it \in seen /\ it[1] \in Coord /\ it[1][1] \in Module /\ it[2] \in BOOLEAN /\ work \subseteq seen
BY DEF TypeOK, Item, Coord

LEMMA FullVisits ==
    ASSUME TypeOK, ReadsRemembered, NEW it \in work, ReadFull(it)
    PROVE  Visits(it)
<1>0. it \in seen /\ it[1] \in Coord /\ work \subseteq seen
    BY ItemTypes
<1>1. PICK o \in Outcomes(it[1]) :
          /\ Fetch(it[1], o)
          /\ IF o = "read" THEN Record(ReqsOf(it[1]), FALSE, work \ {it})
             ELSE work' = work \ {it} /\ UNCHANGED <<selected, seen>>
    BY DEF ReadFull
<1>2. Asks(it[1], o) /\ read'[it[1]] = o
    BY <1>0, <1>1, FetchAsks DEF Asks
<1>3. stage = "select" /\ pruned = FALSE /\ UNCHANGED <<inputs, stage, rootReqs, pruned, answer>>
    BY DEF ReadFull, TypeOK
<1>4. CASE o = "read"
  <2>1. ReqsOf(it[1]) \in SUBSET Coord /\ work \ {it} \in SUBSET seen
      BY <1>0, <1>2, <1>4, Inputs DEF Asks
  <2>2. /\ Raises(selected', ReqsOf(it[1]))
        /\ seen' = seen \cup (ReqsOf(it[1]) \X {FALSE})
        /\ work' \subseteq seen' /\ seen' \ work' \subseteq seen \ (work \ {it})
      BY <1>1, <1>4, <2>1, RecordEffects
  <2>3. Gained(it) = ReqsOf(it[1])
      BY <1>2, <1>4 DEF Gained
  <2>. QED
      BY <1>0, <1>2, <1>3, <2>1, <2>2, <2>3 DEF Visits
<1>5. CASE o # "read"
  <2>1. Gained(it) = {}
      BY <1>2, <1>5 DEF Gained
  <2>2. selected' = selected /\ seen' = seen /\ work' = work \ {it}
      BY <1>1, <1>5
  <2>3. Raises(selected', {})
      BY <2>2, NothingRaised DEF Raises
  <2>. QED
      BY <1>0, <1>2, <1>3, <2>1, <2>2, <2>3 DEF Visits
<1>. QED
    BY <1>4, <1>5

LEMMA PrunedVisits ==
    ASSUME TypeOK, ReadsRemembered, NEW it \in work, ReadPruned(it)
    PROVE  Visits(it)
<1>0. it \in seen /\ it[1] \in Coord /\ work \subseteq seen
    BY ItemTypes
<1>1. PICK o \in Outcomes(it[1]) :
          /\ Fetch(it[1], o)
          /\ CASE o # "read" -> work' = work \ {it} /\ UNCHANGED <<selected, seen>>
               [] o = "read" /\ Expands(it) -> Record(ReqsOf(it[1]), TRUE, work \ {it})
               [] o = "read" /\ ~Expands(it) ->
                    /\ selected' \in Raised(ReqsOf(it[1]))
                    /\ work' = work \ {it}
                    /\ UNCHANGED seen
    BY DEF ReadPruned
<1>2. Asks(it[1], o) /\ read'[it[1]] = o
    BY <1>0, <1>1, FetchAsks DEF Asks
<1>3. stage = "select" /\ pruned = TRUE /\ UNCHANGED <<inputs, stage, rootReqs, pruned, answer>>
    BY DEF ReadPruned, TypeOK
<1>4. CASE o = "read" /\ Expands(it)
  <2>1. ReqsOf(it[1]) \in SUBSET Coord /\ work \ {it} \in SUBSET seen
      BY <1>0, <1>2, <1>4, Inputs DEF Asks
  <2>2. /\ Raises(selected', ReqsOf(it[1]))
        /\ seen' = seen \cup (ReqsOf(it[1]) \X {TRUE})
        /\ work' \subseteq seen' /\ seen' \ work' \subseteq seen \ (work \ {it})
      BY <1>1, <1>4, <2>1, RecordEffects
  <2>3. Gained(it) = ReqsOf(it[1])
      BY <1>2, <1>4 DEF Gained
  <2>. QED
      BY <1>0, <1>2, <1>3, <1>4, <2>1, <2>2, <2>3 DEF Visits
<1>5. CASE o = "read" /\ ~Expands(it)
  <2>1. ReqsOf(it[1]) \in SUBSET Coord
      BY <1>2, <1>5, Inputs DEF Asks
  <2>2. selected' \in Raised(ReqsOf(it[1])) /\ seen' = seen /\ work' = work \ {it}
      BY <1>1, <1>5
  <2>3. Raises(selected', ReqsOf(it[1]))
      BY <2>1, <2>2, RaisedRaises
  <2>4. Gained(it) = ReqsOf(it[1])
      BY <1>2, <1>5 DEF Gained
  <2>. QED
      BY <1>0, <1>2, <1>3, <1>5, <2>1, <2>2, <2>3, <2>4 DEF Visits
<1>6. CASE o # "read"
  <2>1. Gained(it) = {}
      BY <1>2, <1>6 DEF Gained
  <2>2. selected' = selected /\ seen' = seen /\ work' = work \ {it}
      BY <1>1, <1>6
  <2>3. Raises(selected', {})
      BY <2>2, NothingRaised DEF Raises
  <2>. QED
      BY <1>0, <1>2, <1>3, <2>1, <2>2, <2>3 DEF Visits
<1>. QED
    BY <1>4, <1>5, <1>6

\* What a higher selection covers.
LEMMA CoversKept ==
    ASSUME TypeOK, NEW R, Raises(selected', R), NEW c \in Coord, Covers(c)
    PROVE  Covers(c)'
<1>1. c[1] \in Module /\ c[2] \in Version /\ NoVersion \notin Version
    BY MvsAssumption DEF Coord
<1>2. selected[c[1]] \in Version
    BY <1>1 DEF TypeOK, Covers
<1>3. selected'[c[1]] \in Version
    BY <1>1, <1>2 DEF Raises
<1>4. selected'[c[1]] = selected[c[1]] \/ Less(selected[c[1]], selected'[c[1]])
    BY <1>1, <1>2 DEF Raises
<1>5. ~Less(selected'[c[1]], c[2])
    BY <1>1, <1>2, <1>3, <1>4, LessCovers DEF Covers
<1>. QED
    BY <1>1, <1>3, <1>5 DEF Covers

LEMMA GainedCovers ==
    ASSUME NEW R, Raises(selected', R), NEW c \in R
    PROVE  Covers(c)'
BY DEF Raises, Covers

LEMMA VisitTypes ==
    ASSUME TypeOK, NEW it \in work, Visits(it)
    PROVE  TypeOK'
<1>1. seen' \subseteq Item
    BY DEF Visits, TypeOK, Item
<1>. QED
    BY <1>1 DEF Visits, TypeOK, Asks, Raises, inputs, answer

\* An item that was dealt with stays so: its file's outcome is known, and what
\* it requires is covered still.
LEMMA HandledKept ==
    ASSUME TypeOK, NEW it \in work, Visits(it), NEW j \in seen, Handled(j)
    PROVE  Handled(j)'
<1>1. j[1] \in Coord /\ it[1] \in Coord
    BY ItemTypes DEF TypeOK, Item
<1>2. read'[j[1]] = read[j[1]] /\ read[j[1]] # "unasked"
    BY <1>1 DEF Visits, Asks, Handled
<1>3. world' = world /\ pruned' = pruned /\ seen \subseteq seen'
    BY DEF Visits, inputs
<1>. SUFFICES ASSUME Readable(j[1]), NEW c \in ReqsOf(j[1])
              PROVE  /\ Covers(c)'
                     /\ ~pruned => <<c, FALSE>> \in seen'
                     /\ pruned /\ Expands(j) => <<c, TRUE>> \in seen'
    BY <1>2, <1>3 DEF Handled, Readable, ReqsOf, Expands
<1>4. c \in Coord
    BY Inputs DEF Readable
<1>5. Covers(c)'
    BY <1>4, CoversKept DEF Visits, Handled
<1>. QED
    BY <1>3, <1>5 DEF Handled

LEMMA VisitCovers ==
    ASSUME TypeOK, EverythingCovered, NEW it \in work, Visits(it)
    PROVE  EverythingCovered'
<1>0. it \in seen /\ it[1] \in Coord
    BY ItemTypes
<1>1. world' = world /\ pruned' = pruned /\ rootReqs' = rootReqs /\ stage' = stage /\ seen \subseteq seen'
    BY DEF Visits, inputs
<1>2. Selecting' => rootReqs' \subseteq Coord /\ \A c \in rootReqs' : <<c, FALSE>> \in seen'
    BY <1>1 DEF EverythingCovered, Selecting
<1>3. ASSUME NEW j \in seen' PROVE Covers(j[1])'
  <2>1. CASE j \in seen
    <3>1. j[1] \in Coord /\ Covers(j[1])
        BY <2>1 DEF TypeOK, Item, EverythingCovered
    <3>. QED
        BY <3>1, CoversKept DEF Visits
  <2>2. CASE j \notin seen
    <3>1. j[1] \in Gained(it)
        BY <2>2 DEF Visits
    <3>. QED
        BY <3>1, GainedCovers DEF Visits
  <2>. QED
      BY <2>1, <2>2
<1>4. ASSUME NEW j \in seen' \ work' PROVE Handled(j)'
  <2>1. CASE j = it
    <3>1. read'[it[1]] # "unasked"
        BY DEF Visits, Asks, Outcome
    <3>2. ASSUME Readable(it[1])', NEW c \in ReqsOf(it[1])
          PROVE  /\ Covers(c)'
                 /\ ~pruned => <<c, FALSE>> \in seen'
                 /\ pruned /\ Expands(it) => <<c, TRUE>> \in seen'
      <4>1. c \in Gained(it) /\ pruned \in BOOLEAN
          BY <3>2 DEF Readable, Gained, TypeOK
      <4>2. Covers(c)'
          BY <4>1, GainedCovers DEF Visits
      <4>3. ~(pruned /\ ~Expands(it)) => <<c, pruned>> \in seen'
          BY <4>1 DEF Visits
      <4>4. CASE pruned
          BY <4>1, <4>2, <4>3, <4>4
      <4>5. CASE ~pruned
          BY <4>1, <4>2, <4>3, <4>5
      <4>. QED
          BY <4>4, <4>5
    <3>. QED
        BY <1>1, <2>1, <3>1, <3>2 DEF Handled, ReqsOf, Expands
  <2>2. CASE j # it
    <3>1. j \in seen \ work
        BY <2>2 DEF Visits
    <3>. QED
        BY <3>1, HandledKept DEF EverythingCovered
  <2>. QED
      BY <2>1, <2>2
<1>. QED
    BY <1>2, <1>3, <1>4 DEF EverythingCovered

LEMMA VisitRemembers ==
    ASSUME TypeOK, EverythingCovered, ReadsRemembered, NEW it \in work, Visits(it), NEW o, Fetch(it[1], o)
    PROVE  ReadsRemembered'
<1>0. it \in seen /\ it[1] \in Coord /\ it[1][1] \in Module /\ world' = world
    BY ItemTypes DEF Visits, inputs
<1>1. /\ \A d \in Coord : /\ read'[d] = "read" => d \in DOMAIN Text[world]
                          /\ read'[d] = "failed" => unread'[d[1]] # NoVersion
      /\ \A m \in Module : unread'[m] # NoVersion => read'[<<m, unread'[m]>>] = "failed"
    BY <1>0, FetchRemembers
<1>2. ASSUME NEW d \in Coord, read'[d] # "unasked" PROVE d[1] = Main \/ selected'[d[1]] # NoVersion
  <2>1. d = it[1] \/ read[d] # "unasked"
      BY <1>0, <1>2 DEF Visits, Asks
  <2>2. d[1] \in Module
      BY DEF Coord
  <2>3. d[1] = Main \/ selected[d[1]] # NoVersion
      BY <1>0, <2>1 DEF EverythingCovered, Covers, ReadsRemembered
  <2>. QED
      BY <2>2, <2>3 DEF Visits, Raises
<1>. QED
    BY <1>0, <1>1, <1>2 DEF ReadsRemembered

-----------------------------------------------------------------------------
(***************************************************************************)
(* Which files count only grows with what was read.                        *)
(***************************************************************************)
ReadsGrow ==
    /\ world' = world /\ rootReqs' = rootReqs /\ pruned' = pruned
    /\ \A c \in Coord : read[c] # "unasked" => read'[c] = read[c]

LEMMA ReadableGrows ==
    ASSUME TypeOK, ReadsGrow, NEW c, Readable(c)
    PROVE  Readable(c)' /\ ReqsOf(c)' = ReqsOf(c)
<1>1. c \in Coord
    BY Inputs DEF Readable
<1>. QED
    BY <1>1 DEF ReadsGrow, Readable, ReqsOf

LEMMA MentionedKept ==
    ASSUME ReadsGrow
    PROVE  Mentioned' = Mentioned
BY DEF ReadsGrow, Mentioned, ReqsOf

LEMMA DemandsGrow ==
    ASSUME TypeOK, ReadsGrow, NEW c \in Mentioned
    PROVE  Demands[c] \subseteq Demands'[c]
<1>1. Demands[c] = RequiredBy({c})
    BY DEF Demands
<1>2. Demands'[c] = RequiredBy({c})'
    BY MentionedKept DEF Demands
<1>3. RequiredBy({c}) \subseteq RequiredBy({c})'
    BY ReadableGrows DEF RequiredBy
<1>. QED
    BY <1>1, <1>2, <1>3

LEMMA CountsGrow ==
    ASSUME TypeOK, ReadsGrow
    PROVE  /\ RequiredBy(rootReqs) \subseteq RequiredBy(rootReqs)'
           /\ BeneathOld \subseteq BeneathOld'
           /\ Counts \subseteq Counts'
<1>1. RequiredBy(rootReqs) \subseteq RequiredBy(rootReqs)'
    BY ReadableGrows DEF RequiredBy, ReadsGrow
<1>2. RequiredBy(OldRoots) \subseteq RequiredBy(OldRoots)'
  <2>1. OldRoots \subseteq OldRoots'
      BY ReadableGrows DEF OldRoots, ReadsGrow
  <2>. QED
      BY <2>1, ReadableGrows DEF RequiredBy
<1>3. BeneathOld \subseteq BeneathOld'
    BY <1>2, MentionedKept, DemandsGrow, LeastGrows DEF BeneathOld, Reaches
<1>4. Reaches(rootReqs) \subseteq Reaches(rootReqs)'
  <2>1. rootReqs \subseteq rootReqs'
      BY DEF ReadsGrow
  <2>. QED
      BY <2>1, MentionedKept, DemandsGrow, LeastGrows DEF Reaches
<1>. QED
    BY <1>1, <1>3, <1>4 DEF Counts, ReadsGrow

LEMMA VisitGrows ==
    ASSUME TypeOK, NEW it \in work, Visits(it)
    PROVE  ReadsGrow
BY DEF Visits, ReadsGrow, Asks, inputs

\* What a read brought counts from then on, as the file it was read from did.
LEMMA GainedCounts ==
    ASSUME TypeOK, NothingElseCounts, NEW it \in work, Visits(it), NEW c \in Gained(it)
    PROVE  /\ c \in Counts'
           /\ pruned /\ Expands(it) => c \in BeneathOld'
<1>0. it \in seen /\ it[1] \in Coord /\ pruned \in BOOLEAN
    BY ItemTypes DEF TypeOK
<1>1. ReadsGrow
    BY VisitGrows
<1>2. world' = world /\ rootReqs' = rootReqs /\ pruned' = pruned
    BY <1>1 DEF ReadsGrow
<1>3. Readable(it[1])' /\ c \in ReqsOf(it[1])'
  <2>1. read'[it[1]] = "read" /\ c \in ReqsOf(it[1])
      BY DEF Gained
  <2>2. it[1] \in DOMAIN Text[world]
      BY <2>1 DEF Visits, Asks
  <2>. QED
      BY <1>2, <2>1, <2>2 DEF Readable, ReqsOf
<1>4. c \in Mentioned'
    BY <1>3 DEF Mentioned, Readable
<1>5. it[1] \in Mentioned' => c \in Demands'[it[1]]
    BY <1>3 DEF Demands, RequiredBy
<1>6. ASSUME NEW S, it[1] \in Least(Mentioned', Demands', S)
      PROVE  c \in Least(Mentioned', Demands', S)
  <2>1. it[1] \in Mentioned'
      BY <1>6 DEF Least
  <2>. QED
      BY <1>4, <1>5, <1>6, <2>1, LeastStep
<1>7. CASE ~pruned
  <2>1. it[1] \in Counts'
      BY <1>0, <1>1, <1>7, CountsGrow DEF NothingElseCounts
  <2>2. Counts' = Least(Mentioned', Demands', rootReqs')
      BY <1>2, <1>7 DEF Counts, Reaches
  <2>. QED
      BY <1>6, <1>7, <2>1, <2>2
<1>8. CASE pruned /\ it[2]
  <2>1. it[1] \in BeneathOld'
      BY <1>0, <1>1, <1>8, CountsGrow DEF NothingElseCounts
  <2>2. c \in BeneathOld'
      BY <1>6, <2>1 DEF BeneathOld, Reaches
  <2>. QED
      BY <1>2, <1>8, <2>2 DEF Counts
<1>9. CASE pruned /\ ~it[2]
  <2>1. it[1] \in rootReqs'
      BY <1>0, <1>2, <1>9 DEF NothingElseCounts
  <2>2. c \in RequiredBy(rootReqs)'
      BY <1>3, <2>1 DEF RequiredBy
  <2>3. ASSUME Expands(it) PROVE c \in BeneathOld'
    <3>1. it[1] \in OldRoots'
        BY <1>2, <1>3, <1>9, <2>1, <2>3 DEF OldRoots, Expands
    <3>2. c \in RequiredBy(OldRoots)'
        BY <1>3, <3>1 DEF RequiredBy
    <3>3. RequiredBy(OldRoots)' \subseteq Mentioned'
        BY DEF RequiredBy, Mentioned, Readable
    <3>. QED
        BY <3>2, <3>3, LeastHolds DEF BeneathOld, Reaches
  <2>. QED
      BY <1>2, <1>9, <2>2, <2>3 DEF Counts
<1>. QED
    BY <1>7, <1>8, <1>9

LEMMA VisitCounts ==
    ASSUME TypeOK, NothingElseCounts, NEW it \in work, Visits(it)
    PROVE  NothingElseCounts'
<1>0. it \in seen /\ pruned \in BOOLEAN
    BY ItemTypes DEF TypeOK
<1>1. ReadsGrow
    BY VisitGrows
<1>2. /\ Counts \subseteq Counts' /\ BeneathOld \subseteq BeneathOld'
      /\ rootReqs' = rootReqs /\ pruned' = pruned /\ seen \subseteq seen'
    BY <1>1, CountsGrow DEF ReadsGrow, Visits
<1>3. ASSUME NEW j \in seen'
      PROVE  IF pruned THEN IF j[2] THEN j[1] \in BeneathOld' ELSE j[1] \in rootReqs
             ELSE ~j[2] /\ j[1] \in Counts'
  <2>1. CASE j \in seen
      BY <1>2, <2>1 DEF NothingElseCounts
  <2>2. CASE j \notin seen
    <3>1. ~(pruned /\ ~Expands(it)) /\ j[1] \in Gained(it) /\ j[2] = pruned
        BY <2>2 DEF Visits
    <3>2. j[1] \in Counts' /\ (pruned /\ Expands(it) => j[1] \in BeneathOld')
        BY <3>1, GainedCounts
    <3>. QED
        BY <1>0, <3>1, <3>2
  <2>. QED
      BY <2>1, <2>2
<1>4. ASSUME NEW m \in Module, selected'[m] # NoVersion
      PROVE  /\ <<m, selected'[m]>> \in Counts'
             /\ ~pruned => <<<<m, selected'[m]>>, FALSE>> \in seen'
  <2>1. CASE selected'[m] = selected[m]
      BY <1>2, <1>4, <2>1 DEF NothingElseCounts
  <2>2. CASE <<m, selected'[m]>> \in Gained(it)
    <3>1. ~pruned => seen' = seen \cup (Gained(it) \X {FALSE})
        BY <1>0 DEF Visits
    <3>. QED
        BY <2>2, <3>1, GainedCounts
  <2>. QED
      BY <2>1, <2>2 DEF Visits, Raises
<1>. QED
    BY <1>2, <1>3, <1>4 DEF NothingElseCounts

-----------------------------------------------------------------------------
(***************************************************************************)
(* The steps around the selection.                                         *)
(***************************************************************************)

\* Nothing is selected before a resolution starts.
Blank ==
    /\ stage \in {"asked", "declined"}
    /\ seen = {} /\ todo = {} /\ edges = {} /\ report = {}
    /\ selected = [m \in Module |-> NoVersion]

LEMMA SeedStarts ==
    ASSUME TypeOK, Blank, NEW text, Requires(text) \subseteq Coord, NEW p \in BOOLEAN, Seed(text, p),
           world' = world
    PROVE  /\ stage' = "select" /\ pruned' = p /\ rootReqs' \subseteq Coord
           /\ selected' \in [Module -> Version \cup {NoVersion}]
           /\ seen' \subseteq Item /\ work' \subseteq seen'
           /\ EverythingCovered' /\ NothingElseCounts'
<1>. DEFINE R == Requires(text)
<1>1. /\ stage' = "select" /\ rootReqs' = R /\ pruned' = p /\ Record(R, FALSE, {})
    BY DEF Seed
<1>2. Raises(selected', R) /\ seen' = R \X {FALSE} /\ work' \subseteq seen' /\ seen' \ work' = {}
  <2>1. R \in SUBSET Coord /\ {} \in SUBSET seen /\ seen = {}
      BY DEF Blank
  <2>. HIDE DEF R
  <2>2. /\ Raises(selected', R)
        /\ seen' = seen \cup (R \X {FALSE})
        /\ work' \subseteq seen' /\ seen' \ work' \subseteq seen \ {}
      BY <1>1, <2>1, RecordEffects
  <2>. QED
      BY <2>1, <2>2
<1>. HIDE DEF R
<1>3. EverythingCovered'
    BY <1>1, <1>2, GainedCovers DEF EverythingCovered, R
<1>4. R \subseteq Counts'
  <2>1. R \in SUBSET Mentioned'
      BY <1>1 DEF Mentioned
  <2>2. R \subseteq Reaches(rootReqs)'
      BY <1>1, <2>1, LeastHolds DEF Reaches
  <2>. QED
      BY <1>1, <2>2 DEF Counts
<1>5. \A m \in Module : selected'[m] # NoVersion => <<m, selected'[m]>> \in R
    BY <1>2 DEF Raises, Blank
<1>6. NothingElseCounts'
    BY <1>1, <1>2, <1>4, <1>5 DEF NothingElseCounts
<1>7. seen' \subseteq Item
    BY <1>2 DEF R, Item
<1>. QED
    BY <1>1, <1>2, <1>3, <1>6, <1>7 DEF R, Raises

\* Requests of the main module's own file, before anything is selected.
LEMMA BlankReads ==
    ASSUME TypeOK, Blank, ReadsRemembered, NEW c \in Coord, c[1] = Main, NEW o, Fetch(c, o), world' = world
    PROVE  ReadsRemembered'
<1>1. ASSUME NEW d \in Coord, read'[d] # "unasked" PROVE d[1] = Main
  <2>1. d = c \/ read[d] # "unasked"
      BY <1>1, FetchAsks DEF Asks
  <2>. QED
      BY <2>1 DEF Blank, ReadsRemembered, Coord
<1>. QED
    BY <1>1, FetchRemembers DEF ReadsRemembered

LEMMA ResolveInvariant ==
    ASSUME IInv, Resolve
    PROVE  IInv'
<1>. DEFINE c == <<Main, query.version>>
<1>0. TypeOK /\ ReadsRemembered /\ Blank
    BY DEF IInv, Blank, Resolve
<1>1. c \in Coord /\ c[1] = Main
    BY <1>0, Inputs, MvsAssumption DEF Coord
<1>2. PICK o \in Outcomes(c) :
          /\ Fetch(c, o)
          /\ IF o = "read" THEN Seed(Text[world][c], HasPrunedModuleGraph(Text[world][c]))
             ELSE stage' = "declined" /\ UNCHANGED selection
    BY DEF Resolve
<1>3. world' = world /\ query' = query /\ UNCHANGED answer
    BY DEF Resolve, inputs
<1>. HIDE DEF c
<1>4. Asks(c, o) /\ ReadsRemembered'
    BY <1>0, <1>1, <1>2, <1>3, FetchAsks, BlankReads
<1>5. /\ todo' = {} /\ edges' = {} /\ report' = {}
    BY <1>0, <1>3 DEF answer, Blank
<1>6. CASE o = "read"
  <2>1. c \in DOMAIN Text[world]
      BY <1>4, <1>6 DEF Asks
  <2>2. Requires(Text[world][c]) \subseteq Coord
      BY <1>0, <2>1, Inputs DEF ReqsOf
  <2>3. HasPrunedModuleGraph(Text[world][c]) \in BOOLEAN
      BY DEF HasPrunedModuleGraph
  <2>4. /\ stage' = "select" /\ pruned' \in BOOLEAN /\ rootReqs' \subseteq Coord
        /\ selected' \in [Module -> Version \cup {NoVersion}]
        /\ seen' \subseteq Item /\ work' \subseteq seen'
        /\ EverythingCovered' /\ NothingElseCounts'
      BY <1>0, <1>2, <1>3, <1>6, <2>2, <2>3, SeedStarts
  <2>5. TypeOK'
      BY <1>0, <1>3, <1>4, <1>5, <2>4 DEF TypeOK, Asks
  <2>. QED
      BY <1>4, <1>5, <2>4, <2>5 DEF IInv, EdgesFound
<1>7. CASE o # "read"
  <2>1. stage' = "declined" /\ UNCHANGED <<rootReqs, pruned, selected, seen, work>>
      BY <1>2, <1>7 DEF selection
  <2>2. TypeOK'
      BY <1>0, <1>3, <1>4, <1>5, <2>1 DEF TypeOK, Asks
  <2>3. EverythingCovered' /\ NothingElseCounts' /\ EdgesFound'
      BY <1>0, <2>1 DEF EverythingCovered, NothingElseCounts, EdgesFound, Selecting, Blank
  <2>. QED
      BY <1>0, <1>4, <1>5, <2>1, <2>2, <2>3 DEF IInv, Blank
<1>. QED
    BY <1>6, <1>7

LEMMA LocalRootInvariant ==
    ASSUME IInv, ResolveLocalRoot
    PROVE  IInv'
<1>0. TypeOK /\ ReadsRemembered /\ Blank
    BY DEF IInv, Blank, ResolveLocalRoot
<1>1. IF Requires(query.text) = {} THEN stage' = "declined" /\ UNCHANGED selection
      ELSE Seed(query.text, HasPrunedModuleGraph(query.text))
    BY DEF ResolveLocalRoot
<1>2. world' = world /\ query' = query /\ read' = read /\ unread' = unread /\ UNCHANGED answer
    BY DEF ResolveLocalRoot, inputs
<1>3. /\ todo' = {} /\ edges' = {} /\ report' = {}
    BY <1>0, <1>2 DEF answer, Blank
<1>4. ReadsRemembered'
    BY <1>0, <1>2 DEF ReadsRemembered, Blank, Coord
<1>5. CASE Requires(query.text) # {}
  <2>1. Requires(query.text) \subseteq Coord /\ HasPrunedModuleGraph(query.text) \in BOOLEAN
      BY <1>0, Inputs DEF HasPrunedModuleGraph
  <2>2. /\ stage' = "select" /\ pruned' \in BOOLEAN /\ rootReqs' \subseteq Coord
        /\ selected' \in [Module -> Version \cup {NoVersion}]
        /\ seen' \subseteq Item /\ work' \subseteq seen'
        /\ EverythingCovered' /\ NothingElseCounts'
      BY <1>0, <1>1, <1>2, <1>5, <2>1, SeedStarts
  <2>3. TypeOK'
      BY <1>0, <1>2, <1>3, <2>2 DEF TypeOK
  <2>. QED
      BY <1>3, <1>4, <2>2, <2>3 DEF IInv, EdgesFound
<1>6. CASE Requires(query.text) = {}
  <2>1. stage' = "declined" /\ UNCHANGED <<rootReqs, pruned, selected, seen, work>>
      BY <1>1, <1>6 DEF selection
  <2>2. TypeOK'
      BY <1>0, <1>2, <1>3, <2>1 DEF TypeOK
  <2>3. EverythingCovered' /\ NothingElseCounts' /\ EdgesFound'
      BY <1>0, <2>1 DEF EverythingCovered, NothingElseCounts, EdgesFound, Selecting, Blank
  <2>. QED
      BY <1>0, <1>3, <1>4, <2>1, <2>2, <2>3 DEF IInv, Blank
<1>. QED
    BY <1>5, <1>6

LEMMA VisitInvariant ==
    ASSUME IInv, NEW it \in work, ReadFull(it) \/ ReadPruned(it)
    PROVE  IInv'
<1>0. TypeOK /\ EverythingCovered /\ NothingElseCounts /\ ReadsRemembered
    BY DEF IInv
<1>1. Visits(it)
    BY <1>0, FullVisits, PrunedVisits
<1>2. PICK o : Fetch(it[1], o)
    BY DEF ReadFull, ReadPruned
<1>3. TypeOK' /\ EverythingCovered' /\ NothingElseCounts' /\ ReadsRemembered'
    BY <1>0, <1>1, <1>2, VisitTypes, VisitCovers, VisitCounts, VisitRemembers
<1>4. stage' = "select"
    BY <1>1 DEF Visits
<1>. QED
    BY <1>3, <1>4 DEF IInv, EdgesFound

\* What the edges are taken from depends on the selection and the files read.
LEMMA SameNeeds ==
    ASSUME UNCHANGED <<world, rootReqs, selected>>
    PROVE  /\ Listed' = Listed
           /\ \A m, R : EdgesFrom(m, R)' = EdgesFrom(m, R)
           /\ \A m : read' = read => NeedsOf(m)' = NeedsOf(m)
<1>1. Listed' = Listed
    BY DEF Listed
<1>2. \A m, R : EdgesFrom(m, R)' = EdgesFrom(m, R)
    BY <1>1 DEF EdgesFrom
<1>3. ASSUME NEW m, read' = read PROVE NeedsOf(m)' = NeedsOf(m)
    BY <1>3 DEF NeedsOf, Readable, ReqsOf
<1>. QED
    BY <1>1, <1>2, <1>3

LEMMA FlattenInvariant ==
    ASSUME IInv, Flatten
    PROVE  IInv'
<1>0. TypeOK /\ EverythingCovered /\ NothingElseCounts /\ ReadsRemembered
    BY DEF IInv
<1>1. /\ UNCHANGED <<world, query, rootReqs, pruned, selected, seen, work, read, unread, report>>
      /\ stage = "select" /\ stage' = "flatten" /\ work = {}
      /\ todo' = Listed /\ edges' = EdgesFrom(Main, rootReqs)
    BY DEF Flatten, inputs, selection
<1>2. Listed \subseteq Module /\ Main \in Module
    BY MvsAssumption DEF Listed
<1>3. EdgesFrom(Main, rootReqs) \subseteq Module \X (Listed \cup {Main})
    BY <1>2 DEF EdgesFrom
<1>4. /\ Listed' = Listed
      /\ \A m \in Listed \cup {Main} : EdgesFrom(m, NeedsOf(m))' = EdgesFrom(m, NeedsOf(m))
  <2>1. Listed' = Listed /\ \A m : NeedsOf(m)' = NeedsOf(m)
      BY <1>1, SameNeeds
  <2>. QED
      BY <2>1 DEF EdgesFrom
<1>5. TypeOK'
    BY <1>0, <1>1, <1>2, <1>3 DEF TypeOK
<1>6. EverythingCovered'
    BY <1>0, <1>1 DEF EverythingCovered, Selecting, Covers, Handled, Readable, ReqsOf, Expands
<1>7. ReadsGrow
    BY <1>1 DEF ReadsGrow
<1>8. NothingElseCounts'
    BY <1>0, <1>1, <1>7, CountsGrow DEF NothingElseCounts
<1>9. ReadsRemembered'
    BY <1>0, <1>1 DEF ReadsRemembered
<1>10. EdgesFound'
  <2>1. NeedsOf(Main) = rootReqs /\ Main \notin Listed
      BY DEF NeedsOf, Listed
  <2>2. \A e \in edges' : e[1] = Main
      BY <1>1 DEF EdgesFrom
  <2>3. \A e \in edges' : e[1] \in Listed \cup {Main} /\ e \in EdgesFrom(e[1], NeedsOf(e[1]))
      BY <1>1, <2>1, <2>2
  <2>4. \A m \in (Listed \cup {Main}) \ todo' : EdgesFrom(m, NeedsOf(m)) \subseteq edges'
      BY <1>1, <2>1
  <2>. QED
      BY <1>1, <1>4, <2>3, <2>4 DEF EdgesFound
<1>. QED
    BY <1>1, <1>5, <1>6, <1>8, <1>9, <1>10 DEF IInv

LEMMA ReadEdgesInvariant ==
    ASSUME IInv, NEW m \in todo, ReadEdges(m)
    PROVE  IInv'
<1>. DEFINE c == <<m, selected[m]>>
<1>0. TypeOK /\ EverythingCovered /\ NothingElseCounts /\ ReadsRemembered /\ EdgesFound
    BY DEF IInv
<1>1. /\ UNCHANGED <<world, query, stage, rootReqs, pruned, selected, seen, work, report>>
      /\ stage = "flatten" /\ work = {} /\ todo' = todo \ {m}
    BY DEF ReadEdges, inputs, selection, IInv
<1>2. m \in Listed /\ m \in Module /\ c \in Coord
    BY <1>0, <1>1 DEF EdgesFound, Listed, TypeOK, Coord
<1>3. PICK o \in Outcomes(c) :
          /\ Fetch(c, o)
          /\ edges' = IF o = "read" THEN edges \cup EdgesFrom(m, ReqsOf(c)) ELSE edges
    BY DEF ReadEdges
<1>. HIDE DEF c
<1>4. Asks(c, o)
    BY <1>0, <1>2, <1>3, FetchAsks
<1>5. ReadsGrow
    BY <1>1, <1>4 DEF ReadsGrow, Asks
<1>6. Listed' = Listed
    BY <1>1 DEF Listed
<1>7. EdgesFrom(m, ReqsOf(c)) \subseteq Module \X (Listed \cup {Main})
    BY <1>2 DEF EdgesFrom
<1>9. TypeOK'
  <2>1. edges' \subseteq Module \X Module
      BY <1>0, <1>3, <1>7, MvsAssumption DEF Listed, TypeOK
  <2>. QED
      BY <1>0, <1>1, <1>4, <2>1 DEF TypeOK, Asks
<1>10. EverythingCovered'
  <2>1. ASSUME NEW j \in seen \ work PROVE Handled(j)'
    <3>1. Handled(j) /\ j[1] \in Coord
        BY <1>0 DEF EverythingCovered, TypeOK, Item
    <3>2. read'[j[1]] = read[j[1]]
        BY <1>5, <3>1 DEF ReadsGrow, Handled
    <3>. QED
        BY <1>1, <3>1, <3>2 DEF Handled, Covers, Readable, ReqsOf, Expands
  <2>. QED
      BY <1>0, <1>1, <2>1 DEF EverythingCovered, Selecting, Covers
<1>11. NothingElseCounts'
    BY <1>0, <1>1, <1>5, CountsGrow DEF NothingElseCounts
<1>12. ReadsRemembered'
  <2>1. /\ \A d \in Coord : /\ read'[d] = "read" => d \in DOMAIN Text[world]
                            /\ read'[d] = "failed" => unread'[d[1]] # NoVersion
        /\ \A n \in Module : unread'[n] # NoVersion => read'[<<n, unread'[n]>>] = "failed"
      BY <1>0, <1>1, <1>2, <1>3, FetchRemembers
  <2>2. ASSUME NEW d \in Coord, read'[d] # "unasked" PROVE d[1] = Main \/ selected[d[1]] # NoVersion
    <3>1. d = c \/ read[d] # "unasked"
        BY <1>4, <2>2 DEF Asks
    <3>. QED
        BY <1>0, <1>2, <3>1 DEF ReadsRemembered, Listed, c
  <2>. QED
      BY <1>1, <2>1, <2>2 DEF ReadsRemembered
<1>8. m # Main
    BY <1>2 DEF Listed
<1>13. EdgesFound'
  <2>1. ASSUME NEW n \in Listed \cup {Main}
        PROVE  /\ NeedsOf(n) \subseteq NeedsOf(n)'
               /\ n \notin todo => NeedsOf(n)' = NeedsOf(n)
               /\ n = m => NeedsOf(n)' = IF o = "read" THEN ReqsOf(c) ELSE {}
    <3>1. CASE n = Main
        BY <1>1, <1>8, <3>1 DEF NeedsOf
    <3>2. CASE n # Main
      <4>. DEFINE d == <<n, selected[n]>>
      <4>1. n \in Listed /\ d \in Coord /\ selected' = selected
          BY <1>0, <1>1, <2>1, <3>2 DEF Listed, Coord, TypeOK
      <4>2. /\ NeedsOf(n) = IF Readable(d) THEN ReqsOf(d) ELSE {}
            /\ NeedsOf(n)' = IF Readable(d)' THEN ReqsOf(d) ELSE {}
          BY <1>1, <3>2 DEF NeedsOf, ReqsOf, Readable
      <4>3. ReqsOf(d)' = ReqsOf(d) /\ Readable(d)' = (d \in DOMAIN Text[world] /\ read'[d] = "read")
          BY <1>1 DEF ReqsOf, Readable
      <4>. HIDE DEF d
      <4>4. Readable(d) => Readable(d)'
          BY <1>5, <4>1, <4>3 DEF ReadsGrow, Readable
      <4>5. CASE n = m
        <5>1. d = c /\ n \in todo
            BY <4>5 DEF d, c
        <5>2. Readable(d)' = (o = "read")
            BY <1>4, <4>3, <5>1 DEF Asks
        <5>. QED
            BY <4>2, <4>4, <5>1, <5>2
      <4>6. CASE n # m
        <5>1. d # c
            BY <4>6 DEF d, c
        <5>2. ASSUME n \notin todo PROVE read'[d] = read[d]
            BY <1>0, <1>4, <4>1, <5>1, <5>2 DEF Asks
        <5>. QED
            BY <4>2, <4>3, <4>4, <4>6, <5>2 DEF Readable
      <4>. QED
          BY <4>5, <4>6
    <3>. QED
        BY <3>1, <3>2
  <2>2. \A n, R : EdgesFrom(n, R)' = EdgesFrom(n, R)
      BY <1>1, SameNeeds
  <2>3. \A n, R, S : R \subseteq S => EdgesFrom(n, R) \subseteq EdgesFrom(n, S)
      BY DEF EdgesFrom
  <2>4. ASSUME NEW e \in edges'
        PROVE  e[1] \in Listed \cup {Main} /\ e \in EdgesFrom(e[1], NeedsOf(e[1])')
    <3>1. CASE e \in edges
      <4>1. e[1] \in Listed \cup {Main} /\ e \in EdgesFrom(e[1], NeedsOf(e[1]))
          BY <1>0, <1>1, <3>1 DEF EdgesFound
      <4>. QED
          BY <2>1, <2>3, <4>1
    <3>2. CASE e \notin edges
      <4>1. o = "read" /\ e \in EdgesFrom(m, ReqsOf(c))
          BY <1>3, <3>2
      <4>2. e[1] = m
          BY <4>1 DEF EdgesFrom
      <4>. QED
          BY <1>2, <2>1, <4>1, <4>2
    <3>. QED
        BY <3>1, <3>2
  <2>5. ASSUME NEW n \in (Listed \cup {Main}) \ todo'
        PROVE  EdgesFrom(n, NeedsOf(n)') \subseteq edges'
    <3>1. CASE n = m
      <4>1. EdgesFrom(m, {}) = {}
          BY DEF EdgesFrom
      <4>. QED
          BY <1>3, <2>1, <3>1, <4>1
    <3>2. CASE n # m
      <4>1. n \in (Listed \cup {Main}) \ todo
          BY <1>1, <2>5, <3>2
      <4>2. EdgesFrom(n, NeedsOf(n)) \subseteq edges
          BY <1>0, <1>1, <4>1 DEF EdgesFound
      <4>. QED
          BY <1>3, <2>1, <4>1, <4>2
    <3>. QED
        BY <3>1, <3>2
  <2>6. todo' \subseteq Listed
      BY <1>0, <1>1 DEF EdgesFound
  <2>7. ASSUME NEW n PROVE EdgesFrom(n, NeedsOf(n))' = EdgesFrom(n, NeedsOf(n)')
      BY <1>6 DEF EdgesFrom
  <2>. QED
      BY <1>1, <1>6, <2>4, <2>5, <2>6, <2>7 DEF EdgesFound
<1>. QED
    BY <1>1, <1>9, <1>10, <1>11, <1>12, <1>13 DEF IInv

LEMMA ReturnInvariant ==
    ASSUME IInv, Return
    PROVE  IInv'
<1>0. TypeOK /\ EverythingCovered /\ NothingElseCounts /\ ReadsRemembered /\ EdgesFound
    BY DEF IInv
<1>1. /\ UNCHANGED <<world, query, rootReqs, pruned, selected, seen, work, read, unread, todo, edges>>
      /\ stage = "flatten" /\ stage' = "answered" /\ todo = {} /\ work = {}
    BY DEF Return, inputs, selection, IInv
<1>2. report' = {<<m, IF selected[m] = NoVersion THEN unread[m] ELSE selected[m]>> :
                    m \in {n \in Module \ {Main} : unread[n] # NoVersion}}
    BY DEF Return
<1>3. report' \subseteq Coord
    BY <1>0, <1>2 DEF Coord, TypeOK
<1>4. TypeOK'
    BY <1>0, <1>1, <1>3 DEF TypeOK
<1>5. EverythingCovered'
    BY <1>0, <1>1 DEF EverythingCovered, Selecting, Covers, Handled, Readable, ReqsOf, Expands
<1>6. ReadsGrow
    BY <1>1 DEF ReadsGrow
<1>7. NothingElseCounts'
    BY <1>0, <1>1, <1>6, CountsGrow DEF NothingElseCounts
<1>8. ReadsRemembered'
    BY <1>0, <1>1 DEF ReadsRemembered
<1>9. EdgesFound'
    BY <1>0, <1>1 DEF EdgesFound, Listed, Readable, EdgesFrom, ReqsOf, NeedsOf
<1>. QED
    BY <1>1, <1>4, <1>5, <1>7, <1>8, <1>9 DEF IInv

LEMMA InitInvariant ==
    ASSUME Init
    PROVE  IInv
BY MvsAssumption DEF Init, IInv, TypeOK, EverythingCovered, NothingElseCounts, ReadsRemembered, EdgesFound,
                     Selecting, Outcome

LEMMA StepInvariant ==
    ASSUME IInv, [Next]_vars
    PROVE  IInv'
<1>1. CASE UNCHANGED vars
  <2>1. /\ UNCHANGED <<world, query, stage, rootReqs, pruned, selected, seen, work, read, unread>>
        /\ UNCHANGED <<todo, edges, report>>
      BY <1>1 DEF vars, inputs, selection, answer
  <2>2. TypeOK' /\ ReadsRemembered'
      BY <2>1 DEF IInv, TypeOK, ReadsRemembered
  <2>3. EverythingCovered'
      BY <2>1 DEF IInv, EverythingCovered, Selecting, Covers, Handled, Readable, ReqsOf, Expands
  <2>4. EdgesFound'
      BY <2>1 DEF IInv, EdgesFound, Readable, ReqsOf, Listed, EdgesFrom, NeedsOf
  <2>5. NothingElseCounts'
    <3>1. ReadsGrow /\ TypeOK /\ NothingElseCounts
        BY <2>1 DEF ReadsGrow, IInv
    <3>. QED
        BY <2>1, <3>1, CountsGrow DEF NothingElseCounts
  <2>. QED
      BY <2>1, <2>2, <2>3, <2>4, <2>5 DEF IInv
<1>. QED
    BY <1>1, ResolveInvariant, LocalRootInvariant, VisitInvariant, FlattenInvariant,
       ReadEdgesInvariant, ReturnInvariant DEF Next

\* The invariant of a resolution: what is on the worklist or selected counts, and
\* what was taken off the worklist was read and is covered by the selection.
THEOREM Invariance == Spec => []IInv
<1>. QED
    BY InitInvariant, StepInvariant, PTL DEF Spec

-----------------------------------------------------------------------------
(***************************************************************************)
(* The answer.                                                             *)
(***************************************************************************)

\* What counts when the worklist is empty is what was seen, and it is covered.
LEMMA RootsSeen ==
    ASSUME IInv, stage = "answered", NEW r \in rootReqs
    PROVE  <<r, FALSE>> \in seen
<1>1. Selecting /\ EverythingCovered
    BY DEF IInv, Selecting
<1>2. \A s \in rootReqs : <<s, FALSE>> \in seen
    BY Zenon, <1>1 DEF EverythingCovered
<1>. QED
    BY Zenon, <1>2

LEMMA CountsCovered ==
    ASSUME IInv, stage = "answered", NEW c \in Counts
    PROVE  c \in Coord /\ Covers(c)
<1>0. TypeOK /\ EverythingCovered /\ work = {} /\ pruned \in BOOLEAN
    BY DEF IInv, TypeOK
<1>1. ASSUME NEW u \in BOOLEAN, <<c, u>> \in seen PROVE c \in Coord /\ Covers(c)
  <2>1. <<c, u>> \in Item /\ Covers(<<c, u>>[1])
      BY <1>0, <1>1 DEF EverythingCovered, TypeOK
  <2>. QED
      BY <2>1 DEF Item
<1>2. \A r \in rootReqs : <<r, FALSE>> \in seen
    BY Zenon, RootsSeen
<1>3. ASSUME NEW u \in BOOLEAN, NEW b, <<b, u>> \in seen, Readable(b), NEW d \in ReqsOf(b)
      PROVE  /\ Covers(d)
             /\ ~pruned => <<d, FALSE>> \in seen
             /\ pruned /\ (u \/ ~HasPrunedModuleGraph(Text[world][b])) => <<d, TRUE>> \in seen
  <2>1. Handled(<<b, u>>)
      BY <1>0, <1>3 DEF EverythingCovered
  <2>. QED
      BY <1>3, <2>1 DEF Handled, Expands
<1>4. ASSUME NEW u \in BOOLEAN, NEW S, S \subseteq Mentioned, \A b \in S : <<b, u>> \in seen, pruned = u
      PROVE  \A b \in Reaches(S) : <<b, u>> \in seen
  <2>. DEFINE T == {b \in Mentioned : <<b, u>> \in seen}
  <2>1. ASSUME NEW b \in T PROVE Demands[b] \subseteq T
    <3>1. SUFFICES ASSUME Readable(b), NEW d \in ReqsOf(b) PROVE d \in T
        BY DEF Demands, RequiredBy
    <3>2. d \in Mentioned
        BY <3>1 DEF Mentioned, Readable
    <3>3. <<d, u>> \in seen
        BY <1>3, <1>4, <3>1
    <3>. QED
        BY <3>2, <3>3
  <2>2. Least(Mentioned, Demands, S) \subseteq T
    <3>1. T \in SUBSET Mentioned /\ S \subseteq T
        BY <1>4
    <3>. HIDE DEF T
    <3>. QED
        BY <2>1, <3>1, LeastWithin
  <2>. QED
      BY <2>2 DEF Reaches
<1>5. CASE ~pruned
  <2>1. rootReqs \subseteq Mentioned
      BY DEF Mentioned
  <2>2. <<c, FALSE>> \in seen
      BY <1>0, <1>2, <1>4, <1>5, <2>1 DEF Counts
  <2>. QED
      BY <1>1, <2>2
<1>6. CASE pruned
  <2>1. CASE c \in rootReqs
      BY <1>1, <1>2, <2>1
  <2>2. CASE c \in RequiredBy(rootReqs)
    <3>1. PICK b \in rootReqs : Readable(b) /\ c \in ReqsOf(b)
        BY <2>2 DEF RequiredBy
    <3>2. c \in Coord
        BY <1>0, <3>1, Inputs DEF Readable
    <3>. QED
        BY <1>2, <1>3, <3>1, <3>2
  <2>3. CASE c \in BeneathOld
    <3>1. RequiredBy(OldRoots) \subseteq Mentioned
        BY DEF RequiredBy, Mentioned, Readable
    <3>2. \A b \in RequiredBy(OldRoots) : <<b, TRUE>> \in seen
      <4>. SUFFICES ASSUME NEW b \in RequiredBy(OldRoots) PROVE <<b, TRUE>> \in seen
          BY Zenon
      <4>1. PICK a \in OldRoots : Readable(a) /\ b \in ReqsOf(a)
          BY DEF RequiredBy
      <4>2. a \in rootReqs /\ ~HasPrunedModuleGraph(Text[world][a])
          BY Zenon, <4>1 DEF OldRoots
      <4>. QED
          BY <1>2, <1>3, <1>6, <4>1, <4>2
    <3>3. <<c, TRUE>> \in seen
        BY <1>0, <1>4, <1>6, <2>3, <3>1, <3>2 DEF BeneathOld
    <3>. QED
        BY <1>1, <3>3
  <2>. QED
      BY <1>6, <2>1, <2>2, <2>3 DEF Counts
<1>. QED
    BY <1>5, <1>6

LEMMA MinimalWhenAnswered ==
    ASSUME IInv
    PROVE  BuildListIsMinimal
<1>. DEFINE required(m) == {v \in Version : <<m, v>> \in Counts}
            highest(m)  == IF required(m) = {} THEN selected[m] = NoVersion
                           ELSE /\ selected[m] \in required(m)
                                /\ \A v \in required(m) : ~Less(selected[m], v)
<1>. SUFFICES ASSUME stage = "answered", NEW m \in Module
              PROVE  highest(m)
    BY Zenon DEF BuildListIsMinimal
<1>1. selected[m] \in Version \cup {NoVersion}
    BY DEF IInv, TypeOK
<1>2. selected[m] # NoVersion => <<m, selected[m]>> \in Counts
    BY DEF IInv, NothingElseCounts
<1>3. \A v \in {w \in Version : <<m, w>> \in Counts} : selected[m] # NoVersion /\ ~Less(selected[m], v)
    BY CountsCovered DEF Covers
<1>. QED
    BY <1>1, <1>2, <1>3

\* Whatever the proxy serves, in whatever order the files are read and whichever
\* requests fail, the selected version of a module is the highest that a file
\* that counts requires, and nothing else is listed (selectFullGraphSeed,
\* selectPrunedSeed).
THEOREM MinimalBuildList == Spec => []BuildListIsMinimal
<1>. QED
    BY Invariance, MinimalWhenAnswered, PTL

LEMMA ReportsOnReturn ==
    ASSUME IInv, Return
    PROVE  UnreadIsReported'
<1>. DEFINE failing == {n \in Listed : \E v \in Version : read[<<n, v>>] = "failed"}
<1>0. TypeOK /\ ReadsRemembered
    BY DEF IInv
<1>1. ASSUME NEW n \in Module
      PROVE  n \in failing <=> n # Main /\ unread[n] # NoVersion
  <2>1. ASSUME n \in failing PROVE n # Main /\ unread[n] # NoVersion
    <3>1. PICK v \in Version : read[<<n, v>>] = "failed"
        BY <2>1
    <3>2. <<n, v>> \in Coord
        BY DEF Coord
    <3>3. unread[<<n, v>>[1]] # NoVersion
        BY <1>0, <3>1, <3>2 DEF ReadsRemembered
    <3>. QED
        BY <2>1, <3>3 DEF Listed
  <2>2. ASSUME n # Main, unread[n] # NoVersion PROVE n \in failing
    <3>1. unread[n] \in Version /\ read[<<n, unread[n]>>] = "failed"
        BY <1>0, <2>2 DEF TypeOK, ReadsRemembered
    <3>2. <<n, unread[n]>> \in Coord
        BY <3>1 DEF Coord
    <3>3. n = Main \/ selected[n] # NoVersion
        BY <1>0, <3>1, <3>2 DEF ReadsRemembered
    <3>. QED
        BY <2>2, <3>1, <3>3 DEF Listed
  <2>. QED
      BY <2>1, <2>2
<1>2. failing \subseteq Module /\ \A n \in failing : selected[n] # NoVersion
    BY DEF Listed
<1>3. report' = {<<n, IF selected[n] = NoVersion THEN unread[n] ELSE selected[n]>> :
                    n \in {k \in Module \ {Main} : unread[k] # NoVersion}}
    BY DEF Return
<1>4. {k \in Module \ {Main} : unread[k] # NoVersion} = failing
  <2>. HIDE DEF failing
  <2>. QED
      BY <1>1, <1>2
<1>5. report' = {<<n, selected[n]>> : n \in failing}
  <2>. HIDE DEF failing
  <2>. QED
      BY <1>2, <1>3, <1>4
<1>6. selected' = selected /\ read' = read
    BY DEF Return, selection
<1>. QED
    BY <1>5, <1>6 DEF UnreadIsReported, Listed

\* A module with a file that could not be read, superseded or not, is reported at
\* the version its node carries, and nothing else is (incompleteResolution).
THEOREM ReportedUnread == Spec => []UnreadIsReported
<1>1. Init => UnreadIsReported
    BY DEF Init, UnreadIsReported
<1>2. IInv /\ UnreadIsReported /\ [Next]_vars => UnreadIsReported'
  <2>. SUFFICES ASSUME IInv, UnreadIsReported, [Next]_vars PROVE UnreadIsReported'
      OBVIOUS
  <2>1. CASE UNCHANGED vars
      BY <2>1 DEF vars, selection, answer, UnreadIsReported, Listed
  <2>2. CASE Resolve \/ ResolveLocalRoot
      BY <2>2 DEF Resolve, ResolveLocalRoot, Seed, UnreadIsReported
  <2>3. CASE \/ \E it \in work : ReadFull(it) \/ ReadPruned(it)
             \/ Flatten \/ \E m \in todo : ReadEdges(m)
      BY <2>3 DEF ReadFull, ReadPruned, Flatten, ReadEdges, UnreadIsReported
  <2>4. CASE Return
      BY <2>4, ReportsOnReturn
  <2>. QED
      BY <2>1, <2>2, <2>3, <2>4 DEF Next
<1>. QED
    BY <1>1, <1>2, Invariance, PTL DEF Spec

LEMMA EdgesWhenAnswered ==
    ASSUME IInv
    PROVE  EdgesAreMet
<1>0. TypeOK /\ EverythingCovered /\ NothingElseCounts /\ EdgesFound
    BY DEF IInv
<1>. SUFFICES ASSUME stage = "answered"
              PROVE  /\ edges = {e \in (Listed \cup {Main}) \X (Listed \cup {Main}) :
                                    e[1] # e[2] /\ \E c \in NeedsOf(e[1]) : c[1] = e[2]}
                     /\ \A m \in (IF pruned THEN {Main} ELSE Listed \cup {Main}) : \A c \in NeedsOf(m) :
                           c[1] \in Listed \cup {Main} /\ ~Less(selected[c[1]], c[2])
    BY DEF EdgesAreMet
<1>1. work = {} /\ todo = {}
    BY DEF IInv
<1>2. ASSUME NEW e
      PROVE  e \in edges <=> /\ e \in (Listed \cup {Main}) \X (Listed \cup {Main})
                             /\ e[1] # e[2] /\ \E c \in NeedsOf(e[1]) : c[1] = e[2]
  <2>1. ASSUME e \in edges
        PROVE  e[1] \in Listed \cup {Main} /\ e \in EdgesFrom(e[1], NeedsOf(e[1]))
      BY <1>0, <2>1 DEF EdgesFound
  <2>2. \A m, R : e \in EdgesFrom(m, R) <=>
            \E c \in R : c[1] \in Listed \cup {Main} /\ e = <<m, c[1]>> /\ m # c[1]
      BY DEF EdgesFrom
  <2>3. ASSUME e \in (Listed \cup {Main}) \X (Listed \cup {Main}), e[1] # e[2],
               NEW c \in NeedsOf(e[1]), c[1] = e[2]
        PROVE  e \in edges
    <3>1. e[1] \in (Listed \cup {Main}) \ todo /\ e = <<e[1], e[2]>> /\ e[2] \in Listed \cup {Main}
        BY <1>1, <2>3
    <3>2. e \in EdgesFrom(e[1], NeedsOf(e[1]))
        BY <2>2, <2>3, <3>1
    <3>. QED
        BY <1>0, <3>1, <3>2 DEF EdgesFound
  <2>. QED
      BY <2>1, <2>2, <2>3
<1>3. ASSUME NEW c \in rootReqs
      PROVE  Covers(c) /\ c \in Coord
    BY <1>0 DEF EverythingCovered, Selecting
<1>4. ASSUME ~pruned, NEW m \in Listed, NEW c \in NeedsOf(m)
      PROVE  Covers(c) /\ c \in Coord
  <2>1. m \in Module /\ <<<<m, selected[m]>>, FALSE>> \in seen
      BY <1>0, <1>4 DEF NothingElseCounts, Listed
  <2>2. Handled(<<<<m, selected[m]>>, FALSE>>)
      BY <1>0, <1>1, <2>1 DEF EverythingCovered
  <2>3. Readable(<<m, selected[m]>>) /\ c \in ReqsOf(<<m, selected[m]>>)
      BY <1>4 DEF NeedsOf, Listed
  <2>. QED
      BY <1>0, <2>2, <2>3, Inputs DEF Handled, Readable
<1>5. ASSUME NEW m \in (IF pruned THEN {Main} ELSE Listed \cup {Main}), NEW c \in NeedsOf(m)
      PROVE  c[1] \in Listed \cup {Main} /\ ~Less(selected[c[1]], c[2])
  <2>1. Covers(c) /\ c \in Coord
      BY <1>3, <1>4, <1>5 DEF NeedsOf
  <2>. QED
      BY <2>1 DEF Covers, Listed, Coord
<1>. QED
    BY <1>2, <1>5

\* The edges of an answer are what the versions in it require of one another,
\* no less and no more; the root's requirements are met by the versions listed,
\* and in an unpruned list so are those of every version whose file was read
\* (buildResolvedGraph).
THEOREM MetEdges == Spec => []EdgesAreMet
<1>. QED
    BY Invariance, EdgesWhenAnswered, PTL

=============================================================================
