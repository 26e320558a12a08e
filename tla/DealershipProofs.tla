-------------------------- MODULE DealershipProofs ---------------------------
(***************************************************************************)
(* What holds of a dealer's settings, opening hours and stock.             *)
(*                                                                         *)
(* Of Dealership, for any team and any number of requests: types, that     *)
(* every setting stays until somebody changes it or overwrites it with a   *)
(* copy that missed it, and that the times on offer are the earliest free  *)
(* ones of the opening hours.  Of Inventory, for any keys, files, feeds    *)
(* and demo cars: a stock number names one car, a search offers what is    *)
(* listed, and a sync repeated changes nothing.                            *)
(***************************************************************************)
EXTENDS Dealership, Inventory, TLAPS, FiniteSetTheorems, WellFoundedInduction

-----------------------------------------------------------------------------
(* Smallest and greatest members, induction up to a bound                  *)

\* A set of natural numbers that is not empty has a smallest member.
LEMMA SmallestMember ==
  ASSUME NEW S \in SUBSET Nat, S # {}
  PROVE  Min(S) \in S /\ \A y \in S : Min(S) <= y
<1>1. PICK x \in S : \A y \in S : <<y, x>> \notin OpToRel(<, Nat)
  BY WFMin, NatLessThanWellFounded, Zenon
<1>2. \A y \in S : x <= y
  <2>1. ASSUME NEW y \in S PROVE ~(y < x)
    BY <1>1, Zenon DEF OpToRel
  <2>2. QED
    BY <2>1
<1>3. QED
  BY <1>1, <1>2 DEF Min

\* What holds of 0 and is handed on holds up to n.
LEMMA UpTo ==
  ASSUME NEW n \in Nat, NEW S, 0 \in S, \A k \in 1..n : k - 1 \in S => k \in S
  PROVE  0..n \subseteq S
<1> DEFINE Left == {k \in 0..n : k \notin S}
<1>1. ASSUME Left # {} PROVE FALSE
  <2>1. Left \in SUBSET Nat
    OBVIOUS
  <2>2. PICK m \in Left : \A y \in Left : m <= y
    BY <1>1, <2>1, SmallestMember
  <2>3. m \in 1..n /\ m - 1 \in 0..n
    BY <2>2
  <2>4. m - 1 \in S
    BY <2>2, <2>3
  <2>5. QED
    BY <2>2, <2>3, <2>4
<1>2. QED
  BY <1>1

\* A set of places in a list that is not empty has a greatest one.
LEMMA GreatestMember ==
  ASSUME NEW n \in Nat, NEW S \in SUBSET (1..n), S # {}
  PROVE  Max(S) \in S /\ \A y \in S : Max(S) >= y
<1> DEFINE Gaps == {n - x : x \in S}
<1>1. \A x \in S : x \in Nat /\ n - x \in Nat
  OBVIOUS
<1>2. Gaps \in SUBSET Nat
  BY <1>1
<1>3. Gaps # {}
  OBVIOUS
<1>4. Min(Gaps) \in Gaps /\ \A y \in Gaps : Min(Gaps) <= y
  <2> HIDE DEF Gaps
  <2>1. QED
    BY <1>2, <1>3, SmallestMember
<1>5. PICK x \in S : Min(Gaps) = n - x
  BY <1>4
<1>6. \A y \in S : n - x <= n - y
  BY <1>4, <1>5
<1>7. \A y \in S : x >= y
  BY <1>1, <1>6
<1>8. QED
  BY <1>7 DEF Max

\* f is "next" repeated over the first members of a list, as community folds define it.
Repeats(f, X, n, base, next, list) ==
  /\ f \in [SUBSET (1..n) -> X]
  /\ \A s \in SUBSET (1..n) :
       f[s] = IF s = {} THEN base ELSE next[f[s \ {Max(s)}]][list[Max(s)]]

\* The recursion that a fold over a list stands for has a solution, whatever function
\* "next" it repeats.
LEMMA FoldIsDefined ==
  ASSUME NEW X, NEW E, NEW next \in [X -> [E -> X]], NEW base \in X,
         NEW n \in Nat, NEW list \in [1..n -> E]
  PROVE  \E f : Repeats(f, X, n, base, next, list)
<1> DEFINE Solves(f, m) == Repeats(f, X, m, base, next, list)
           Good == {m \in 0..n : \E f : Solves(f, m)}
<1>1. 0 \in Good
  <2>1. 1..0 = {}
    OBVIOUS
  <2>2. \A s \in SUBSET (1..0) : s = {}
    BY <2>1
  <2>3. Solves([s \in SUBSET (1..0) |-> base], 0)
    BY <2>2 DEF Repeats
  <2>4. 0 \in 0..n
    OBVIOUS
  <2>5. \E f : Solves(f, 0)
    <3> HIDE DEF Solves
    <3>1. QED
      BY <2>3
  <2>6. QED
    BY <2>4, <2>5
<1>2. ASSUME NEW m \in 1..n, m - 1 \in Good PROVE m \in Good
  <2>1. PICK f : Solves(f, m - 1)
    BY <1>2
  <2> DEFINE g == [s \in SUBSET (1..m) |->
                     IF m \in s THEN next[f[s \ {m}]][list[m]] ELSE f[s]]
  <2>2. ASSUME NEW s \in SUBSET (1..m), m \notin s PROVE s \in SUBSET (1..m - 1)
    BY <2>2
  <2>3. ASSUME NEW s \in SUBSET (1..m), m \in s PROVE s \ {m} \in SUBSET (1..m - 1) /\ Max(s) = m
    <3>1. s \ {m} \in SUBSET (1..m - 1)
      OBVIOUS
    <3>2. m \in Nat /\ s # {}
      BY <2>3
    <3>3. Max(s) \in s /\ \A y \in s : Max(s) >= y
      BY <3>2, GreatestMember
    <3>4. Max(s) >= m /\ Max(s) \in 1..m
      BY <2>3, <3>3
    <3>5. Max(s) = m
      BY <3>2, <3>4
    <3>6. QED
      BY <3>1, <3>5
  <2>4. list[m] \in E
    OBVIOUS
  <2>5. ASSUME NEW s \in SUBSET (1..m) PROVE g[s] \in X
    BY <2>1, <2>2, <2>3, <2>4 DEF Repeats
  <2>6. ASSUME NEW s \in SUBSET (1..m)
        PROVE  g[s] = IF s = {} THEN base ELSE next[g[s \ {Max(s)}]][list[Max(s)]]
    <3>1. CASE m \in s
      <4>1. g[s] = next[f[s \ {m}]][list[m]]
        BY <3>1
      <4>2. g[s \ {m}] = f[s \ {m}]
        OBVIOUS
      <4>3. QED
        BY <2>3, <3>1, <4>1, <4>2
    <3>2. CASE m \notin s /\ s # {}
      <4>1. s \in SUBSET (1..m - 1) /\ g[s] = f[s]
        BY <2>2, <3>2
      <4>2. g[s \ {Max(s)}] = f[s \ {Max(s)}]
        BY <3>2
      <4>3. QED
        BY <2>1, <3>2, <4>1, <4>2 DEF Repeats
    <3>3. CASE s = {}
      BY <2>1, <2>2, <3>3 DEF Repeats
    <3>4. QED
      BY <3>1, <3>2, <3>3
  <2>7. Solves(g, m)
    BY <2>5, <2>6 DEF Repeats
  <2>8. \E h : Solves(h, m)
    <3> HIDE DEF Solves, g
    <3>1. QED
      BY <2>7
  <2>9. m \in 0..n
    OBVIOUS
  <2>10. QED
    <3> HIDE DEF Solves
    <3>1. QED
      BY <2>8, <2>9
<1>3. n \in Good
  <2> HIDE DEF Good
  <2>1. 0..n \subseteq Good
    BY <1>1, <1>2, UpTo
  <2>2. QED
    BY <2>1
<1>4. QED
  BY <1>3

\* The places up to k, without the last of them.
LEMMA Places ==
  /\ 1..0 = {}
  /\ \A n \in Nat : \A k \in 1..n :
       /\ k - 1 \in 0..n /\ 1..k \in SUBSET (1..n) /\ 1..k # {}
       /\ Max(1..k) = k /\ (1..k) \ {k} = 1..k - 1
<1>1. 1..0 = {}
  OBVIOUS
<1>2. ASSUME NEW n \in Nat, NEW k \in 1..n
      PROVE  /\ k - 1 \in 0..n /\ 1..k \in SUBSET (1..n) /\ 1..k # {}
             /\ Max(1..k) = k /\ (1..k) \ {k} = 1..k - 1
  <2>1. k \in Nat /\ 1..k \in SUBSET (1..k) /\ k \in 1..k
    OBVIOUS
  <2>2. Max(1..k) \in 1..k /\ \A y \in 1..k : Max(1..k) >= y
    BY <2>1, GreatestMember
  <2>3. Max(1..k) = k
    BY <2>1, <2>2
  <2>4. QED
    BY <2>1, <2>3
<1>3. QED
  BY <1>1, <1>2

\* The values that such a function leads through, one member of the list after the other.
Chain(a, X, n, base, next, list, last) ==
  /\ a \in [0..n -> X] /\ a[0] = base /\ a[n] = last
  /\ \A k \in 1..n : a[k] = next[a[k - 1]][list[k]]

\* The fold's own function leads through such values.
LEMMA FoldIsChain ==
  ASSUME NEW X, NEW E, NEW next \in [X -> [E -> X]], NEW base \in X,
         NEW n \in Nat, NEW list \in [1..n -> E], NEW f, f[{}] = base,
         \A s \in SUBSET (1..n) : s # {} /\ f[s \ {Max(s)}] \in X
                                    => f[s] = next[f[s \ {Max(s)}]][list[Max(s)]]
  PROVE  \E a : Chain(a, X, n, base, next, list, f[1..n])
<1> DEFINE a == [k \in 0..n |-> f[1..k]]
<1>1. a[0] = base
  <2>1. 1..0 = {} /\ 0 \in 0..n
    BY Places
  <2>2. QED
    BY <2>1
<1>2. ASSUME NEW k \in 1..n, a[k - 1] \in X
      PROVE  k \in 0..n /\ a[k] = next[a[k - 1]][list[k]] /\ a[k] \in X
  <2>1. k - 1 \in 0..n /\ k \in 0..n /\ f[1..k - 1] \in X
    BY <1>2
  <2>2. f[1..k] = next[f[1..k - 1]][list[k]]
    <3>1. 1..k \in SUBSET (1..n) /\ 1..k # {} /\ Max(1..k) = k /\ (1..k) \ {k} = 1..k - 1
      BY Places
    <3>2. QED
      BY <2>1, <3>1
  <2>3. list[k] \in E
    OBVIOUS
  <2>4. next[f[1..k - 1]][list[k]] \in X
    BY <2>1, <2>3
  <2>5. QED
    BY <2>1, <2>2, <2>4
<1> DEFINE Typed == {k \in 0..n : a[k] \in X}
<1>3. 0..n \subseteq Typed
  <2>1. 0 \in Typed
    BY <1>1
  <2>2. \A k \in 1..n : k - 1 \in Typed => k \in Typed
    BY <1>2
  <2> HIDE DEF Typed
  <2>3. QED
    BY <2>1, <2>2, UpTo
<1>4. \A k \in 1..n : a[k] = next[a[k - 1]][list[k]]
  <2>1. \A k \in 1..n : k - 1 \in 0..n
    OBVIOUS
  <2>2. \A k \in 1..n : a[k - 1] \in X
    BY <1>3, <2>1
  <2> HIDE DEF a
  <2>3. QED
    BY <1>2, <2>2
<1>5. a[n] = f[1..n]
  OBVIOUS
<1>6. a \in [0..n -> X]
  BY <1>3
<1> HIDE DEF a
<1>7. Chain(a, X, n, base, next, list, f[1..n])
  BY <1>1, <1>4, <1>5, <1>6 DEF Chain
<1>8. QED
  BY <1>7
-----------------------------------------------------------------------------
(* Dealership: the invariant                                               *)

\* A copy of the settings is as the column in every section it did not miss.
Agrees(copy, section) ==
  /\ \A g \in Fields \ section : copy.fields[g] = config.fields[g]
  /\ "team" \notin section => copy.team = config.team

FormsAgree == \A f \in Forms : open[f] # NoForm => Agrees(open[f], missed[f])

PageAgrees == "team" \notin missed["page"] => page = config.team

\* Every window took a request.
FewWindows(team) == \A r \in Reps : team[r].windows <= writes

WindowsCounted ==
  /\ FewWindows(config.team) /\ FewWindows(page)
  /\ \A f \in Forms : open[f] # NoForm => FewWindows(open[f].team)

IInv == TypeOK /\ StoredIsKept /\ FormsAgree /\ PageAgrees /\ WindowsCounted
-----------------------------------------------------------------------------
(* What a request may write                                                *)

Teams == [Reps -> Member \cup {Absent}]

\* The file's settings and an onboarded dealer's are settings.
LEMMA FirstConfigs ==
  /\ FileConfig \in Configs /\ \A r \in Reps : FileConfig.team[r].windows = 0
  /\ \A number \in 0..1 :
       /\ OnboardedConfig(number) \in Configs
       /\ \A r \in Reps : OnboardedConfig(number).team[r].windows = -1
<1>1. [chat |-> FALSE, windows |-> 0] \in Member
  BY BoundAssumption DEF Member
<1>2. FileConfig \in Configs /\ \A r \in Reps : FileConfig.team[r].windows = 0
  BY <1>1 DEF FileConfig, Configs
<1>3. ASSUME NEW number \in 0..1
      PROVE  /\ OnboardedConfig(number) \in Configs
             /\ \A r \in Reps : OnboardedConfig(number).team[r].windows = -1
  BY <1>3 DEF OnboardedConfig, Configs, Absent
<1>4. QED
  BY <1>2, <1>3

\* Posted values are laid over a copy.
LEMMA SetFields ==
  ASSUME NEW c \in Configs, NEW own \in SUBSET Fields, NEW values \in [own -> 0..1]
  PROVE  /\ Set(c, values) \in Configs /\ Set(c, values).team = c.team
         /\ \A g \in Fields : Set(c, values).fields[g] = IF g \in own THEN values[g] ELSE c.fields[g]
<1> DEFINE fields == [g \in Fields |-> IF g \in DOMAIN values THEN values[g] ELSE c.fields[g]]
<1>1. c.fields \in [Fields -> 0..1] /\ c.team \in Teams /\ DOMAIN values = own
  BY DEF Configs, Teams
<1>2. fields \in [Fields -> 0..1]
  BY <1>1
<1>3. \A g \in Fields : fields[g] = IF g \in own THEN values[g] ELSE c.fields[g]
  BY <1>1
<1>4. Set(c, values) = [c EXCEPT !.fields = fields]
  BY DEF Set
<1> HIDE DEF fields
<1>5. Set(c, values) \in Configs /\ Set(c, values).team = c.team /\ Set(c, values).fields = fields
  BY <1>2, <1>4 DEF Configs
<1>6. QED
  BY <1>3, <1>5

(***************************************************************************)
(* A request that sets the sections of own, and marks them missed by every *)
(* copy that is out, keeps the invariant.                                  *)
(***************************************************************************)
LEMMA WriteHolds ==
  ASSUME IInv, NEW own \in SUBSET Sections, missed' = Missed(own),
         writes < MaxWrites, writes' = writes + 1,
         config' \in Configs, kept' = config',
         \A r \in Reps : config'.team[r].windows <= writes + 1,
         \A g \in Fields \ own : config'.fields[g] = config.fields[g],
         "team" \notin own => config'.team = config.team,
         open' \in [Forms -> Configs \cup {NoForm}],
         \A f \in Forms : open'[f] = open[f] \/ open'[f] = NoForm,
         exists' \in BOOLEAN, column' \in 0..1, asked' \subseteq Reps,
         UNCHANGED <<listed, page>>
  PROVE  IInv'
<1>1. /\ missed \in [Forms \cup {"page"} -> SUBSET Sections]
      /\ \A h \in Forms \cup {"page"} : missed'[h] = missed[h] \cup own
      /\ missed' \in [Forms \cup {"page"} -> SUBSET Sections]
  BY DEF IInv, TypeOK, Missed
<1>2. TypeOK'
  <2>1. writes' \in 0..MaxWrites
    BY BoundAssumption DEF IInv, TypeOK
  <2>2. QED
    BY <1>1, <2>1 DEF IInv, TypeOK
<1>3. FormsAgree'
  <2>1. SUFFICES ASSUME NEW f \in Forms, open'[f] # NoForm
                 PROVE  Agrees(open[f], missed[f])'
    BY DEF FormsAgree
  <2>2. open'[f] = open[f] /\ missed'[f] = missed[f] \cup own
    BY <1>1, <2>1
  <2>3. Agrees(open[f], missed[f])
    BY <2>1, <2>2 DEF IInv, FormsAgree
  <2>4. QED
    BY <2>2, <2>3 DEF Agrees
<1>4. PageAgrees'
  BY <1>1 DEF IInv, PageAgrees
<1>5. WindowsCounted'
  <2>1. ASSUME NEW team \in Teams, FewWindows(team)
        PROVE  \A r \in Reps : team[r].windows <= writes'
    <3>1. \A r \in Reps : team[r].windows \in Int
      BY BoundAssumption DEF Teams, Member, Absent
    <3>2. writes \in Int
      BY BoundAssumption DEF IInv, TypeOK
    <3>3. QED
      BY <2>1, <3>1, <3>2 DEF FewWindows
  <2>2. page \in Teams /\ \A f \in Forms : open[f] # NoForm => open[f].team \in Teams
    BY DEF IInv, TypeOK, Configs, Teams
  <2>3. QED
    BY <2>1, <2>2 DEF IInv, WindowsCounted, FewWindows
<1>6. QED
  BY <1>2, <1>3, <1>4, <1>5 DEF IInv, StoredIsKept

\* A step that leaves the settings and all copies alone, or closes some.
LEMMA ReadHolds ==
  ASSUME IInv, open' \in [Forms -> Configs \cup {NoForm}],
         \A f \in Forms : open'[f] = open[f] \/ open'[f] = NoForm,
         exists' \in BOOLEAN, column' \in 0..1, asked' \subseteq Reps,
         writes' = writes \/ (writes < MaxWrites /\ writes' = writes + 1),
         UNCHANGED <<listed, config, page, kept, missed>>
  PROVE  IInv'
<1>1. writes \in 0..MaxWrites /\ writes' \in 0..MaxWrites /\ writes <= writes'
  BY BoundAssumption DEF IInv, TypeOK
<1>2. TypeOK'
  BY <1>1 DEF IInv, TypeOK
<1>3. FormsAgree' /\ PageAgrees' /\ StoredIsKept'
  BY DEF IInv, FormsAgree, PageAgrees, StoredIsKept, Agrees
<1>4. WindowsCounted'
  <2>1. ASSUME NEW team \in Teams, FewWindows(team)
        PROVE  \A r \in Reps : team[r].windows <= writes'
    <3>1. \A r \in Reps : team[r].windows \in Int
      BY BoundAssumption DEF Teams, Member, Absent
    <3>2. QED
      BY <1>1, <2>1, <3>1 DEF FewWindows
  <2>2. config.team \in Teams /\ page \in Teams
        /\ \A f \in Forms : open[f] # NoForm => open[f].team \in Teams
    BY DEF IInv, TypeOK, Configs, Teams
  <2>3. QED
    BY <2>1, <2>2 DEF IInv, WindowsCounted, FewWindows
<1>5. QED
  BY <1>2, <1>3, <1>4 DEF IInv
-----------------------------------------------------------------------------
(* The handlers                                                            *)

\* The fields a form posts.
LEMMA PostedFields ==
  ASSUME NEW f \in Forms \ {"admin"}, NEW values \in Posted(f)
  PROVE  \E own \in SUBSET Fields : values \in [own -> 0..1]
<1>1. CASE f = "channels"
  <2>1. {"digest"} \in SUBSET Fields /\ values \in [{"digest"} -> 0..1]
    BY <1>1 DEF Posted, Fields
  <2>2. QED
    BY <2>1
<1>2. CASE f = "business"
  <2>1. {"shown"} \in SUBSET Fields /\ {"shown", "number"} \in SUBSET Fields
    BY DEF Fields
  <2>2. values \in [{"shown"} -> 0..1] \/ values \in [{"shown", "number"} -> 0..1]
    BY <1>2 DEF Posted
  <2>3. QED
    BY <2>1, <2>2
<1>3. CASE f = "ai"
  <2>1. {} \in SUBSET Fields /\ {"mode"} \in SUBSET Fields
    BY DEF Fields
  <2>2. values \in [{} -> 0..1] \/ values \in [{"mode"} -> 0..1]
    BY <1>3 DEF Posted
  <2>3. QED
    BY <2>1, <2>2
<1>4. CASE f = "compliance"
  <2>1. {"quiet"} \in SUBSET Fields /\ values \in [{"quiet"} -> 0..1]
    BY <1>4 DEF Posted, Fields
  <2>2. QED
    BY <2>1
<1>5. QED
  BY <1>1, <1>2, <1>3, <1>4 DEF Forms

\* What the handlers have set when a form is stored is the copy with the form's values:
\* what the form did not miss has not changed.
LEMMA KeptIsStored ==
  ASSUME IInv, NEW f \in Forms, open[f] # NoForm,
         NEW own \in SUBSET Fields, NEW values \in [own -> 0..1]
  PROVE  KeptAfter(f, values) = Set(open[f], values)
<1>1. open[f] \in Configs /\ config \in Configs /\ kept = config /\ missed[f] \in SUBSET Sections
  BY DEF IInv, TypeOK, StoredIsKept
<1>2. Agrees(open[f], missed[f])
  BY DEF IInv, FormsAgree
<1>3. KeptAfter(f, values).team = open[f].team
  BY <1>1, <1>2 DEF KeptAfter, Agrees
<1> DEFINE fields == [g \in Fields |-> IF g \in DOMAIN values THEN values[g]
                                       ELSE IF g \in missed[f] THEN open[f].fields[g]
                                       ELSE kept.fields[g]]
           laid == [g \in Fields |-> IF g \in DOMAIN values THEN values[g] ELSE open[f].fields[g]]
<1>4. fields = laid
  <2>1. \A g \in Fields : g \notin missed[f] => open[f].fields[g] = kept.fields[g]
    BY <1>1, <1>2 DEF Agrees
  <2>2. QED
    BY <2>1
<1>5. KeptAfter(f, values) = [fields |-> fields, team |-> KeptAfter(f, values).team]
  BY DEF KeptAfter
<1>6. Set(open[f], values) = [open[f] EXCEPT !.fields = laid]
  BY DEF Set
<1> HIDE DEF fields, laid
<1>7. Set(open[f], values) = [fields |-> laid, team |-> open[f].team]
  BY <1>1, <1>6 DEF Configs
<1>8. QED
  BY <1>3, <1>4, <1>5, <1>7

\* A settings form is stored.
LEMMA SaveHolds ==
  ASSUME IInv, NEW f \in Forms \ {"admin"}, NEW values \in Posted(f), Save(f, values)
  PROVE  IInv'
<1>1. PICK own \in SUBSET Fields : values \in [own -> 0..1]
  BY PostedFields
<1>2. /\ writes < MaxWrites /\ writes' = writes + 1 /\ open[f] # NoForm
      /\ config' = Set(open[f], values) /\ kept' = KeptAfter(f, values)
      /\ missed' = Missed(own \cup missed[f])
      /\ open' = [open EXCEPT ![f] = NoForm]
      /\ UNCHANGED <<listed, exists, column, page, asked>>
  BY <1>1 DEF Save, Request
<1>3. open[f] \in Configs /\ Agrees(open[f], missed[f]) /\ missed[f] \in SUBSET Sections
  BY <1>2 DEF IInv, TypeOK, FormsAgree
<1>4. kept' = config'
  BY <1>1, <1>2, KeptIsStored
<1>5. /\ config' \in Configs /\ config'.team = open[f].team
      /\ \A g \in Fields : config'.fields[g] = IF g \in own THEN values[g] ELSE open[f].fields[g]
  BY <1>1, <1>2, <1>3, SetFields
<1>6. \A g \in Fields \ (own \cup missed[f]) : config'.fields[g] = config.fields[g]
  BY <1>3, <1>5 DEF Agrees
<1>7. "team" \notin own \cup missed[f] => config'.team = config.team
  BY <1>3, <1>5 DEF Agrees
<1>8. \A r \in Reps : config'.team[r].windows <= writes + 1
  <2>1. \A r \in Reps : open[f].team[r].windows \in Int /\ open[f].team[r].windows <= writes
    BY <1>2, <1>3, BoundAssumption DEF IInv, WindowsCounted, FewWindows, Configs, Member, Absent
  <2>2. writes \in Int
    BY BoundAssumption DEF IInv, TypeOK
  <2>3. QED
    BY <1>5, <2>1, <2>2
<1>9. own \cup missed[f] \in SUBSET Sections
  BY <1>3 DEF Sections
<1>10. /\ open' \in [Forms -> Configs \cup {NoForm}]
       /\ \A g \in Forms : open'[g] = open[g] \/ open'[g] = NoForm
  BY <1>2 DEF IInv, TypeOK
<1>11. exists' \in BOOLEAN /\ column' \in 0..1 /\ asked' \subseteq Reps
  BY <1>2 DEF IInv, TypeOK
<1>12. QED
  BY <1>2, <1>4, <1>5, <1>6, <1>7, <1>8, <1>9, <1>10, <1>11, WriteHolds

\* One representative's entry is changed.
LEMMA TeamHolds ==
  ASSUME IInv, NEW r \in Reps, NEW row \in Member, row.windows <= writes + 1,
         Team(r, row), asked' \subseteq Reps
  PROVE  IInv'
<1>1. /\ exists /\ writes < MaxWrites /\ writes' = writes + 1
      /\ config' = [config EXCEPT !.team[r] = row] /\ kept' = [kept EXCEPT !.team[r] = row]
      /\ missed' = Missed({"team"})
      /\ UNCHANGED <<listed, exists, column, open, page>>
  BY DEF Team, Request
<1>2. config \in Configs /\ kept = config /\ config.team \in Teams
  BY DEF IInv, TypeOK, StoredIsKept, Configs, Teams
<1>3. kept' = config'
  BY <1>1, <1>2
<1> DEFINE team == [config.team EXCEPT ![r] = row]
<1>4. team \in Teams /\ \A s \in Reps : team[s] = IF s = r THEN row ELSE config.team[s]
  BY <1>2 DEF Teams
<1>5. config' = [config EXCEPT !.team = team]
  BY <1>1
<1> HIDE DEF team
<1>6. config' \in Configs /\ config'.team = team /\ config'.fields = config.fields
  BY <1>2, <1>4, <1>5 DEF Configs, Teams
<1>7. \A s \in Reps : config'.team[s].windows <= writes + 1
  <2>1. \A s \in Reps : config.team[s].windows \in Int /\ config.team[s].windows <= writes
    BY <1>2, BoundAssumption DEF IInv, WindowsCounted, FewWindows, Teams, Member, Absent
  <2>2. writes \in Int
    BY BoundAssumption DEF IInv, TypeOK
  <2>3. QED
    BY <1>4, <1>6, <2>1, <2>2
<1>8. {"team"} \in SUBSET Sections
  BY DEF Sections
<1>9. /\ open' \in [Forms -> Configs \cup {NoForm}] /\ \A f \in Forms : open'[f] = open[f]
      /\ exists' \in BOOLEAN /\ column' \in 0..1
  BY <1>1 DEF IInv, TypeOK
<1>10. QED
  BY <1>1, <1>3, <1>6, <1>7, <1>8, <1>9, WriteHolds
\* The handlers of the team and of its windows.
LEMMA MemberHolds ==
  ASSUME IInv, NEW r \in Reps,
         AddMember(r) \/ AddWindow(r) \/ RemoveWindow(r) \/ Link(r) \/ Confirm(r)
  PROVE  IInv'
<1>1. /\ config.team[r] \in Member \cup {Absent} /\ asked \subseteq Reps
      /\ config.team[r].windows <= writes /\ writes \in 0..MaxWrites /\ MaxWrites \in Nat
  BY BoundAssumption DEF IInv, TypeOK, Configs, WindowsCounted, FewWindows
<1>2. asked' \subseteq Reps
  BY <1>1 DEF AddMember, AddWindow, RemoveWindow, Link, Confirm
<1>3. writes < MaxWrites
  BY DEF AddMember, AddWindow, RemoveWindow, Link, Confirm, Team, Request
<1>4. config.team[r] = Absent \/ config.team[r] \in Member
  BY <1>1
<1>5. Absent.windows = -1 /\ Absent.chat = FALSE
  BY DEF Absent
<1>6. ASSUME NEW m \in Member
      PROVE  m.windows \in 0..MaxWrites /\ m.chat \in BOOLEAN
  BY DEF Member
<1>7. CASE AddMember(r)
  <2> DEFINE row == [chat |-> FALSE, windows |-> 0]
  <2>1. Team(r, row) /\ row \in Member /\ row.windows <= writes + 1
    BY <1>1, <1>7 DEF AddMember, Member
  <2> HIDE DEF row
  <2>2. QED
    BY <1>2, <2>1, TeamHolds
<1>8. CASE AddWindow(r) \/ Confirm(r)
  <2> DEFINE row == [config.team[r] EXCEPT !.windows = config.team[r].windows + 1]
  <2>1. config.team[r] \in Member
    BY <1>4, <1>5, <1>8 DEF AddWindow, Confirm, Knows
  <2>2. Team(r, row)
    BY <1>8 DEF AddWindow, Confirm
  <2>3. config.team[r].windows + 1 \in 0..MaxWrites /\ config.team[r].windows + 1 <= writes + 1
    BY <1>1, <1>3, <1>6, <2>1
  <2>4. row \in Member /\ row.windows <= writes + 1
    BY <2>1, <2>3 DEF Member
  <2> HIDE DEF row
  <2>5. QED
    BY <1>2, <2>2, <2>4, TeamHolds
<1>9. CASE RemoveWindow(r)
  <2> DEFINE row == [config.team[r] EXCEPT !.windows = config.team[r].windows - 1]
  <2>1. config.team[r] \in Member
    BY <1>4, <1>5, <1>9 DEF RemoveWindow
  <2>2. Team(r, row) /\ config.team[r].windows > 0
    BY <1>9 DEF RemoveWindow
  <2>3. config.team[r].windows - 1 \in 0..MaxWrites /\ config.team[r].windows - 1 <= writes + 1
    BY <1>1, <1>6, <2>1, <2>2
  <2>4. row \in Member /\ row.windows <= writes + 1
    BY <2>1, <2>3 DEF Member
  <2> HIDE DEF row
  <2>5. QED
    BY <1>2, <2>2, <2>4, TeamHolds
<1>10. CASE Link(r)
  <2> DEFINE row == [config.team[r] EXCEPT !.chat = TRUE]
  <2>1. config.team[r] \in Member
    BY <1>4, <1>10 DEF Link
  <2>2. Team(r, row)
    BY <1>10 DEF Link
  <2>3. row \in Member /\ row.windows = config.team[r].windows
    BY <2>1 DEF Member
  <2>4. row.windows <= writes + 1
    BY <1>1, <1>6, <2>1, <2>3
  <2> HIDE DEF row
  <2>5. QED
    BY <1>2, <2>2, <2>3, <2>4, TeamHolds
<1>11. QED
  BY <1>7, <1>8, <1>9, <1>10

\* A form is loaded, a page shown: the copy is as the column, and has missed nothing.
LEMMA CopyHolds ==
  ASSUME IInv, ShowPage \/ \E f \in Forms : Load(f)
  PROVE  IInv'
<1>1. missed \in [Forms \cup {"page"} -> SUBSET Sections] /\ config \in Configs
      /\ open \in [Forms -> Configs \cup {NoForm}] /\ "page" \notin Forms
  BY DEF IInv, TypeOK, Forms
<1>2. ASSUME NEW f \in Forms, Load(f)
      PROVE  IInv'
  <2>1. /\ open' = [open EXCEPT ![f] = config] /\ missed' = [missed EXCEPT ![f] = {}]
        /\ UNCHANGED <<listed, exists, config, column, page, asked, kept, writes>>
    BY <1>2 DEF Load
  <2>2. TypeOK'
    BY <1>1, <2>1 DEF IInv, TypeOK
  <2>3. FormsAgree'
    <3>1. SUFFICES ASSUME NEW g \in Forms, open'[g] # NoForm
                   PROVE  Agrees(open[g], missed[g])'
      BY DEF FormsAgree
    <3>2. CASE g = f
      <4>1. open'[g] = config'
        BY <1>1, <2>1, <3>2
      <4>2. QED
        BY <4>1 DEF Agrees
    <3>3. CASE g # f
      <4>1. open'[g] = open[g] /\ missed'[g] = missed[g]
        BY <1>1, <2>1, <3>3
      <4>2. QED
        BY <2>1, <3>1, <4>1 DEF IInv, FormsAgree, Agrees
    <3>4. QED
      BY <3>2, <3>3
  <2>4. PageAgrees'
    BY <1>1, <2>1 DEF IInv, PageAgrees
  <2>5. WindowsCounted'
    BY <1>1, <2>1 DEF IInv, WindowsCounted, FewWindows
  <2>6. QED
    BY <2>1, <2>2, <2>3, <2>4, <2>5 DEF IInv, StoredIsKept
<1>3. CASE ShowPage
  <2>1. /\ page' = config.team /\ missed' = [missed EXCEPT !["page"] = {}]
        /\ UNCHANGED <<listed, exists, config, column, open, asked, kept, writes>>
    BY <1>3 DEF ShowPage
  <2>2. TypeOK'
    BY <1>1, <2>1 DEF IInv, TypeOK, Configs
  <2>3. FormsAgree'
    BY <1>1, <2>1 DEF IInv, FormsAgree, Agrees
  <2>4. PageAgrees'
    BY <2>1 DEF PageAgrees
  <2>5. WindowsCounted'
    BY <2>1 DEF IInv, WindowsCounted, FewWindows
  <2>6. QED
    BY <2>1, <2>2, <2>3, <2>4, <2>5 DEF IInv, StoredIsKept
<1>4. QED
  BY <1>2, <1>3

\* The administrator's edit: of the team, what the page showed and is unchanged is kept.
LEMMA EditHolds ==
  ASSUME IInv, NEW team \in Edits,
         NEW own \in {{"number"}, {"number", "hours"}}, NEW values \in [own -> 0..1],
         Edit(team, values)
  PROVE  IInv'
<1> DEFINE loaded == open["admin"]
           stored == team # loaded.team /\ \E r \in Reps : page[r] # Absent
<1>1. /\ exists /\ writes < MaxWrites /\ writes' = writes + 1 /\ loaded # NoForm
      /\ column' = values["number"]
      /\ config' = IF stored THEN [Set(loaded, values) EXCEPT !.team = team] ELSE config
      /\ kept' = IF ~stored THEN kept
                 ELSE [KeptAfter("admin", values) EXCEPT !.team =
                         IF "team" \in missed["page"] THEN team
                         ELSE [r \in Reps |-> IF team[r] = page[r] THEN kept.team[r] ELSE team[r]]]
      /\ missed' = IF stored THEN Missed(DOMAIN values \cup {"team"} \cup missed["admin"]) ELSE missed
      /\ open' = [open EXCEPT !["admin"] = NoForm]
      /\ UNCHANGED <<listed, exists, page, asked>>
  BY DEF Edit, Request
<1>2. "admin" \in Forms /\ own \in SUBSET Fields /\ "number" \in own /\ DOMAIN values = own
  BY DEF Forms, Fields
<1>3. /\ loaded \in Configs /\ Agrees(loaded, missed["admin"]) /\ missed["admin"] \in SUBSET Sections
      /\ config \in Configs /\ kept = config
  BY <1>1, <1>2 DEF IInv, TypeOK, FormsAgree, StoredIsKept
<1>4. team \in Teams /\ \A r \in Reps : team[r].windows <= writes + 1
  <2>1. page \in Teams /\ \A r \in Reps : page[r].windows \in Int /\ page[r].windows <= writes
    BY BoundAssumption DEF IInv, TypeOK, WindowsCounted, FewWindows, Teams, Member, Absent
  <2>2. [chat |-> FALSE, windows |-> 0] \in Member /\ Absent.windows = -1 /\ writes \in Nat
    BY BoundAssumption DEF Member, Absent, IInv, TypeOK
  <2>3. ASSUME NEW r \in Reps, NEW row \in {Absent, [chat |-> FALSE, windows |-> 0]},
               team = [page EXCEPT ![r] = row]
        PROVE  team \in Teams /\ \A s \in Reps : team[s].windows <= writes + 1
    <3>1. row.windows <= writes + 1 /\ row \in Member \cup {Absent}
      <4>1. row.windows \in {-1, 0}
        BY <2>3 DEF Absent
      <4>2. row \in Member \cup {Absent}
        BY <2>2, <2>3
      <4>3. QED
        BY <2>2, <4>1, <4>2
    <3>2. \A s \in Reps : team[s] = IF s = r THEN row ELSE page[s]
      BY <2>1, <2>3 DEF Teams
    <3>3. \A s \in Reps : page[s].windows <= writes + 1
      BY <2>1, <2>2
    <3>4. QED
      BY <2>1, <2>3, <3>1, <3>2, <3>3 DEF Teams
  <2>4. CASE team = page
    BY <2>1, <2>2, <2>4
  <2>5. QED
    BY <2>3, <2>4 DEF Edits
<1>5. /\ open' \in [Forms -> Configs \cup {NoForm}]
      /\ \A g \in Forms : open'[g] = open[g] \/ open'[g] = NoForm
      /\ exists' \in BOOLEAN /\ column' \in 0..1 /\ asked' \subseteq Reps
  BY <1>1, <1>2 DEF IInv, TypeOK
<1>6. CASE ~stored
  <2>1. UNCHANGED <<listed, config, page, kept, missed>>
    BY <1>1, <1>6
  <2>2. QED
    BY <1>1, <1>5, <2>1, ReadHolds
<1>7. CASE stored
  <2>1. KeptAfter("admin", values) = Set(loaded, values)
    BY <1>1, <1>2, KeptIsStored
  <2>2. /\ Set(loaded, values) \in Configs
        /\ \A g \in Fields : Set(loaded, values).fields[g] = IF g \in own THEN values[g] ELSE loaded.fields[g]
    BY <1>2, <1>3, SetFields
  <2>3. (IF "team" \in missed["page"] THEN team
         ELSE [r \in Reps |-> IF team[r] = page[r] THEN kept.team[r] ELSE team[r]]) = team
    <3>1. "team" \notin missed["page"] => page = kept.team
      BY <1>3 DEF IInv, PageAgrees
    <3>2. QED
      BY <1>4, <3>1 DEF Teams
  <2>4. config' = [Set(loaded, values) EXCEPT !.team = team] /\ kept' = config'
    BY <1>1, <1>7, <2>1, <2>3
  <2>5. config' \in Configs /\ config'.team = team /\ config'.fields = Set(loaded, values).fields
    BY <1>4, <2>2, <2>4 DEF Configs, Teams
  <2>6. \A g \in Fields \ (own \cup {"team"} \cup missed["admin"]) : config'.fields[g] = config.fields[g]
    BY <1>3, <2>2, <2>5 DEF Agrees
  <2>7. own \cup {"team"} \cup missed["admin"] \in SUBSET Sections
    BY <1>2, <1>3 DEF Sections
  <2>8. missed' = Missed(own \cup {"team"} \cup missed["admin"])
    BY <1>1, <1>2, <1>7
  <2>9. QED
    BY <1>1, <1>4, <1>5, <2>4, <2>5, <2>6, <2>7, <2>8, WriteHolds
<1>8. QED
  BY <1>6, <1>7

\* A dealer onboarded again, or provisioned from its file.
LEMMA FirstHolds ==
  ASSUME IInv, Restart \/ \E number \in 0..1 : Onboard(number)
  PROVE  IInv'
<1>1. writes \in Nat /\ Sections \in SUBSET Sections /\ "team" \in Sections /\ Fields \ Sections = {}
  BY BoundAssumption DEF IInv, TypeOK, Sections
<1>2. ASSUME NEW number \in 0..1, Onboard(number)
      PROVE  IInv'
  <2>1. /\ writes < MaxWrites /\ writes' = writes + 1 /\ exists' = TRUE /\ column' = number
        /\ config' = OnboardedConfig(number) /\ kept' = config' /\ missed' = Missed(Sections)
        /\ UNCHANGED <<listed, open, page, asked>>
    BY <1>2 DEF Onboard
  <2>2. config' \in Configs /\ \A r \in Reps : config'.team[r].windows = -1
    BY <1>2, <2>1, FirstConfigs
  <2>3. -1 <= writes + 1
    BY <1>1
  <2>4. /\ open' \in [Forms -> Configs \cup {NoForm}] /\ \A f \in Forms : open'[f] = open[f]
        /\ exists' \in BOOLEAN /\ column' \in 0..1 /\ asked' \subseteq Reps
    BY <2>1 DEF IInv, TypeOK
  <2>5. QED
    BY <1>1, <2>1, <2>2, <2>3, <2>4, WriteHolds
<1>3. CASE Restart
  <2>1. /\ writes < MaxWrites /\ writes' = writes + 1
        /\ open' \in [Forms -> Configs \cup {NoForm}] /\ \A f \in Forms : open'[f] = NoForm
        /\ asked' \subseteq Reps /\ UNCHANGED <<listed, page>>
    BY <1>3 DEF Restart
  <2>2. CASE listed
    <3>1. /\ exists' = TRUE /\ config' = FileConfig /\ column' = 0 /\ kept' = config'
          /\ missed' = Missed(Sections)
      BY <1>3, <2>2 DEF Restart
    <3>2. config' \in Configs /\ \A r \in Reps : config'.team[r].windows = 0
      BY <3>1, FirstConfigs
    <3>3. 0 <= writes + 1 /\ exists' \in BOOLEAN /\ column' \in 0..1
      BY <1>1, <3>1
    <3>4. QED
      BY <1>1, <2>1, <3>1, <3>2, <3>3, WriteHolds
  <2>3. CASE ~listed
    <3>1. UNCHANGED <<exists, config, column, kept, missed>>
      BY <1>3, <2>3 DEF Restart
    <3>2. exists' \in BOOLEAN /\ column' \in 0..1
      BY <3>1 DEF IInv, TypeOK
    <3>3. QED
      BY <2>1, <3>1, <3>2, ReadHolds
  <2>4. QED
    BY <2>2, <2>3
<1>4. QED
  BY <1>2, <1>3

\* Questions, answers and requests that leave the settings alone.
LEMMA OthersHold ==
  ASSUME IInv,
         Delete \/ (\E f \in Forms : SaveFails(f)) \/ (\E r \in Reps : Ask(r) \/ Cancel(r))
  PROVE  IInv'
<1>1. /\ open' \in [Forms -> Configs \cup {NoForm}]
      /\ \A f \in Forms : open'[f] = open[f] \/ open'[f] = NoForm
  BY DEF Delete, SaveFails, Ask, Cancel, IInv, TypeOK
<1>2. exists' \in BOOLEAN /\ column' \in 0..1 /\ asked' \subseteq Reps
  BY DEF Delete, SaveFails, Ask, Cancel, IInv, TypeOK
<1>3. /\ writes' = writes \/ (writes < MaxWrites /\ writes' = writes + 1)
      /\ UNCHANGED <<listed, config, page, kept, missed>>
  BY DEF Delete, Request, SaveFails, Ask, Cancel
<1>4. QED
  BY <1>1, <1>2, <1>3, ReadHolds
-----------------------------------------------------------------------------
(* The invariant and what it says                                          *)

\* At first the settings are the file's or an onboarded dealer's, and no copy is out.
LEMMA InitHolds == Init => IInv
<1> SUFFICES ASSUME Init PROVE IInv
  OBVIOUS
<1>1. config \in Configs /\ \A r \in Reps : config.team[r].windows <= 0
  <2>1. \A r \in Reps : OnboardedConfig(0).team[r].windows <= 0
    BY FirstConfigs
  <2>2. QED
    BY <2>1, FirstConfigs DEF Init
<1>2. page = config.team /\ kept = config /\ writes = 0 /\ \A f \in Forms : open[f] = NoForm
  BY DEF Init
<1>3. TypeOK
  BY <1>1, <1>2, BoundAssumption DEF Init, TypeOK, Configs
<1>4. QED
  BY <1>1, <1>2, <1>3
     DEF IInv, StoredIsKept, FormsAgree, PageAgrees, WindowsCounted, FewWindows

\* Every step keeps it.
LEMMA NextHolds == IInv /\ [Next]_vars => IInv'
<1> SUFFICES ASSUME IInv, [Next]_vars PROVE IInv'
  OBVIOUS
<1>1. CASE ShowPage \/ \E f \in Forms : Load(f)
  BY <1>1, CopyHolds
<1>2. ASSUME NEW f \in Forms \ {"admin"}, NEW values \in Posted(f), Save(f, values)
      PROVE  IInv'
  BY <1>2, SaveHolds
<1>3. ASSUME NEW r \in Reps, AddMember(r) \/ AddWindow(r) \/ RemoveWindow(r) \/ Link(r) \/ Confirm(r)
      PROVE  IInv'
  BY <1>3, MemberHolds
<1>4. CASE Delete \/ (\E f \in Forms : SaveFails(f)) \/ (\E r \in Reps : Ask(r) \/ Cancel(r))
  BY <1>4, OthersHold
<1>5. CASE Restart \/ \E number \in 0..1 : Onboard(number)
  BY <1>5, FirstHolds
<1>6. ASSUME NEW team \in Edits, NEW values \in [{"number"} -> 0..1] \cup [{"number", "hours"} -> 0..1],
             Edit(team, values)
      PROVE  IInv'
  BY <1>6, EditHolds
<1>7. CASE UNCHANGED vars
  BY <1>7 DEF vars, IInv, TypeOK, StoredIsKept, FormsAgree, PageAgrees, WindowsCounted, Agrees, FewWindows
<1>8. QED
  BY <1>1, <1>2, <1>3, <1>4, <1>5, <1>6, <1>7 DEF Next

\* What the theorems below rest on.
LEMMA Invariance == Spec => []IInv
  BY InitHolds, NextHolds, PTL DEF Spec

(***************************************************************************)
(* Settings, copies and counters keep their types: a representative's      *)
(* windows are never fewer than none (remove_unavailable_window).          *)
(***************************************************************************)
THEOREM TypeCorrect == Spec => []TypeOK
<1>1. IInv => TypeOK
  BY DEF IInv
<1>2. QED
  BY <1>1, Invariance, PTL

(***************************************************************************)
(* A stored setting, Telegram link or window stays, whatever other         *)
(* handlers, forms and edits do (dashboard/__init__.py,                    *)
(* admin/__init__.py): only a restart, or a form or page that was already  *)
(* open, takes it away.                                                    *)
(***************************************************************************)
THEOREM Kept == Spec => []StoredIsKept
<1>1. IInv => StoredIsKept
  BY DEF IInv
<1>2. QED
  BY <1>1, Invariance, PTL
-----------------------------------------------------------------------------
(* The times of one day                                                    *)

\* Division with a rest.
LEMMA DivMod ==
  ASSUME NEW a \in Int, NEW b \in Nat \ {0}
  PROVE  /\ a \div b \in Int /\ a % b \in 0..b - 1
         /\ a = b * (a \div b) + (a % b)
OBVIOUS

\* Quotient and rest are unique.
LEMMA Unique ==
  ASSUME NEW b \in Nat \ {0}, NEW q \in Int, NEW s \in Int,
         NEW r \in 0..b - 1, NEW u \in 0..b - 1, b * q + r = b * s + u
  PROVE  q = s /\ r = u
<1>1. q = s
  <2>1. q >= s + 1 => b * q >= b * s + b
    OBVIOUS
  <2>2. s >= q + 1 => b * s >= b * q + b
    OBVIOUS
  <2>3. b * q \in Int /\ b * s \in Int
    OBVIOUS
  <2>4. QED
    BY <2>1, <2>2, <2>3
<1>2. QED
  BY <1>1

\* Times a number of steps apart are on one grid ...
LEMMA StepsApart ==
  ASSUME NEW b \in Nat \ {0}, NEW a \in Int, NEW m \in Int
  PROVE  (a + m * b) % b = a % b
<1> DEFINE c == a + m * b
<1>1. m * b \in Int /\ c \in Int
  OBVIOUS
<1>2. a = b * (a \div b) + (a % b) /\ a \div b \in Int /\ a % b \in 0..b - 1
  BY DivMod
<1>3. c = b * (c \div b) + (c % b) /\ c \div b \in Int /\ c % b \in 0..b - 1
  BY <1>1, DivMod
<1>4. c = b * ((a \div b) + m) + (a % b)
  <2>1. b * ((a \div b) + m) = b * (a \div b) + m * b
    BY <1>2
  <2>2. b * (a \div b) \in Int
    BY <1>2
  <2>3. QED
    BY <1>1, <1>2, <2>1, <2>2
<1> HIDE DEF c
<1>5. (a \div b) + m \in Int
  BY <1>2
<1>6. c % b = a % b
  <2>1. b * (c \div b) + (c % b) = b * ((a \div b) + m) + (a % b)
    BY <1>3, <1>4
  <2> DEFINE q == c \div b
             s == (a \div b) + m
             r == c % b
             u == a % b
  <2>2. q \in Int /\ s \in Int /\ r \in 0..b - 1 /\ u \in 0..b - 1 /\ b * q + r = b * s + u
    BY <1>2, <1>3, <1>5, <2>1
  <2> HIDE DEF q, s, r, u
  <2>3. r = u
    BY <2>2, Unique
  <2>4. QED
    BY <2>3 DEF r, u
<1>7. QED
  BY <1>6 DEF c

\* ... and times on one grid are a number of steps apart.
LEMMA OnGrid ==
  ASSUME NEW b \in Nat \ {0}, NEW a \in Int, NEW c \in Int, c % b = a % b
  PROVE  \E m \in Int : c = a + m * b
<1>1. a = b * (a \div b) + (a % b) /\ a \div b \in Int
  BY DivMod
<1>2. c = b * (c \div b) + (c % b) /\ c \div b \in Int
  BY DivMod
<1> DEFINE m == (c \div b) - (a \div b)
<1>3. m \in Int
  BY <1>1, <1>2
<1>4. m * b = b * (c \div b) - b * (a \div b)
  BY <1>1, <1>2
<1>5. b * (c \div b) \in Int /\ b * (a \div b) \in Int /\ c % b \in Int
  BY <1>1, <1>2, DivMod
<1>6. c = a + m * b
  BY <1>1, <1>2, <1>4, <1>5
<1>7. QED
  BY <1>3, <1>6

\* More steps are no less time.
LEMMA MoreSteps ==
  ASSUME NEW b \in Nat \ {0}, NEW p \in Int, NEW q \in Int, p <= q
  PROVE  p * b <= b * q
<1>1. PICK d \in Nat : q = p + d
  <2>1. q - p \in Nat /\ q = p + (q - p)
    OBVIOUS
  <2>2. QED
    BY <2>1
<1>2. b * q = p * b + d * b
  BY <1>1
<1>3. p * b \in Int /\ d * b \in Nat
  BY <1>1
<1>4. QED
  BY <1>2, <1>3

(***************************************************************************)
(* The slots from "first" on that begin before "close" are all the times   *)
(* of its grid between the two.                                            *)
(***************************************************************************)
LEMMA GridTimes ==
  ASSUME NEW b \in Nat \ {0}, NEW first \in Int, NEW close \in Int, first < close, NEW t \in Int
  PROVE  (\E k \in 1..((close - 1 - first) \div b) + 1 : t = first + (k - 1) * b)
           <=> first <= t /\ t < close /\ t % b = first % b
<1> DEFINE d == close - 1 - first
           n == (d \div b) + 1
<1>1. d \in Nat
  OBVIOUS
<1>2. d = b * (d \div b) + (d % b) /\ d \div b \in Int /\ d % b \in 0..b - 1
  BY <1>1, DivMod
<1>3. ASSUME NEW k \in 1..n, t = first + (k - 1) * b
      PROVE  first <= t /\ t < close /\ t % b = first % b
  <2>1. k - 1 \in Int /\ 0 <= k - 1 /\ k - 1 <= d \div b
    BY <1>2
  <2>2. 0 <= (k - 1) * b /\ (k - 1) * b \in Int
    BY <2>1
  <2>3. (k - 1) * b <= b * (d \div b)
    BY <1>2, <2>1
  <2>4. (k - 1) * b <= d
    <3>1. b * (d \div b) \in Int /\ b * (d \div b) <= d
      BY <1>1, <1>2
    <3>2. QED
      BY <1>1, <2>2, <2>3, <3>1
  <2>5. t % b = first % b
    BY <1>3, <2>1, StepsApart
  <2>6. QED
    BY <1>3, <2>2, <2>4, <2>5
<1>4. ASSUME first <= t, t < close, t % b = first % b
      PROVE  \E k \in 1..n : t = first + (k - 1) * b
  <2>1. PICK m \in Int : t = first + m * b
    BY <1>4, OnGrid
  <2>2. m * b \in Int /\ 0 <= m * b /\ m * b <= d
    BY <1>4, <2>1
  <2>3. m >= 0
    <3>1. m <= -1 => m * b <= -b
      OBVIOUS
    <3>2. QED
      BY <2>2, <3>1
  <2>4. m <= d \div b
    <3>1. m >= (d \div b) + 1 => m * b >= b * (d \div b) + b
      BY <1>2
    <3>2. b * (d \div b) \in Int /\ b * (d \div b) + b > d
      BY <1>1, <1>2
    <3>3. QED
      BY <1>1, <1>2, <2>2, <3>1, <3>2
  <2>5. m + 1 \in 1..n /\ t = first + ((m + 1) - 1) * b
    BY <1>2, <2>1, <2>3, <2>4
  <2>6. QED
    BY <2>5
<1>5. QED
  BY <1>3, <1>4

\* _round_to_nearest_slot: the first time of the clock's grid that has not passed.
LEMMA Rounding ==
  ASSUME NEW t \in Nat, NEW u \in Nat
  PROVE  /\ RoundUp(t) \in Nat /\ RoundUp(t) % Step = 0 /\ t <= RoundUp(t)
         /\ t <= u /\ u % Step = 0 => RoundUp(t) <= u
<1>1. Step \in Nat \ {0}
  BY ClockAssumption
<1> DEFINE a == t + Step - 1
           q == a \div Step
<1>2. a \in Nat
  BY <1>1
<1>3. a = Step * q + (a % Step) /\ q \in Int /\ a % Step \in 0..Step - 1
  BY <1>1, <1>2, DivMod
<1>4. RoundUp(t) = q * Step
  BY DEF RoundUp
<1> HIDE DEF q
<1>5. q * Step \in Int /\ Step * q = q * Step
  BY <1>1, <1>3
<1>6. t <= q * Step /\ q * Step <= t + Step - 1
  BY <1>1, <1>2, <1>3, <1>5
<1>7. (q * Step) % Step = 0
  <2>1. (0 + q * Step) % Step = 0 % Step
    BY <1>1, <1>3, StepsApart
  <2>2. 0 % Step = 0 /\ 0 + q * Step = q * Step
    BY <1>1, <1>5
  <2>3. QED
    BY <2>1, <2>2
<1>8. ASSUME t <= u, u % Step = 0
      PROVE  q * Step <= u
  <2>1. u = Step * (u \div Step) /\ u \div Step \in Int
    <3>1. u = Step * (u \div Step) + (u % Step) /\ u \div Step \in Int
      BY <1>1, DivMod
    <3>2. QED
      BY <1>1, <1>8, <3>1
  <2>2. (u \div Step) + 1 <= q => Step * (u \div Step) + Step <= q * Step
    BY <1>1, <1>3, <2>1
  <2>3. ~((u \div Step) + 1 <= q)
    BY <1>1, <1>5, <1>6, <1>8, <2>1, <2>2
  <2>4. q <= u \div Step
    BY <1>3, <2>1, <2>3
  <2>5. q * Step <= Step * (u \div Step)
    BY <1>1, <1>3, <1>5, <2>1, <2>4, MoreSteps
  <2>6. QED
    BY <2>1, <2>5
<1> HIDE DEF a
<1>9. QED
  BY <1>4, <1>5, <1>6, <1>7, <1>8

(***************************************************************************)
(* The slots of a day are its free times, in order: the dealer is open,    *)
(* the time has not passed and is on the day's grid, and none is left out  *)
(* (check_availability.py and is_business_hours in conversation.py agree   *)
(* about every day, whatever the hours).                                   *)
(***************************************************************************)
THEOREM DayIsRight ==
  ASSUME NEW hours \in [Weekdays -> Opening], NEW today \in Weekdays, NEW now \in Times,
         NEW i \in 0..DaysAhead - 1
  PROVE  LET slots == DaySlots(hours, today, now, i)
         IN  /\ \A k, l \in DOMAIN slots : k < l => Earlier(slots[k], slots[l])
             /\ {slots[k] : k \in DOMAIN slots} =
                  {slot \in FreeTimes(hours, today, now, {}) : slot[1] = i}
<1> DEFINE slots == DaySlots(hours, today, now, i)
           day   == Weekday(today, i)
           range == hours[day]
           first == FirstSlot(range, i, now)
           n     == ((range.close - 1 - first) \div Step) + 1
           free  == {slot \in FreeTimes(hours, today, now, {}) : slot[1] = i}
<1>1. {DayLen, Week, Step, DaysAhead} \subseteq Nat \ {0} /\ i \in Nat /\ today \in Nat
  BY ClockAssumption DEF Weekdays
<1>2. day \in Weekdays
  <2>1. (today + i) \in Int /\ Week \in Nat \ {0}
    BY <1>1
  <2>2. (today + i) % Week \in 0..Week - 1
    BY <2>1, DivMod
  <2>3. QED
    BY <2>2 DEF Weekday, Weekdays
<1>3. range \in Opening
  BY <1>2
<1>4. \A slot : slot \in free <=>
        \E t \in Times : /\ slot = <<i, t>>
                         /\ IsOpen(hours, day, t)
                         /\ i = 0 => t >= now
                         /\ t % Step = IF i = 0 /\ RoundUp(now) > range.open THEN 0 ELSE range.open % Step
  BY DEF FreeTimes
<1> HIDE DEF day, free
<1>5. CASE range = Closed
  <2>1. slots = <<>>
    BY <1>5 DEF DaySlots, day
  <2>2. \A slot : slot \notin free
    BY <1>4, <1>5 DEF IsOpen
  <2>3. QED
    BY <2>1, <2>2 DEF free
<1>6. CASE range # Closed
  <2>1. range.open \in Times /\ range.close \in 0..DayLen
    BY <1>3, <1>6 DEF Opening
  <2>2. now \in Nat /\ range.open \in Nat /\ range.close \in Int /\ DayLen \in Nat
    BY <1>1, <2>1 DEF Times
  <2>3. RoundUp(now) \in Nat /\ RoundUp(now) % Step = 0 /\ now <= RoundUp(now)
    BY <2>2, Rounding
  <2>4. first = (IF i = 0 /\ RoundUp(now) > range.open THEN RoundUp(now) ELSE range.open)
    BY DEF FirstSlot
  <2>5. first \in Nat /\ range.open <= first /\ (i = 0 => now <= first)
        /\ first % Step = IF i = 0 /\ RoundUp(now) > range.open THEN 0 ELSE range.open % Step
    BY <2>2, <2>3, <2>4
  <2>6. ASSUME NEW t \in Times, range.open <= t, i = 0 => now <= t, t % Step = first % Step
        PROVE  first <= t
    <3>1. t \in Nat
      BY <1>1 DEF Times
    <3>2. CASE i = 0 /\ RoundUp(now) > range.open
      BY <2>2, <2>3, <2>4, <2>6, <3>1, <3>2, Rounding
    <3>3. CASE ~(i = 0 /\ RoundUp(now) > range.open)
      BY <2>4, <2>6, <3>3
    <3>4. QED
      BY <3>2, <3>3
  <2>7. \A t \in Times : <<i, t>> \in free <=> first <= t /\ t < range.close /\ t % Step = first % Step
    <3> TAKE t \in Times
    <3>1. t \in Nat
      BY <1>1 DEF Times
    <3>2. <<i, t>> \in free <=>
            /\ range.open <= t /\ t < range.close /\ (i = 0 => t >= now)
            /\ t % Step = first % Step
      BY <1>4, <1>6, <2>5 DEF IsOpen
    <3>3. QED
      BY <2>2, <2>5, <2>6, <3>1, <3>2
  <2> HIDE DEF first
  <2>8. CASE first >= range.close
    <3>1. slots = <<>>
      BY <2>8 DEF DaySlots, day, first
    <3>2. \A t \in Times : <<i, t>> \notin free
      BY <1>1, <2>2, <2>5, <2>7, <2>8 DEF Times
    <3>3. \A slot : slot \notin free
      BY <1>4, <3>2
    <3>4. QED
      BY <3>1, <3>3 DEF free
  <2>9. CASE first < range.close
    <3>1. slots = [k \in 1..n |-> <<i, first + (k - 1) * Step>>]
      BY <1>6, <2>2, <2>5, <2>9 DEF DaySlots, day, first
    <3>2. \A t \in Int : (\E k \in 1..n : t = first + (k - 1) * Step)
                           <=> first <= t /\ t < range.close /\ t % Step = first % Step
      <4> DEFINE close == range.close
      <4>1. Step \in Nat \ {0} /\ first \in Int /\ close \in Int /\ first < close
        BY <1>1, <2>2, <2>5, <2>9
      <4> HIDE DEF close
      <4>2. \A t \in Int : (\E k \in 1..((close - 1 - first) \div Step) + 1 : t = first + (k - 1) * Step)
                             <=> first <= t /\ t < close /\ t % Step = first % Step
        BY <4>1, GridTimes
      <4>3. QED
        BY <4>2 DEF close
    <3> HIDE DEF n, slots
    <3>3. \A k \in 1..n : k \in Int /\ first + (k - 1) * Step \in Int
      <4> TAKE k \in 1..n
      <4>1. k \in Int /\ Step \in Int /\ first \in Int
        BY <1>1, <2>5
      <4>2. (k - 1) * Step \in Int
        BY <4>1
      <4>3. QED
        BY <4>1, <4>2
    <3>4. \A k \in 1..n : first + (k - 1) * Step \in Times /\ slots[k] \in free
      <4> TAKE k \in 1..n
      <4> DEFINE t == first + (k - 1) * Step
      <4>1. t \in Int /\ first <= t /\ t < range.close /\ t % Step = first % Step
        BY <3>2, <3>3
      <4>2. t \in Times
        BY <2>1, <2>2, <2>5, <4>1 DEF Times
      <4>3. slots[k] = <<i, t>>
        BY <3>1
      <4> HIDE DEF t
      <4>4. slots[k] \in free
        BY <2>7, <4>1, <4>2, <4>3
      <4>5. QED
        BY <4>2, <4>4 DEF t
    <3>5. \A slot \in free : \E k \in 1..n : slots[k] = slot
      <4> TAKE slot \in free
      <4>1. PICK t \in Times : slot = <<i, t>>
        BY <1>4
      <4>2. t \in Int
        BY <1>1 DEF Times
      <4>3. PICK k \in 1..n : t = first + (k - 1) * Step
        BY <2>7, <3>2, <4>1, <4>2
      <4>4. QED
        BY <3>1, <4>1, <4>3
    <3>6. \A k, l \in 1..n : k < l => Earlier(slots[k], slots[l])
      <4> TAKE k, l \in 1..n
      <4> HAVE k < l
      <4>1. k \in Int /\ l \in Int /\ Step \in Nat \ {0}
        BY <1>1, <3>3
      <4>2. (k - 1) * Step < (l - 1) * Step
        <5>1. (k - 1) * Step + Step = k * Step /\ (k - 1) * Step \in Int /\ k * Step \in Int
          BY <4>1
        <5>2. k * Step <= Step * (l - 1) /\ Step * (l - 1) = (l - 1) * Step /\ (l - 1) * Step \in Int
          BY <4>1, MoreSteps
        <5>3. QED
          BY <4>1, <5>1, <5>2
      <4>3. (k - 1) * Step \in Int /\ (l - 1) * Step \in Int
        BY <4>1
      <4>4. first + (k - 1) * Step < first + (l - 1) * Step
        BY <2>5, <4>2, <4>3
      <4>5. QED
        BY <3>1, <4>4 DEF Earlier
    <3>7. DOMAIN slots = 1..n
      BY <3>1
    <3>8. {slots[k] : k \in DOMAIN slots} = free
      BY <3>4, <3>5, <3>7
    <3>9. QED
      BY <3>6, <3>7, <3>8 DEF slots, free
  <2>10. QED
    BY <2>2, <2>5, <2>8, <2>9
<1>7. QED
  BY <1>5, <1>6
-----------------------------------------------------------------------------
(* The times on offer                                                      *)

AllTimes == (0..DaysAhead - 1) \X Times

\* A list of the times of a set, in order.
Lists(list, set) ==
  /\ list \in Seq(AllTimes)
  /\ \A k, l \in DOMAIN list : k < l => Earlier(list[k], list[l])
  /\ {list[k] : k \in DOMAIN list} = set

\* A time is a pair of numbers; of two, only one can be the earlier.
LEMMA Order ==
  /\ \A a \in AllTimes : a[1] \in Nat /\ a[2] \in Nat /\ ~Earlier(a, a)
  /\ \A a, b \in AllTimes : Earlier(a, b) => ~Earlier(b, a)
<1>1. \A a \in AllTimes : a[1] \in Nat /\ a[2] \in Nat
  <2>1. DaysAhead \in Nat /\ DayLen \in Nat
    BY ClockAssumption
  <2>2. QED
    BY <2>1 DEF AllTimes, Times
<1>2. QED
  BY <1>1 DEF Earlier

\* In a list in order, each time has as many earlier ones as stand before it.
LEMMA Ranks ==
  ASSUME NEW S, NEW list, Lists(list, S)
  PROVE  /\ Len(list) = Cardinality(S)
         /\ \A k \in DOMAIN list : /\ list[k] \in S
                                   /\ Cardinality({x \in S : Earlier(x, list[k])}) = k - 1
<1>1. Len(list) \in Nat /\ DOMAIN list = 1..Len(list) /\ \A k \in DOMAIN list : list[k] \in AllTimes
  BY DEF Lists
<1>2. \A k, l \in DOMAIN list : list[k] = list[l] => k = l
  <2>1. \A k, l \in DOMAIN list : k < l => list[k] # list[l]
    BY <1>1, Order DEF Lists
  <2>2. QED
    BY <1>1, <2>1
<1>3. list \in Bijection(1..Len(list), S)
  BY <1>1, <1>2 DEF Lists, Bijection, Injection, Surjection, IsInjective
<1>4. Len(list) = Cardinality(S)
  BY <1>1, <1>3, FS_CountingElements DEF ExistsBijection
<1>5. ASSUME NEW k \in DOMAIN list
      PROVE  Cardinality({x \in S : Earlier(x, list[k])}) = k - 1
  <2> DEFINE before == {x \in S : Earlier(x, list[k])}
             f == [j \in 1..k - 1 |-> list[j]]
  <2>1. k \in Nat /\ k - 1 \in Nat /\ \A j \in 1..k - 1 : j \in DOMAIN list /\ j < k
    BY <1>1
  <2>2. \A j \in 1..k - 1 : list[j] \in before
    BY <2>1 DEF Lists
  <2>3. ASSUME NEW x \in before PROVE \E j \in 1..k - 1 : list[j] = x
    <3>1. PICK j \in DOMAIN list : list[j] = x
      BY DEF Lists
    <3>2. Earlier(list[j], list[k])
      BY <3>1
    <3>3. j # k
      BY <1>1, <3>2, Order
    <3>4. ~(k < j)
      BY <1>1, <3>2, Order DEF Lists
    <3>5. j \in 1..k - 1
      BY <1>1, <3>3, <3>4
    <3>6. QED
      BY <3>1, <3>5
  <2> HIDE DEF before
  <2>4. f \in Bijection(1..k - 1, before)
    BY <1>2, <2>1, <2>2, <2>3 DEF Bijection, Injection, Surjection, IsInjective
  <2> HIDE DEF f
  <2>5. Cardinality(before) = k - 1
    BY <2>1, <2>4, FS_CountingElements DEF ExistsBijection
  <2>6. QED
    BY <2>5 DEF before
<1>6. QED
  BY <1>4, <1>5 DEF Lists

\* A list joined to one of later times, or to one later time.
LEMMA Joins ==
  ASSUME NEW S, NEW T, NEW s, NEW t, Lists(s, S), Lists(t, T),
         \A a \in S, b \in T : Earlier(a, b)
  PROVE  Lists(s \o t, S \cup T)
<1> DEFINE u == s \o t
           m == Len(s)
           n == Len(t)
<1>1. /\ m \in Nat /\ n \in Nat /\ DOMAIN s = 1..m /\ DOMAIN t = 1..n
      /\ u \in Seq(AllTimes) /\ Len(u) = m + n /\ DOMAIN u = 1..m + n
  BY DEF Lists
<1>2. \A k \in 1..m : u[k] = s[k]
  BY DEF Lists
<1>3. \A k \in m + 1..m + n : u[k] = t[k - m] /\ k - m \in 1..n
  BY <1>1 DEF Lists
<1>4. \A k \in 1..n : m + k \in m + 1..m + n /\ u[m + k] = t[k]
  <2>1. \A k \in 1..n : m + k \in m + 1..m + n /\ (m + k) - m = k
    BY <1>1
  <2>2. QED
    BY <1>3, <2>1
<1>5. \A k \in DOMAIN u : k \in 1..m \/ k \in m + 1..m + n
  BY <1>1
<1>6. \A k \in 1..m : k \in DOMAIN u
  BY <1>1
<1>7. \A k \in m + 1..m + n : k \in DOMAIN u
  BY <1>1
<1> HIDE DEF u
<1>8. {u[k] : k \in DOMAIN u} = S \cup T
  <2>1. \A k \in DOMAIN u : u[k] \in S \cup T
    <3>1. \A k \in 1..m : u[k] \in S
      BY <1>1, <1>2 DEF Lists
    <3>2. \A k \in m + 1..m + n : u[k] \in T
      BY <1>1, <1>3 DEF Lists
    <3>3. QED
      BY <1>5, <3>1, <3>2
  <2>2. \A x \in S : \E k \in DOMAIN u : u[k] = x
    BY <1>1, <1>2, <1>6 DEF Lists
  <2>3. \A x \in T : \E k \in DOMAIN u : u[k] = x
    BY <1>1, <1>4, <1>7 DEF Lists
  <2>4. QED
    BY <2>1, <2>2, <2>3
<1>9. ASSUME NEW k \in DOMAIN u, NEW l \in DOMAIN u, k < l PROVE Earlier(u[k], u[l])
  <2>1. CASE l \in 1..m
    <3>1. k \in 1..m
      BY <1>1, <1>9, <2>1
    <3>2. QED
      BY <1>1, <1>2, <1>9, <2>1, <3>1 DEF Lists
  <2>2. CASE k \in 1..m /\ l \in m + 1..m + n
    <3>1. u[k] \in S /\ u[l] \in T
      BY <1>1, <1>2, <1>3, <2>2 DEF Lists
    <3>2. QED
      BY <3>1
  <2>3. CASE k \in m + 1..m + n /\ l \in m + 1..m + n
    <3>1. k - m < l - m
      BY <1>1, <1>9
    <3>2. QED
      BY <1>1, <1>3, <2>3, <3>1 DEF Lists
  <2>4. k \in m + 1..m + n => l \in m + 1..m + n
    BY <1>1, <1>9
  <2>5. QED
    BY <1>5, <2>1, <2>2, <2>3, <2>4
<1>10. QED
  BY <1>1, <1>8, <1>9 DEF Lists, u

\* The lists that the days lead through.
LEMMA DaysChain ==
  ASSUME NEW n \in Nat, NEW days \in [1..n -> Seq(AllTimes)]
  PROVE  \E a \in [0..n -> Seq(AllTimes)] :
           /\ a[0] = <<>> /\ a[n] = FoldLeft(\o, <<>>, days)
           /\ \A k \in 1..n : a[k] = a[k - 1] \o days[k]
<1> DEFINE Put(x, r) == x \o r
           After(f, s) == IF s = {} THEN <<>> ELSE Put(f[s \ {Max(s)}], days[Max(s)])
           Is(f) == f = [s \in SUBSET (1..n) |-> After(f, s)]
           next == [x \in Seq(AllTimes) |-> [r \in Seq(AllTimes) |-> Put(x, r)]]
           iter == CHOOSE f : Is(f)
<1>1. FoldLeft(\o, <<>>, days) = iter[1..n]
  <2>1. DOMAIN days = 1..n
    OBVIOUS
  <2>2. QED
    BY <2>1, Zenon DEF FoldLeft, MapThenFoldSet
<1>2. next \in [Seq(AllTimes) -> [Seq(AllTimes) -> Seq(AllTimes)]]
  OBVIOUS
<1>3. <<>> \in Seq(AllTimes) /\ \A x \in Seq(AllTimes), r \in Seq(AllTimes) : next[x][r] = Put(x, r)
  OBVIOUS
<1> HIDE DEF next
<1>4. Is(iter)
  <2>1. PICK f : Repeats(f, Seq(AllTimes), n, <<>>, next, days)
    BY <1>2, <1>3, FoldIsDefined
  <2>2. ASSUME NEW s \in SUBSET (1..n) PROVE f[s] = After(f, s)
    <3>1. CASE s = {}
      BY <2>1, <3>1 DEF Repeats
    <3>2. CASE s # {}
      <4>1. Max(s) \in 1..n
        BY <3>2, GreatestMember
      <4>2. f[s \ {Max(s)}] \in Seq(AllTimes) /\ days[Max(s)] \in Seq(AllTimes)
        BY <2>1, <4>1 DEF Repeats
      <4>3. QED
        BY <1>3, <2>1, <3>2, <4>2 DEF Repeats
    <3>3. QED
      BY <3>1, <3>2
  <2>3. Is(f)
    BY <2>1, <2>2 DEF Repeats
  <2> HIDE DEF Is
  <2>4. QED
    BY <2>3
<1> HIDE DEF iter
<1>5. \A s \in SUBSET (1..n) : iter[s] = After(iter, s)
  BY <1>4
<1>6. ASSUME NEW s \in SUBSET (1..n), s # {}, iter[s \ {Max(s)}] \in Seq(AllTimes)
      PROVE  iter[s] = next[iter[s \ {Max(s)}]][days[Max(s)]]
  <2>1. Max(s) \in 1..n
    BY <1>6, GreatestMember
  <2>2. days[Max(s)] \in Seq(AllTimes)
    BY <2>1
  <2>3. QED
    BY <1>3, <1>5, <1>6, <2>2
<1>7. iter[{}] = <<>>
  BY <1>5
<1>8. PICK a : Chain(a, Seq(AllTimes), n, <<>>, next, days, iter[1..n])
  BY <1>2, <1>3, <1>6, <1>7, FoldIsChain
<1>9. \A k \in 1..n : a[k] = Put(a[k - 1], days[k])
  <2>1. \A k \in 1..n : k - 1 \in 0..n /\ days[k] \in Seq(AllTimes)
    OBVIOUS
  <2>2. QED
    BY <1>3, <1>8, <2>1 DEF Chain
<1>10. a \in [0..n -> Seq(AllTimes)] /\ a[0] = <<>> /\ a[n] = FoldLeft(\o, <<>>, days)
  BY <1>1, <1>8 DEF Chain
<1>11. QED
  BY <1>9, <1>10

\* The times of a list that nobody has, as Slots picks them.
Untaken(all, taken) ==
  FoldLeft(LAMBDA found, slot : IF slot \in taken THEN found ELSE Append(found, slot), <<>>, all)

\* One list for each of its first k times.
Picks(a, n, all, taken) ==
  /\ a \in [0..n -> Seq(AllTimes)]
  /\ a[0] = <<>> /\ a[n] = Untaken(all, taken)
  /\ \A k \in 1..n : a[k] = IF all[k] \in taken THEN a[k - 1] ELSE Append(a[k - 1], all[k])

\* The lists that the times lead through when those that are taken are left out.
LEMMA FreeChain ==
  ASSUME NEW n \in Nat, NEW all \in [1..n -> AllTimes], NEW taken
  PROVE  \E a : Picks(a, n, all, taken)
<1> DEFINE Put(x, r) == IF r \in taken THEN x ELSE Append(x, r)
           After(f, s) == IF s = {} THEN <<>> ELSE Put(f[s \ {Max(s)}], all[Max(s)])
           Is(f) == f = [s \in SUBSET (1..n) |-> After(f, s)]
           next == [x \in Seq(AllTimes) |-> [r \in AllTimes |-> Put(x, r)]]
           iter == CHOOSE f : Is(f)
<1>1. Untaken(all, taken) = iter[1..n]
  <2>1. DOMAIN all = 1..n
    OBVIOUS
  <2>2. QED
    BY <2>1, Zenon DEF Untaken, FoldLeft, MapThenFoldSet
<1>2. next \in [Seq(AllTimes) -> [AllTimes -> Seq(AllTimes)]]
  OBVIOUS
<1>3. <<>> \in Seq(AllTimes) /\ \A x \in Seq(AllTimes), r \in AllTimes : next[x][r] = Put(x, r)
  OBVIOUS
<1> HIDE DEF next
<1>4. Is(iter)
  <2>1. PICK f : Repeats(f, Seq(AllTimes), n, <<>>, next, all)
    BY <1>2, <1>3, FoldIsDefined
  <2>2. ASSUME NEW s \in SUBSET (1..n) PROVE f[s] = After(f, s)
    <3>1. CASE s = {}
      BY <2>1, <3>1 DEF Repeats
    <3>2. CASE s # {}
      <4>1. Max(s) \in 1..n
        BY <3>2, GreatestMember
      <4>2. f[s \ {Max(s)}] \in Seq(AllTimes) /\ all[Max(s)] \in AllTimes
        BY <2>1, <4>1 DEF Repeats
      <4>3. QED
        BY <1>3, <2>1, <3>2, <4>2 DEF Repeats
    <3>3. QED
      BY <3>1, <3>2
  <2>3. Is(f)
    BY <2>1, <2>2 DEF Repeats
  <2> HIDE DEF Is
  <2>4. QED
    BY <2>3
<1> HIDE DEF iter
<1>5. \A s \in SUBSET (1..n) : iter[s] = After(iter, s)
  BY <1>4
<1>6. ASSUME NEW s \in SUBSET (1..n), s # {}, iter[s \ {Max(s)}] \in Seq(AllTimes)
      PROVE  iter[s] = next[iter[s \ {Max(s)}]][all[Max(s)]]
  <2>1. Max(s) \in 1..n
    BY <1>6, GreatestMember
  <2>2. all[Max(s)] \in AllTimes
    BY <2>1
  <2>3. QED
    BY <1>3, <1>5, <1>6, <2>2
<1>7. iter[{}] = <<>>
  BY <1>5
<1>8. PICK a : Chain(a, Seq(AllTimes), n, <<>>, next, all, iter[1..n])
  BY <1>2, <1>3, <1>6, <1>7, FoldIsChain
<1>9. \A k \in 1..n : a[k] = Put(a[k - 1], all[k])
  <2>1. \A k \in 1..n : k - 1 \in 0..n /\ all[k] \in AllTimes
    OBVIOUS
  <2>2. QED
    BY <1>3, <1>8, <2>1 DEF Chain
<1>10. a \in [0..n -> Seq(AllTimes)] /\ a[0] = <<>> /\ a[n] = Untaken(all, taken)
  BY <1>1, <1>8 DEF Chain
<1>11. Picks(a, n, all, taken)
  BY <1>9, <1>10 DEF Picks
<1>12. QED
  BY <1>11

\* The slots of a day are a list.
LEMMA DayIsList ==
  ASSUME NEW hours \in [Weekdays -> Opening], NEW today \in Weekdays, NEW now \in Times,
         NEW i \in 0..DaysAhead - 1
  PROVE  \E m \in Nat : DaySlots(hours, today, now, i) =
                          [k \in 1..m |-> DaySlots(hours, today, now, i)[k]]
<1> DEFINE slots == DaySlots(hours, today, now, i)
           day   == Weekday(today, i)
           range == hours[day]
           first == FirstSlot(range, i, now)
           n     == ((range.close - 1 - first) \div Step) + 1
<1>1. {DayLen, Week, Step, DaysAhead} \subseteq Nat \ {0} /\ i \in Nat /\ today \in Nat
  BY ClockAssumption DEF Weekdays
<1>2. day \in Weekdays
  <2>1. (today + i) \in Int /\ Week \in Nat \ {0}
    BY <1>1
  <2>2. (today + i) % Week \in 0..Week - 1
    BY <2>1, DivMod
  <2>3. QED
    BY <2>2 DEF Weekday, Weekdays
<1>3. range \in Opening
  BY <1>2
<1>4. CASE range = Closed \/ first >= range.close
  <2>1. slots = <<>>
    BY <1>4 DEF DaySlots
  <2> HIDE DEF slots
  <2>2. slots = [k \in 1..0 |-> slots[k]]
    BY <2>1
  <2>3. \E m \in Nat : slots = [k \in 1..m |-> slots[k]]
    BY <2>2
  <2>4. QED
    BY <2>3 DEF slots
<1>5. CASE ~(range = Closed \/ first >= range.close)
  <2>1. range.open \in Times /\ range.close \in 0..DayLen
    BY <1>3, <1>5 DEF Opening
  <2>2. now \in Nat /\ range.open \in Nat /\ range.close \in Int
    BY <1>1, <2>1 DEF Times
  <2>3. RoundUp(now) \in Nat
    BY <2>2, Rounding
  <2>4. first \in Nat
    BY <2>2, <2>3 DEF FirstSlot
  <2>5. slots = [k \in 1..n |-> <<i, first + (k - 1) * Step>>]
    BY <1>5 DEF DaySlots
  <2> HIDE DEF first, slots
  <2> DEFINE d == range.close - 1 - first
  <2>6. d \in Nat
    BY <1>5, <2>2, <2>4
  <2>7. d = Step * (d \div Step) + (d % Step) /\ d \div Step \in Int /\ d % Step \in 0..Step - 1
    <3>1. Step \in Nat \ {0} /\ d \in Int
      BY <1>1, <2>6
    <3> HIDE DEF d
    <3>2. QED
      BY <3>1, DivMod
  <2>8. n \in Nat
    <3> DEFINE q == d \div Step
    <3>1. q <= -1 => Step * q <= -Step
      BY <1>1, <2>7
    <3>2. Step * q \in Int /\ q \in Int
      BY <1>1, <2>7
    <3> HIDE DEF q
    <3>3. q >= 0
      BY <1>1, <2>6, <2>7, <3>1, <3>2 DEF q
    <3>4. q + 1 \in Nat
      BY <3>2, <3>3
    <3>5. QED
      BY <3>4 DEF q
  <2> HIDE DEF n
  <2>9. slots = [k \in 1..n |-> slots[k]]
    BY <2>5
  <2>10. QED
    BY <2>8, <2>9 DEF slots
<1>6. QED
  BY <1>4, <1>5

\* The days joined are all the free times when nothing is taken.
LEMMA DaysAreListed ==
  ASSUME NEW hours \in [Weekdays -> Opening], NEW today \in Weekdays, NEW now \in Times
  PROVE  Lists(FoldLeft(\o, <<>>, [i \in 1..DaysAhead |-> DaySlots(hours, today, now, i - 1)]),
               FreeTimes(hours, today, now, {}))
<1> DEFINE n      == DaysAhead
           days   == [i \in 1..DaysAhead |-> DaySlots(hours, today, now, i - 1)]
           free   == FreeTimes(hours, today, now, {})
           until(k) == {slot \in free : slot[1] < k}
           on(k)  == {slot \in free : slot[1] = k}
<1>1. n \in Nat
  BY ClockAssumption
<1>2. free \subseteq AllTimes /\ \A slot \in free : slot[1] \in Nat /\ slot[1] < n
  <2>1. free \subseteq AllTimes
    BY DEF FreeTimes, AllTimes
  <2>2. \A slot \in AllTimes : slot[1] \in Nat /\ slot[1] < n
    BY <1>1 DEF AllTimes
  <2>3. QED
    BY <2>1, <2>2
<1>3. ASSUME NEW k \in 1..n PROVE Lists(days[k], on(k - 1))
  <2> DEFINE slots == DaySlots(hours, today, now, k - 1)
  <2>1. k - 1 \in 0..DaysAhead - 1 /\ days[k] = slots
    BY <1>1
  <2>2. /\ \A i, j \in DOMAIN slots : i < j => Earlier(slots[i], slots[j])
        /\ {slots[i] : i \in DOMAIN slots} = on(k - 1)
    BY <2>1, DayIsRight
  <2>3. PICK m \in Nat : slots = [i \in 1..m |-> slots[i]]
    BY <1>1, <2>1, DayIsList
  <2>4. \A i \in DOMAIN slots : slots[i] \in AllTimes
    BY <1>2, <2>2
  <2> HIDE DEF slots, free
  <2>5. DOMAIN slots = 1..m
    BY <2>3
  <2>6. slots \in Seq(AllTimes)
    BY <2>3, <2>4, <2>5
  <2>7. QED
    BY <2>1, <2>2, <2>6 DEF Lists
<1>4. days \in [1..n -> Seq(AllTimes)]
  <2>1. \A k \in 1..n : days[k] \in Seq(AllTimes)
    BY <1>3 DEF Lists
  <2>2. QED
    BY <2>1
<1>5. DOMAIN days = 1..n
  OBVIOUS
<1> HIDE DEF days, free, until, on, n
<1>6. PICK a \in [0..n -> Seq(AllTimes)] :
        /\ a[0] = <<>> /\ a[n] = FoldLeft(\o, <<>>, days)
        /\ \A k \in 1..n : a[k] = a[k - 1] \o days[k]
  BY <1>1, <1>4, DaysChain
<1> DEFINE Fine == {k \in 0..n : Lists(a[k], until(k))}
<1>7. 0 \in Fine
  <2>1. \A slot \in free : ~(slot[1] < 0)
    BY <1>2
  <2>2. until(0) = {}
    BY <2>1 DEF until
  <2>3. a[0] = <<>>
    BY <1>6
  <2>4. Lists(a[0], until(0))
    BY <2>2, <2>3 DEF Lists
  <2>5. QED
    BY <1>1, <2>4
<1>8. ASSUME NEW k \in 1..n, k - 1 \in Fine PROVE k \in Fine
  <2>1. k \in Nat /\ k \in 0..n /\ Lists(a[k - 1], until(k - 1)) /\ Lists(days[k], on(k - 1))
    BY <1>1, <1>3, <1>8
  <2>2. \A x \in until(k - 1), y \in on(k - 1) : Earlier(x, y)
    BY DEF Earlier, until, on
  <2>3. until(k - 1) \cup on(k - 1) = until(k)
    <3>1. \A slot \in free : (slot[1] < k - 1 \/ slot[1] = k - 1) <=> slot[1] < k
      BY <1>2, <2>1
    <3>2. QED
      BY <3>1 DEF until, on
  <2>4. a[k] = a[k - 1] \o days[k]
    BY <1>6
  <2>5. Lists(a[k - 1] \o days[k], until(k - 1) \cup on(k - 1))
    BY <2>1, <2>2, Joins
  <2>6. QED
    BY <2>1, <2>3, <2>4, <2>5
<1>9. 0..n \subseteq Fine
  <2> HIDE DEF Fine
  <2>1. QED
    BY <1>1, <1>7, <1>8, UpTo
<1>10. until(n) = free
  BY <1>2 DEF until
<1>11. n \in 0..n
  BY <1>1
<1>12. Lists(a[n], until(n))
  BY <1>9, <1>11
<1>13. QED
  BY <1>6, <1>10, <1>12 DEF days, free

\* A time added to a list of earlier ones.
LEMMA Adds ==
  ASSUME NEW S, NEW list, Lists(list, S), NEW x \in AllTimes, \A a \in S : Earlier(a, x)
  PROVE  Lists(Append(list, x), S \cup {x})
<1>1. Lists(<<x>>, {x})
  <2>1. <<x>> \in Seq(AllTimes) /\ DOMAIN <<x>> = 1..1 /\ <<x>>[1] = x
    OBVIOUS
  <2>2. QED
    BY <2>1 DEF Lists
<1>2. Lists(list \o <<x>>, S \cup {x})
  BY <1>1, Joins
<1>3. Append(list, x) = list \o <<x>>
  BY DEF Lists
<1>4. QED
  BY <1>2, <1>3

\* Those of a list that are not taken.
LEMMA FreeAreListed ==
  ASSUME NEW S, NEW all, Lists(all, S), NEW taken
  PROVE  Lists(Untaken(all, taken), S \ taken)
<1> DEFINE n == Len(all)
           upTo(k) == {all[j] : j \in 1..k} \ taken
<1>1. n \in Nat /\ all \in [1..n -> AllTimes] /\ DOMAIN all = 1..n
  BY DEF Lists
<1> HIDE DEF n
<1>2. PICK a : Picks(a, n, all, taken)
  BY <1>1, FreeChain
<1> DEFINE Fine == {k \in 0..n : Lists(a[k], upTo(k))}
<1>3. 0 \in Fine
  <2>1. upTo(0) = {}
    BY Places
  <2> HIDE DEF upTo
  <2>2. a[0] = <<>> /\ 0 \in 0..n
    BY <1>1, <1>2 DEF Picks
  <2>3. Lists(a[0], upTo(0))
    BY <2>1, <2>2 DEF Lists
  <2>4. QED
    BY <2>2, <2>3
<1>4. ASSUME NEW k \in 1..n, k - 1 \in Fine PROVE k \in Fine
  <2>1. k \in Nat /\ k \in 0..n /\ Lists(a[k - 1], upTo(k - 1)) /\ all[k] \in AllTimes
    BY <1>1, <1>4
  <2>2. 1..k = (1..k - 1) \cup {k} /\ \A j \in 1..k - 1 : j \in 1..n /\ j < k
    BY <1>1
  <2>3. CASE all[k] \in taken
    <3>1. upTo(k) = upTo(k - 1)
      BY <2>2, <2>3
    <3>2. QED
      BY <1>2, <2>1, <2>3, <3>1 DEF Picks
  <2>4. CASE all[k] \notin taken
    <3>1. upTo(k) = upTo(k - 1) \cup {all[k]}
      BY <2>2, <2>4
    <3>2. \A x \in upTo(k - 1) : Earlier(x, all[k])
      BY <1>1, <2>2 DEF Lists
    <3> HIDE DEF upTo
    <3>3. Lists(Append(a[k - 1], all[k]), upTo(k - 1) \cup {all[k]})
      BY <2>1, <3>2, Adds
    <3>4. QED
      BY <1>2, <2>1, <2>4, <3>1, <3>3 DEF Picks
  <2>5. QED
    BY <2>3, <2>4
<1>5. 0..n \subseteq Fine
  <2> HIDE DEF Fine
  <2>1. QED
    BY <1>1, <1>3, <1>4, UpTo
<1>6. n \in 0..n
  BY <1>1
<1>7. Lists(a[n], upTo(n))
  BY <1>5, <1>6
<1>8. upTo(n) = S \ taken
  BY <1>1 DEF Lists
<1> HIDE DEF upTo
<1>9. QED
  BY <1>2, <1>7, <1>8 DEF Picks

(***************************************************************************)
(* Whatever the opening hours, the time and the appointments, the times on *)
(* offer are the earliest free ones, in order, as many as may be shown.    *)
(***************************************************************************)
THEOREM SlotsAreRight ==
  ASSUME NEW hours \in [Weekdays -> Opening], NEW appointments
  PROVE  RightFor(hours, appointments)
<1> SUFFICES ASSUME NEW today \in Weekdays, NEW now \in Times, NEW taken \in SUBSET appointments
             PROVE  LET slots == Slots(hours, today, now, taken)
                        free  == FreeTimes(hours, today, now, taken)
                    IN  /\ Len(slots) = Min({MaxSlots, Cardinality(free)})
                        /\ \A k \in DOMAIN slots :
                             /\ slots[k] \in free
                             /\ Cardinality({s \in free : Earlier(s, slots[k])}) = k - 1
  BY DEF RightFor
<1> DEFINE all  == FoldLeft(\o, <<>>, [i \in 1..DaysAhead |-> DaySlots(hours, today, now, i - 1)])
           left == Untaken(all, taken)
           free == FreeTimes(hours, today, now, taken)
           m    == Min({MaxSlots, Len(left)})
<1>1. Slots(hours, today, now, taken) = SubSeq(left, 1, m)
  BY DEF Slots, Untaken
<1>2. Lists(all, FreeTimes(hours, today, now, {}))
  BY DaysAreListed
<1>3. free = FreeTimes(hours, today, now, {}) \ taken
  BY DEF FreeTimes
<1> HIDE DEF all
<1>4. Lists(left, free)
  BY <1>2, <1>3, FreeAreListed
<1> HIDE DEF left, free
<1>5. /\ Len(left) = Cardinality(free)
      /\ \A k \in DOMAIN left : /\ left[k] \in free
                                /\ Cardinality({s \in free : Earlier(s, left[k])}) = k - 1
  BY <1>4, Ranks
<1>6. Len(left) \in Nat /\ left \in Seq(AllTimes) /\ DOMAIN left = 1..Len(left)
  BY <1>4 DEF Lists
<1>7. m \in Nat /\ m <= Len(left)
  <2>1. {MaxSlots, Len(left)} \in SUBSET Nat
    BY <1>6, ClockAssumption
  <2>2. m \in {MaxSlots, Len(left)} /\ \A y \in {MaxSlots, Len(left)} : m <= y
    BY <2>1, SmallestMember
  <2>3. QED
    BY <2>1, <2>2
<1>8. m = Min({MaxSlots, Cardinality(free)})
  BY <1>5
<1> HIDE DEF m
<1> DEFINE slots == SubSeq(left, 1, m)
<1>9. /\ Len(slots) = m /\ DOMAIN slots = 1..m
      /\ \A k \in 1..m : slots[k] = left[k] /\ k \in DOMAIN left
  BY <1>6, <1>7
<1> HIDE DEF slots
<1>10. \A k \in DOMAIN slots : /\ slots[k] \in free
                               /\ Cardinality({s \in free : Earlier(s, slots[k])}) = k - 1
  BY <1>5, <1>9
<1>11. QED
  BY <1>1, <1>8, <1>9, <1>10 DEF slots, free

\* So it is of the hours that the settings hold at any time, as the AI reads them.
THEOREM OfferedAreOpen == Spec => []OfferedIsOpen
<1>1. ASSUME TypeOK PROVE OfferedIsOpen
  <2>1. config.fields["hours"] \in 0..1
    BY <1>1 DEF TypeOK, Configs, Fields
  <2>2. \A h \in 0..1 : RightFor(HoursOf[h], Appointments)
    BY HoursAssumption, SlotsAreRight
  <2>3. QED
    BY <2>1, <2>2 DEF OfferedIsOpen, HoursAreRight
<1>2. QED
  BY <1>1, TypeCorrect, PTL
-----------------------------------------------------------------------------
(* Inventory: the invariant                                                *)

Car    == [stock : Stocks, vin : Vins \cup {NoKey}, status : Statuses]
Record == [stock : Stocks, vin : Vins, status : Statuses]

\* Every car has a stock number and no two share one.
Distinct(table) == \A i, j \in DOMAIN table : table[i].stock = table[j].stock => i = j

\* The stock numbers of the cars on sale.
Shown(table) == {table[i].stock : i \in {j \in DOMAIN table : table[j].status = "available"}}

\* What a row or a record with a stock number may make of a table.
Takes(t, u, stock) ==
  /\ u \in Seq(Car)
  /\ Distinct(t) => Distinct(u)
  /\ Shown(u) \subseteq Shown(t) \cup {stock}

IInventory ==
  InventoryTypeOK /\ cars \in Seq(Car) /\ Distinct(cars) /\ OfferedIsListed
-----------------------------------------------------------------------------
(* The upload                                                              *)

\* A row of a file is an error or a car.
LEMMA RowType ==
  ASSUME NEW r \in Rows, r # BadRow
  PROVE  r \in Car /\ r.status \in Statuses /\ r.stock \in Stocks
BY DEF Rows, Car, Statuses

\* The car that is found first among those that are looked for.
LEMMA FoundFirst ==
  ASSUME NEW t \in Seq(Car), NEW found \in SUBSET DOMAIN t, found # {}
  PROVE  Min(found) \in found /\ Min(found) \in DOMAIN t
<1>1. found \in SUBSET Nat
  OBVIOUS
<1>2. QED
  BY <1>1, SmallestMember

\* A table in which one car is replaced.
LEMMA Replaced ==
  ASSUME NEW t \in Seq(Car), NEW i \in DOMAIN t, NEW c \in Car,
         \A j \in DOMAIN t : j # i => t[j].stock # c.stock,
         NEW u, u = [t EXCEPT ![i] = c]
  PROVE  Takes(t, u, c.stock)
<1>1. u \in Seq(Car) /\ Len(u) = Len(t) /\ DOMAIN u = DOMAIN t
  OBVIOUS
<1>2. u[i] = c /\ \A j \in DOMAIN t : j # i => u[j] = t[j]
  OBVIOUS
<1>3. Distinct(t) => Distinct(u)
  BY <1>1, <1>2 DEF Distinct
<1>4. Shown(u) \subseteq Shown(t) \cup {c.stock}
  BY <1>1, <1>2 DEF Shown
<1>5. QED
  BY <1>1, <1>3, <1>4 DEF Takes

\* A table to which a car is added.
LEMMA Added ==
  ASSUME NEW t \in Seq(Car), NEW c \in Car, \A j \in DOMAIN t : t[j].stock # c.stock,
         NEW u, u = Append(t, c)
  PROVE  /\ u \in Seq(Car) /\ DOMAIN u = DOMAIN t \cup {Len(u)} /\ u[Len(u)] = c
         /\ \A j \in DOMAIN t : u[j] = t[j]
         /\ Takes(t, u, c.stock)
<1>1. /\ u \in Seq(Car) /\ DOMAIN u = DOMAIN t \cup {Len(u)} /\ u[Len(u)] = c
      /\ \A j \in DOMAIN t : u[j] = t[j]
  OBVIOUS
<1>2. Distinct(t) => Distinct(u)
  BY <1>1 DEF Distinct
<1>3. Shown(u) \subseteq Shown(t) \cup {c.stock}
  BY <1>1 DEF Shown
<1>4. QED
  BY <1>1, <1>2, <1>3 DEF Takes

\* A row of a file leaves each stock number to one car, and puts on sale no other than its own.
LEMMA PutRowKeeps ==
  ASSUME NEW t \in Seq(Car), NEW r \in Rows
  PROVE  /\ PutRow(t, r) \in Seq(Car)
         /\ r = BadRow => PutRow(t, r) = t
         /\ r # BadRow /\ Distinct(t) => Takes(t, PutRow(t, r), r.stock)
<1> DEFINE found == Where(t, LAMBDA c : c.stock = r.stock)
           new   == [r EXCEPT !.vin = Given(@, t[Min(found)].vin)]
<1>1. CASE r = BadRow
  BY <1>1 DEF PutRow
<1>2. CASE r # BadRow /\ found = {}
  <2>1. PutRow(t, r) = Append(t, r)
    BY <1>2 DEF PutRow
  <2>2. \A j \in DOMAIN t : t[j].stock # r.stock
    BY <1>2 DEF Where
  <2>3. r \in Car
    BY <1>2, RowType
  <2>4. Takes(t, PutRow(t, r), r.stock)
    BY <2>1, <2>2, <2>3, Added
  <2>5. QED
    BY <1>2, <2>4 DEF Takes
<1>3. CASE r # BadRow /\ found # {}
  <2>1. PutRow(t, r) = [t EXCEPT ![Min(found)] = new]
    BY <1>3 DEF PutRow
  <2>2. Min(found) \in DOMAIN t /\ t[Min(found)].stock = r.stock
    <3>1. found \in SUBSET DOMAIN t /\ \A j \in found : t[j].stock = r.stock
      BY DEF Where
    <3> HIDE DEF found
    <3>2. QED
      BY <1>3, <3>1, FoundFirst
  <2>3. new \in Car /\ new.stock = r.stock
    <3>1. t[Min(found)] \in Car /\ r \in Car
      BY <1>3, <2>2, RowType
    <3> HIDE DEF found
    <3>2. QED
      BY <3>1 DEF Car, Given
  <2> HIDE DEF found, new
  <2>4. ASSUME Distinct(t) PROVE Takes(t, PutRow(t, r), r.stock)
    <3>1. \A j \in DOMAIN t : j # Min(found) => t[j].stock # new.stock
      BY <2>2, <2>3, <2>4 DEF Distinct
    <3>2. Takes(t, PutRow(t, r), new.stock)
      BY <2>1, <2>2, <2>3, <3>1, Replaced
    <3>3. QED
      BY <2>3, <3>2
  <2>5. PutRow(t, r) \in Seq(Car)
    BY <2>1, <2>2, <2>3
  <2>6. QED
    BY <1>3, <2>4, <2>5
<1>4. QED
  BY <1>1, <1>2, <1>3

\* The tables that the rows of a file lead through, one after the other.
LEMMA UploadChain ==
  ASSUME NEW t \in Seq(Car), NEW n \in Nat, NEW file \in [1..n -> Rows]
  PROVE  \E a \in [0..n -> Seq(Car)] :
           /\ a[0] = t /\ a[n] = FoldLeft(PutRow, t, file)
           /\ \A k \in 1..n : a[k] = PutRow(a[k - 1], file[k])
<1> DEFINE After(f, s) == IF s = {} THEN t ELSE PutRow(f[s \ {Max(s)}], file[Max(s)])
           Is(f) == f = [s \in SUBSET (1..n) |-> After(f, s)]
           next == [x \in Seq(Car) |-> [r \in Rows |-> PutRow(x, r)]]
           iter == CHOOSE f : Is(f)
<1>1. FoldLeft(PutRow, t, file) = iter[1..n]
  <2>1. DOMAIN file = 1..n
    OBVIOUS
  <2>2. QED
    BY <2>1, Zenon DEF FoldLeft, MapThenFoldSet
<1>2. next \in [Seq(Car) -> [Rows -> Seq(Car)]]
  BY PutRowKeeps
<1>3. \A x \in Seq(Car), r \in Rows : next[x][r] = PutRow(x, r)
  OBVIOUS
<1> HIDE DEF next
<1>4. Is(iter)
  <2>1. PICK f : Repeats(f, Seq(Car), n, t, next, file)
    BY <1>2, FoldIsDefined
  <2>2. ASSUME NEW s \in SUBSET (1..n) PROVE f[s] = After(f, s)
    <3>1. CASE s = {}
      BY <2>1, <3>1 DEF Repeats
    <3>2. CASE s # {}
      <4>1. Max(s) \in 1..n
        BY <3>2, GreatestMember
      <4>2. f[s \ {Max(s)}] \in Seq(Car) /\ file[Max(s)] \in Rows
        BY <2>1, <4>1 DEF Repeats
      <4>3. QED
        BY <1>3, <2>1, <3>2, <4>2 DEF Repeats
    <3>3. QED
      BY <3>1, <3>2
  <2>3. Is(f)
    BY <2>1, <2>2 DEF Repeats
  <2> HIDE DEF Is
  <2>4. QED
    BY <2>3
<1> HIDE DEF iter
<1>5. \A s \in SUBSET (1..n) : iter[s] = After(iter, s)
  BY <1>4
<1>6. ASSUME NEW s \in SUBSET (1..n), s # {}, iter[s \ {Max(s)}] \in Seq(Car)
      PROVE  iter[s] = next[iter[s \ {Max(s)}]][file[Max(s)]]
  <2>1. Max(s) \in 1..n
    BY <1>6, GreatestMember
  <2>2. file[Max(s)] \in Rows
    BY <2>1
  <2>3. QED
    BY <1>3, <1>5, <1>6, <2>2
<1>7. iter[{}] = t
  BY <1>5
<1>8. PICK a : Chain(a, Seq(Car), n, t, next, file, iter[1..n])
  BY <1>2, <1>6, <1>7, FoldIsChain
<1>9. \A k \in 1..n : a[k] = PutRow(a[k - 1], file[k])
  <2>1. \A k \in 1..n : k - 1 \in 0..n /\ file[k] \in Rows
    OBVIOUS
  <2>2. QED
    BY <1>3, <1>8, <2>1 DEF Chain
<1>10. a \in [0..n -> Seq(Car)] /\ a[0] = t /\ a[n] = FoldLeft(PutRow, t, file)
  BY <1>1, <1>8 DEF Chain
<1>11. QED
  BY <1>9, <1>10

-----------------------------------------------------------------------------
(* The sync                                                                *)

\* What a record with both keys does to a table.
Upserted(t, u, r) ==
  /\ u \in Seq(Car)
  /\ Distinct(t) => Takes(t, u, r.stock)
  /\ DOMAIN t \subseteq DOMAIN u
  /\ \E i \in DOMAIN u : u[i] = r
  /\ \A i \in DOMAIN t : t[i].stock # r.stock /\ t[i].vin # r.vin => u[i] = t[i]
  /\ \A i \in DOMAIN t : Distinct(t) /\ t[i] = r => u = t

\* _upsert_vehicle is such a record's step, whether it finds a car or not.
LEMMA UpsertKeeps ==
  ASSUME NEW t \in Seq(Car), NEW r \in Record
  PROVE  Upserted(t, Upsert(t, r), r)
<1> DEFINE byStock == {i \in DOMAIN t : t[i].stock = r.stock}
           byVin   == {i \in DOMAIN t : t[i].vin = r.vin}
           found   == IF byStock # {} THEN byStock ELSE byVin
           u       == Upsert(t, r)
<1>1. r \in Car /\ r.stock # NoKey /\ r.vin # NoKey
  BY KeysAssumption DEF Record, Car
<1>2. Match(t, r) = found
  BY <1>1 DEF Match, Where
<1>3. CASE found = {}
  <2>1. u = Append(t, r) /\ byStock = {}
    BY <1>2, <1>3 DEF Upsert
  <2>2. /\ u \in Seq(Car) /\ DOMAIN u = DOMAIN t \cup {Len(u)} /\ u[Len(u)] = r
        /\ \A j \in DOMAIN t : u[j] = t[j]
        /\ Takes(t, u, r.stock)
    BY <1>1, <2>1, Added
  <2>3. \A i \in DOMAIN t : t[i] # r
    BY <2>1
  <2> HIDE DEF u
  <2>4. QED
    BY <2>2, <2>3 DEF Upserted, u
<1>4. CASE found # {}
  <2> DEFINE m == Min(found)
  <2>1. m \in found /\ m \in DOMAIN t
    <3>1. found \in SUBSET DOMAIN t
      OBVIOUS
    <3> HIDE DEF found
    <3>2. QED
      BY <1>4, <3>1, FoundFirst
  <2>2. u = [t EXCEPT ![m] = r]
    <3>1. r = [stock |-> r.stock, vin |-> r.vin, status |-> r.status]
      BY DEF Record
    <3>2. [stock |-> Given(r.stock, t[m].stock), vin |-> Given(r.vin, t[m].vin),
           status |-> r.status] = r
      BY <1>1, <3>1 DEF Given
    <3> HIDE DEF found
    <3>3. QED
      BY <1>2, <1>4, <3>2 DEF Upsert
  <2>3. byStock # {} => t[m].stock = r.stock
    BY <2>1
  <2>4. t[m].stock = r.stock \/ t[m].vin = r.vin
    BY <2>1
  <2>5. byStock = {} => \A j \in DOMAIN t : t[j].stock # r.stock
    OBVIOUS
  <2> HIDE DEF found, m, u
  <2>6. ASSUME Distinct(t) PROVE Takes(t, u, r.stock)
    <3>1. \A j \in DOMAIN t : j # m => t[j].stock # r.stock
      <4> HIDE DEF byStock
      <4>1. QED
        BY <2>1, <2>3, <2>5, <2>6 DEF Distinct
    <3>2. QED
      BY <1>1, <2>1, <2>2, <3>1, Replaced
  <2>7. u \in Seq(Car) /\ DOMAIN u = DOMAIN t /\ u[m] = r /\ \A j \in DOMAIN t : j # m => u[j] = t[j]
    BY <1>1, <2>1, <2>2
  <2>8. ASSUME NEW i \in DOMAIN t, Distinct(t), t[i] = r PROVE u = t
    <3>1. m = i
      BY <2>1, <2>3, <2>8 DEF Distinct
    <3>2. QED
      BY <2>2, <2>8, <3>1
  <2>9. QED
    BY <2>1, <2>4, <2>6, <2>7, <2>8 DEF Upserted, u
<1>5. QED
  BY <1>3, <1>4

\* The tables that the records of a feed lead through, one after the other.
LEMMA FeedChain ==
  ASSUME NEW t \in Seq(Car), NEW n \in Nat, NEW feed \in [1..n -> Record]
  PROVE  \E a \in [0..n -> Seq(Car)] :
           /\ a[0] = t /\ a[n] = FoldLeft(Upsert, t, feed)
           /\ \A k \in 1..n : a[k] = Upsert(a[k - 1], feed[k])
<1> DEFINE After(f, s) == IF s = {} THEN t ELSE Upsert(f[s \ {Max(s)}], feed[Max(s)])
           Is(f) == f = [s \in SUBSET (1..n) |-> After(f, s)]
           next == [x \in Seq(Car) |-> [r \in Record |-> Upsert(x, r)]]
           iter == CHOOSE f : Is(f)
<1>1. FoldLeft(Upsert, t, feed) = iter[1..n]
  <2>1. DOMAIN feed = 1..n
    OBVIOUS
  <2>2. QED
    BY <2>1, Zenon DEF FoldLeft, MapThenFoldSet
<1>2. next \in [Seq(Car) -> [Record -> Seq(Car)]]
  BY UpsertKeeps DEF Upserted
<1>3. \A x \in Seq(Car), r \in Record : next[x][r] = Upsert(x, r)
  OBVIOUS
<1> HIDE DEF next
<1>4. Is(iter)
  <2>1. PICK f : Repeats(f, Seq(Car), n, t, next, feed)
    BY <1>2, FoldIsDefined
  <2>2. ASSUME NEW s \in SUBSET (1..n) PROVE f[s] = After(f, s)
    <3>1. CASE s = {}
      BY <2>1, <3>1 DEF Repeats
    <3>2. CASE s # {}
      <4>1. Max(s) \in 1..n
        BY <3>2, GreatestMember
      <4>2. f[s \ {Max(s)}] \in Seq(Car) /\ feed[Max(s)] \in Record
        BY <2>1, <4>1 DEF Repeats
      <4>3. QED
        BY <1>3, <2>1, <3>2, <4>2 DEF Repeats
    <3>3. QED
      BY <3>1, <3>2
  <2>3. Is(f)
    BY <2>1, <2>2 DEF Repeats
  <2> HIDE DEF Is
  <2>4. QED
    BY <2>3
<1> HIDE DEF iter
<1>5. \A s \in SUBSET (1..n) : iter[s] = After(iter, s)
  BY <1>4
<1>6. ASSUME NEW s \in SUBSET (1..n), s # {}, iter[s \ {Max(s)}] \in Seq(Car)
      PROVE  iter[s] = next[iter[s \ {Max(s)}]][feed[Max(s)]]
  <2>1. Max(s) \in 1..n
    BY <1>6, GreatestMember
  <2>2. feed[Max(s)] \in Record
    BY <2>1
  <2>3. QED
    BY <1>3, <1>5, <1>6, <2>2
<1>7. iter[{}] = t
  BY <1>5
<1>8. PICK a : Chain(a, Seq(Car), n, t, next, feed, iter[1..n])
  BY <1>2, <1>6, <1>7, FoldIsChain
<1>9. \A k \in 1..n : a[k] = Upsert(a[k - 1], feed[k])
  <2>1. \A k \in 1..n : k - 1 \in 0..n /\ feed[k] \in Record
    OBVIOUS
  <2>2. QED
    BY <1>3, <1>8, <2>1 DEF Chain
<1>10. a \in [0..n -> Seq(Car)] /\ a[0] = t /\ a[n] = FoldLeft(Upsert, t, feed)
  BY <1>1, <1>8 DEF Chain
<1>11. QED
  BY <1>9, <1>10

-----------------------------------------------------------------------------
(* Folds                                                                   *)

\* A file leaves each stock number to one car, and puts on sale no other than its own.
LEMMA UploadKeeps ==
  ASSUME NEW t \in Seq(Car), Distinct(t), NEW n \in Nat, NEW file \in [1..n -> Rows],
         NEW stocks, \A k \in 1..n : file[k] # BadRow => file[k].stock \in stocks
  PROVE  LET u == FoldLeft(PutRow, t, file)
         IN  u \in Seq(Car) /\ Distinct(u) /\ Shown(u) \subseteq Shown(t) \cup stocks
<1>1. PICK a \in [0..n -> Seq(Car)] :
        /\ a[0] = t /\ a[n] = FoldLeft(PutRow, t, file)
        /\ \A k \in 1..n : a[k] = PutRow(a[k - 1], file[k])
  BY UploadChain
<1> DEFINE Fine == {k \in 0..n : Distinct(a[k]) /\ Shown(a[k]) \subseteq Shown(t) \cup stocks}
<1>2. 0 \in Fine
  BY <1>1
<1>3. ASSUME NEW k \in 1..n, k - 1 \in Fine PROVE k \in Fine
  <2>1. k \in 0..n /\ k - 1 \in 0..n /\ a[k - 1] \in Seq(Car) /\ file[k] \in Rows
    OBVIOUS
  <2>2. Distinct(a[k - 1]) /\ Shown(a[k - 1]) \subseteq Shown(t) \cup stocks
    BY <1>3
  <2>3. CASE file[k] = BadRow
    BY <1>1, <2>1, <2>2, <2>3, PutRowKeeps
  <2>4. CASE file[k] # BadRow
    <3>1. Takes(a[k - 1], a[k], file[k].stock)
      BY <1>1, <2>1, <2>2, <2>4, PutRowKeeps
    <3>2. file[k].stock \in stocks
      BY <2>4
    <3>3. QED
      BY <2>1, <2>2, <3>1, <3>2 DEF Takes
  <2>5. QED
    BY <2>3, <2>4
<1>4. 0..n \subseteq Fine
  <2> HIDE DEF Fine
  <2>1. QED
    BY <1>2, <1>3, UpTo
<1>5. n \in Fine /\ a[n] \in Seq(Car)
  BY <1>4
<1>6. QED
  BY <1>1, <1>5

\* So does a feed of records with both keys.
LEMMA FeedKeeps ==
  ASSUME NEW t \in Seq(Car), Distinct(t), NEW n \in Nat, NEW feed \in [1..n -> Record],
         NEW stocks, \A k \in 1..n : feed[k].stock \in stocks
  PROVE  LET u == FoldLeft(Upsert, t, feed)
         IN  u \in Seq(Car) /\ Distinct(u) /\ Shown(u) \subseteq Shown(t) \cup stocks
<1>1. PICK a \in [0..n -> Seq(Car)] :
        /\ a[0] = t /\ a[n] = FoldLeft(Upsert, t, feed)
        /\ \A k \in 1..n : a[k] = Upsert(a[k - 1], feed[k])
  BY FeedChain
<1> DEFINE Fine == {k \in 0..n : Distinct(a[k]) /\ Shown(a[k]) \subseteq Shown(t) \cup stocks}
<1>2. 0 \in Fine
  BY <1>1
<1>3. ASSUME NEW k \in 1..n, k - 1 \in Fine PROVE k \in Fine
  <2>1. k \in 0..n /\ k - 1 \in 0..n /\ a[k - 1] \in Seq(Car) /\ feed[k] \in Record
    OBVIOUS
  <2>2. Distinct(a[k - 1]) /\ Shown(a[k - 1]) \subseteq Shown(t) \cup stocks
    BY <1>3
  <2>3. Takes(a[k - 1], a[k], feed[k].stock)
    BY <1>1, <2>1, <2>2, UpsertKeeps DEF Upserted
  <2>4. feed[k].stock \in stocks
    OBVIOUS
  <2>5. QED
    BY <2>1, <2>2, <2>3, <2>4 DEF Takes
<1>4. 0..n \subseteq Fine
  <2> HIDE DEF Fine
  <2>1. QED
    BY <1>2, <1>3, UpTo
<1>5. n \in Fine /\ a[n] \in Seq(Car)
  BY <1>4
<1>6. QED
  BY <1>1, <1>5

\* The cars of the table that sync_inventory takes for sold after it has read the feed.
InFeed(c, feed) == \E k \in DOMAIN feed : \/ c.stock # NoKey /\ c.stock = feed[k].stock
                                          \/ c.vin # NoKey /\ c.vin = feed[k].vin
Marked(u, feed) == [i \in DOMAIN u |-> IF u[i].status = "available" /\ ~InFeed(u[i], feed)
                                       THEN [u[i] EXCEPT !.status = "sold"] ELSE u[i]]

\* A sync is the fold and the marking.
LEMMA SyncIs ==
  ASSUME NEW t, NEW feed
  PROVE  Sync(t, feed) = Marked(FoldLeft(Upsert, t, feed), feed)
BY Zenon DEF Sync, Marked, InFeed

\* Marking takes cars off sale and changes no key.
LEMMA MarkedKeeps ==
  ASSUME NEW u \in Seq(Car), NEW feed
  PROVE  LET v == Marked(u, feed)
         IN  /\ v \in Seq(Car) /\ DOMAIN v = DOMAIN u
             /\ \A i \in DOMAIN u : v[i].stock = u[i].stock /\ v[i].vin = u[i].vin
             /\ \A i \in DOMAIN u : v[i] = u[i] \/ v[i].status = "sold"
             /\ \A i \in DOMAIN u : InFeed(u[i], feed) => v[i] = u[i]
             /\ \A i \in DOMAIN u : v[i].status = "available" => InFeed(u[i], feed) /\ v[i] = u[i]
             /\ Distinct(u) => Distinct(v)
             /\ Shown(v) \subseteq Shown(u)
<1> DEFINE v == Marked(u, feed)
<1>1. DOMAIN v = DOMAIN u /\ DOMAIN u = 1..Len(u) /\ Len(u) \in Nat
  BY DEF Marked
<1>2. ASSUME NEW i \in DOMAIN u
      PROVE  /\ v[i] \in Car /\ v[i].stock = u[i].stock /\ v[i].vin = u[i].vin
             /\ v[i] = u[i] \/ v[i].status = "sold"
             /\ InFeed(u[i], feed) => v[i] = u[i]
             /\ v[i].status = "available" => InFeed(u[i], feed) /\ v[i] = u[i]
  <2>1. v[i] = IF u[i].status = "available" /\ ~InFeed(u[i], feed)
               THEN [u[i] EXCEPT !.status = "sold"] ELSE u[i]
    BY DEF Marked
  <2>2. u[i] \in Car
    OBVIOUS
  <2>3. [u[i] EXCEPT !.status = "sold"] \in Car
    BY <2>2 DEF Car, Statuses
  <2>4. QED
    BY <2>1, <2>2, <2>3 DEF Car
<1>3. v \in Seq(Car)
  <2>1. v = [i \in 1..Len(u) |-> v[i]]
    BY <1>1 DEF Marked
  <2> HIDE DEF v
  <2>2. v \in [1..Len(u) -> Car]
    BY <1>1, <1>2, <2>1
  <2>3. QED
    BY <1>1, <2>2
<1> HIDE DEF v
<1>4. Distinct(u) => Distinct(v)
  BY <1>1, <1>2 DEF Distinct
<1>5. Shown(v) \subseteq Shown(u)
  BY <1>1, <1>2 DEF Shown
<1>6. QED
  BY <1>1, <1>2, <1>3, <1>4, <1>5 DEF v
-----------------------------------------------------------------------------
(* The invariant                                                           *)

\* What every start has.
LEMMA InventoryStart == InventoryInit => IInventory
<1> SUFFICES ASSUME InventoryInit PROVE IInventory
  OBVIOUS
<1>1. cars = <<>> /\ cars \in Seq(Car) /\ cars \in Seq(Cars) /\ Len(cars) = 0 /\ DOMAIN cars = {}
  BY DEF InventoryInit
<1>2. MaxCars \in Nat /\ MaxCrashes \in Nat
  BY LimitsAssumption
<1>3. 0 <= MaxCars /\ 0 \in 0..MaxCrashes
  BY <1>2
<1>4. InventoryTypeOK
  BY <1>1, <1>3 DEF InventoryInit, InventoryTypeOK
<1>5. QED
  BY <1>1, <1>4 DEF InventoryInit, IInventory, Distinct, OfferedIsListed

\* A car of the proofs is a car of the model, and the search offers those on sale.
LEMMA CarIsTyped ==
  /\ \A t \in Seq(Car) : t \in Seq(Cars)
  /\ Offered = Shown(cars)
<1>1. Car \subseteq Cars
  BY DEF Car, Cars
<1>2. QED
  BY <1>1 DEF Offered, Shown, Where

\* upload_inventory keeps it.
LEMMA UploadStep ==
  ASSUME IInventory, NEW file \in Files, NEW full \in BOOLEAN, Upload(file, full)
  PROVE  IInventory'
<1> DEFINE good == {r.stock : r \in ToSet(file) \ {BadRow}}
<1>1. PICK n \in 1..MaxRows : file \in [1..n -> Rows]
  BY DEF Files
<1>2. n \in Nat /\ cars \in Seq(Car) /\ Distinct(cars)
  BY <1>1, LimitsAssumption DEF IInventory
<1>3. /\ good \subseteq Stocks
      /\ \A k \in 1..n : file[k] # BadRow => file[k].stock \in good
  <2>1. ToSet(file) = {file[k] : k \in 1..n}
    BY <1>1 DEF ToSet
  <2>2. \A r \in ToSet(file) : r \in Rows
    BY <1>1, <2>1
  <2>3. good \subseteq Stocks
    BY <2>2, RowType
  <2>4. QED
    BY <2>1, <2>3
<1>4. /\ cars' = FoldLeft(PutRow, cars, file) /\ Len(cars') <= MaxCars
      /\ removing' = (IF full THEN good ELSE {}) /\ onSale' = onSale \cup good
      /\ UNCHANGED <<answered, crashes>>
  BY DEF Upload
<1> HIDE DEF good
<1>5. cars' \in Seq(Car) /\ Distinct(cars') /\ Shown(cars') \subseteq Shown(cars) \cup good
  BY <1>1, <1>2, <1>3, <1>4, UploadKeeps
<1>6. InventoryTypeOK'
  BY <1>3, <1>4, <1>5, CarIsTyped DEF IInventory, InventoryTypeOK
<1>7. OfferedIsListed'
  <2>1. Offered' = Shown(cars') /\ Offered = Shown(cars)
    BY CarIsTyped DEF Offered, Shown, Where
  <2>2. QED
    BY <1>4, <1>5, <2>1 DEF IInventory, OfferedIsListed
<1>8. QED
  BY <1>5, <1>6, <1>7 DEF IInventory, Distinct

\* The second half of a full upload keeps it: what is still on sale is in the file.
LEMMA RemoveOthersStep ==
  ASSUME IInventory, RemoveOthers
  PROVE  IInventory'
<1> DEFINE Left(i) == IF cars[i].stock \notin removing \cup {NoKey}
                      THEN [cars[i] EXCEPT !.status = "removed"] ELSE cars[i]
<1>1. /\ cars' = [i \in DOMAIN cars |-> Left(i)]
      /\ onSale' = removing /\ removing' = {} /\ answered' = TRUE /\ UNCHANGED crashes
  BY DEF RemoveOthers
<1>2. cars \in Seq(Car) /\ Distinct(cars) /\ DOMAIN cars = 1..Len(cars) /\ Len(cars) \in Nat
  BY DEF IInventory
<1>3. ASSUME NEW i \in DOMAIN cars
      PROVE  /\ Left(i) \in Car /\ Left(i).stock = cars[i].stock
             /\ Left(i).status = "available" => Left(i).stock \in removing
  <2>1. cars[i] \in Car
    BY <1>2
  <2>2. cars[i].stock # NoKey
    BY <2>1, KeysAssumption DEF Car
  <2>3. [cars[i] EXCEPT !.status = "removed"] \in Car
    BY <2>1 DEF Car, Statuses
  <2>4. QED
    BY <2>1, <2>2, <2>3 DEF Car
<1> HIDE DEF Left
<1>4. cars' \in [1..Len(cars) -> Car] /\ DOMAIN cars' = DOMAIN cars
  BY <1>1, <1>2, <1>3
<1>5. cars' \in Seq(Car) /\ Len(cars') = Len(cars)
  BY <1>2, <1>4
<1>6. Distinct(cars')
  BY <1>1, <1>2, <1>3 DEF Distinct
<1>7. Shown(cars') \subseteq removing
  BY <1>1, <1>3, <1>4 DEF Shown
<1>8. InventoryTypeOK'
  BY <1>1, <1>5, CarIsTyped DEF IInventory, InventoryTypeOK
<1>9. OfferedIsListed'
  BY <1>1, <1>7 DEF OfferedIsListed, Offered, Shown, Where
<1>10. QED
  BY <1>5, <1>6, <1>8, <1>9 DEF IInventory, Distinct

\* set_inventory_status keeps it.
LEMMA SetStatusStep ==
  ASSUME IInventory, NEW stock \in Stocks, NEW status \in Statuses, SetStatus(stock, status)
  PROVE  IInventory'
<1> DEFINE found == {i \in DOMAIN cars : cars[i].stock = stock}
           m == Min(found)
           c == [cars[m] EXCEPT !.status = status]
<1>1. /\ found # {} /\ cars' = [cars EXCEPT ![m].status = status]
      /\ onSale' = (IF status = "available" THEN onSale \cup {stock} ELSE onSale)
      /\ UNCHANGED <<removing, answered, crashes>>
  BY DEF SetStatus, Where
<1>2. cars \in Seq(Car) /\ Distinct(cars)
  BY DEF IInventory
<1>3. m \in DOMAIN cars /\ cars[m].stock = stock
  <2>1. found \in SUBSET DOMAIN cars /\ \A i \in found : cars[i].stock = stock
    OBVIOUS
  <2> HIDE DEF found
  <2>2. QED
    BY <1>1, <1>2, <2>1, FoundFirst
<1> HIDE DEF found, m
<1>4. c \in Car /\ c.stock = stock /\ c.status = status /\ cars' = [cars EXCEPT ![m] = c]
  <2>1. cars[m] \in Car
    BY <1>2, <1>3
  <2>2. QED
    BY <1>1, <1>3, <2>1 DEF Car
<1> HIDE DEF c
<1>5. \A j \in DOMAIN cars : j # m => cars[j].stock # c.stock
  BY <1>2, <1>3, <1>4 DEF Distinct
<1>6. Takes(cars, cars', stock)
  BY <1>2, <1>3, <1>4, <1>5, Replaced
<1>7. /\ Len(cars') = Len(cars) /\ DOMAIN cars' = DOMAIN cars /\ cars'[m] = c
      /\ \A j \in DOMAIN cars : j # m => cars'[j] = cars[j]
  BY <1>2, <1>3, <1>4
<1>8. status # "available" => Shown(cars') \subseteq Shown(cars)
  BY <1>4, <1>7 DEF Shown
<1>9. InventoryTypeOK'
  BY <1>1, <1>6, <1>7, CarIsTyped DEF IInventory, InventoryTypeOK, Takes
<1>10. OfferedIsListed'
  <2>1. Offered' = Shown(cars') /\ Offered = Shown(cars)
    BY CarIsTyped DEF Offered, Shown, Where
  <2>2. QED
    BY <1>1, <1>6, <1>8, <2>1 DEF IInventory, OfferedIsListed, Takes
<1>11. QED
  BY <1>2, <1>6, <1>9, <1>10 DEF IInventory, Distinct, Takes

\* seed_vehicles keeps it.
LEMMA SeedStep ==
  ASSUME IInventory, Seed
  PROVE  IInventory'
<1> DEFINE n == Len(Demo)
           stocks == {r.stock : r \in ToSet(Demo)}
           u == FoldLeft(Upsert, cars, Demo)
<1>1. n \in Nat /\ Demo \in [1..n -> Record]
  <2> DEFINE OnSale == [stock : Stocks, vin : Vins, status : {"available"}]
  <2>1. OnSale \subseteq Record
    BY DEF Record, Statuses
  <2>2. Demo \in Seq(OnSale)
    BY DemoAssumption
  <2> HIDE DEF OnSale
  <2>3. n \in Nat /\ Demo \in [1..n -> OnSale]
    BY <2>2
  <2>4. QED
    BY <2>1, <2>3
<1>2. stocks \subseteq Stocks /\ \A k \in 1..n : Demo[k].stock \in stocks
  <2>1. ToSet(Demo) = {Demo[k] : k \in 1..n}
    BY <1>1 DEF ToSet
  <2>2. QED
    BY <1>1, <2>1 DEF Record
<1>3. /\ cars' = Marked(u, Demo) /\ Len(cars') <= MaxCars
      /\ onSale' = onSale \cup stocks /\ UNCHANGED <<removing, answered, crashes>>
  BY SyncIs DEF Seed
<1>4. cars \in Seq(Car) /\ Distinct(cars)
  BY DEF IInventory
<1> HIDE DEF n, stocks
<1>5. u \in Seq(Car) /\ Distinct(u) /\ Shown(u) \subseteq Shown(cars) \cup stocks
  BY <1>1, <1>2, <1>4, FeedKeeps
<1> HIDE DEF u
<1>6. cars' \in Seq(Car) /\ Distinct(cars') /\ Shown(cars') \subseteq Shown(cars) \cup stocks
  BY <1>3, <1>5, MarkedKeeps
<1>7. InventoryTypeOK'
  BY <1>2, <1>3, <1>6, CarIsTyped DEF IInventory, InventoryTypeOK
<1>8. OfferedIsListed'
  <2>1. Offered' = Shown(cars') /\ Offered = Shown(cars)
    BY CarIsTyped DEF Offered, Shown, Where
  <2>2. QED
    BY <1>3, <1>6, <2>1 DEF IInventory, OfferedIsListed
<1>9. QED
  BY <1>6, <1>7, <1>8 DEF IInventory, Distinct

\* Every step keeps it.
LEMMA InventoryStep == IInventory /\ [InventoryNext]_inventoryVars => IInventory'
<1> SUFFICES ASSUME IInventory, [InventoryNext]_inventoryVars PROVE IInventory'
  OBVIOUS
<1>1. CASE \E file \in Files, full \in BOOLEAN : Upload(file, full)
  BY <1>1, UploadStep
<1>2. CASE RemoveOthers
  BY <1>2, RemoveOthersStep
<1>3. ASSUME Crash PROVE IInventory'
  <2>1. /\ removing' = {} /\ UNCHANGED <<cars, answered, onSale>> /\ crashes' = crashes + 1
        /\ crashes < MaxCrashes
    BY <1>3 DEF Crash
  <2>2. InventoryTypeOK'
    <3>1. MaxCrashes \in Nat /\ crashes \in 0..MaxCrashes
      BY LimitsAssumption DEF IInventory, InventoryTypeOK
    <3>2. crashes' \in 0..MaxCrashes
      BY <2>1, <3>1
    <3>3. QED
      BY <2>1, <3>2 DEF IInventory, InventoryTypeOK
  <2>3. QED
    BY <2>1, <2>2, CarIsTyped DEF IInventory, OfferedIsListed, Offered, Where, Distinct
<1>4. CASE Seed
  BY <1>4, SeedStep
<1>5. CASE \E stock \in Stocks, status \in Statuses : SetStatus(stock, status)
  BY <1>5, SetStatusStep
<1>6. CASE UNCHANGED inventoryVars
  BY <1>6 DEF inventoryVars, IInventory, InventoryTypeOK, OfferedIsListed, Offered, Where, Distinct
<1>7. QED
  BY <1>1, <1>2, <1>3, <1>4, <1>5, <1>6 DEF InventoryNext

\* So it holds of every behaviour.
LEMMA InventoryInvariant == InventorySpec => []IInventory
BY InventoryStart, InventoryStep, PTL DEF InventorySpec

\* Every variable of the stock stays in its range.
THEOREM InventoryType == InventorySpec => []InventoryTypeOK
<1>1. IInventory => InventoryTypeOK
  BY DEF IInventory
<1>2. QED
  BY <1>1, InventoryInvariant, PTL

\* What a customer asked about is one car: uploads, seeding and the status button,
\* which match by stock number and then by VIN, never make two cars of a stock number.
THEOREM OneCar == InventorySpec => []StockNamesOneCar
<1>1. ASSUME IInventory PROVE StockNamesOneCar
  <2> SUFFICES ASSUME NEW i \in DOMAIN cars PROVE Resolves(cars[i].stock) = {i}
    BY DEF StockNamesOneCar
  <2>1. \A j \in DOMAIN cars : cars[j].stock = cars[i].stock => j = i
    BY <1>1 DEF IInventory, Distinct
  <2>2. Where(cars, LAMBDA c : c.stock = cars[i].stock) = {i}
    BY <2>1 DEF Where
  <2>3. QED
    BY <2>2 DEF Resolves
<1>2. QED
  BY <1>1, InventoryInvariant, PTL

\* Once a full upload has been answered, a search offers only what was in its file or
\* was put on sale since, however the uploads, their crashes and the seeding fall.
THEOREM OnlyListed == InventorySpec => []OfferedIsListed
<1>1. IInventory => OfferedIsListed
  BY DEF IInventory
<1>2. QED
  BY <1>1, InventoryInvariant, PTL
-----------------------------------------------------------------------------
(* The sync repeated                                                       *)

\* A record's own car.
Holds(t, r) == \E i \in DOMAIN t : t[i] = r

\* After a feed whose records share no key, each record is in the table as it came.
LEMMA FeedIsStored ==
  ASSUME NEW t \in Seq(Car), NEW n \in Nat, NEW feed \in [1..n -> Record],
         \A i, j \in 1..n : feed[i].stock = feed[j].stock \/ feed[i].vin = feed[j].vin => i = j
  PROVE  \A j \in 1..n : Holds(FoldLeft(Upsert, t, feed), feed[j])
<1>1. PICK a \in [0..n -> Seq(Car)] :
        /\ a[0] = t /\ a[n] = FoldLeft(Upsert, t, feed)
        /\ \A k \in 1..n : a[k] = Upsert(a[k - 1], feed[k])
  BY FeedChain
<1> DEFINE Stored == {k \in 0..n : \A j \in 1..n : j <= k => Holds(a[k], feed[j])}
<1>2. 0 \in Stored
  OBVIOUS
<1>3. ASSUME NEW k \in 1..n, k - 1 \in Stored PROVE k \in Stored
  <2>1. k \in 0..n /\ k - 1 \in 0..n /\ a[k - 1] \in Seq(Car) /\ feed[k] \in Record
    OBVIOUS
  <2>2. Upserted(a[k - 1], a[k], feed[k])
    BY <1>1, <2>1, UpsertKeeps
  <2>3. ASSUME NEW j \in 1..n, j <= k PROVE Holds(a[k], feed[j])
    <3>1. CASE j = k
      BY <2>2, <3>1 DEF Upserted, Holds
    <3>2. CASE j # k
      <4>1. j <= k - 1
        BY <2>3, <3>2
      <4>2. PICK i \in DOMAIN a[k - 1] : a[k - 1][i] = feed[j]
        BY <1>3, <4>1 DEF Holds
      <4>3. feed[j].stock # feed[k].stock /\ feed[j].vin # feed[k].vin
        BY <3>2
      <4>4. i \in DOMAIN a[k] /\ a[k][i] = feed[j]
        BY <2>2, <4>2, <4>3 DEF Upserted
      <4>5. QED
        BY <4>4 DEF Holds
    <3>3. QED
      BY <3>1, <3>2
  <2>4. QED
    BY <2>1, <2>3
<1>4. 0..n \subseteq Stored
  <2> HIDE DEF Stored
  <2>1. QED
    BY <1>2, <1>3, UpTo
<1>5. n \in Stored
  BY <1>4
<1>6. QED
  BY <1>1, <1>5

\* A feed whose records are all in the table changes nothing.
LEMMA StoredFeedIsNoOp ==
  ASSUME NEW t \in Seq(Car), Distinct(t), NEW n \in Nat, NEW feed \in [1..n -> Record],
         \A j \in 1..n : Holds(t, feed[j])
  PROVE  FoldLeft(Upsert, t, feed) = t
<1>1. PICK a \in [0..n -> Seq(Car)] :
        /\ a[0] = t /\ a[n] = FoldLeft(Upsert, t, feed)
        /\ \A k \in 1..n : a[k] = Upsert(a[k - 1], feed[k])
  BY FeedChain
<1> DEFINE Same == {k \in 0..n : a[k] = t}
<1>2. 0 \in Same
  BY <1>1
<1>3. ASSUME NEW k \in 1..n, k - 1 \in Same PROVE k \in Same
  <2>1. a[k - 1] = t /\ a[k] = Upsert(t, feed[k]) /\ feed[k] \in Record
    BY <1>1, <1>3
  <2>2. Upserted(t, a[k], feed[k]) /\ Holds(t, feed[k])
    BY <2>1, UpsertKeeps
  <2>3. QED
    BY <2>2 DEF Upserted, Holds
<1>4. 0..n \subseteq Same
  <2> HIDE DEF Same
  <2>1. QED
    BY <1>2, <1>3, UpTo
<1>5. n \in Same
  BY <1>4
<1>6. QED
  BY <1>1, <1>5

\* What is on sale after a sync is in its feed.
LEMMA MarkedTwice ==
  ASSUME NEW u \in Seq(Car), NEW feed
  PROVE  Marked(Marked(u, feed), feed) = Marked(u, feed)
<1> DEFINE v == Marked(u, feed)
<1>1. /\ v \in Seq(Car) /\ DOMAIN v = DOMAIN u
      /\ \A i \in DOMAIN u : v[i].status = "available" => InFeed(u[i], feed) /\ v[i] = u[i]
  BY MarkedKeeps
<1>2. v = [i \in DOMAIN v |-> v[i]]
  BY <1>1
<1> HIDE DEF v
<1>3. \A i \in DOMAIN v : ~(v[i].status = "available" /\ ~InFeed(v[i], feed))
  BY <1>1
<1>4. Marked(v, feed) = [i \in DOMAIN v |-> v[i]]
  BY <1>3 DEF Marked
<1>5. QED
  BY <1>2, <1>4 DEF v

\* sync_inventory run twice with the same data is a no-op, as its docstring has it: for
\* any cars that uploads, seeding and the status button leave on file, and any feed whose
\* rows have both keys and share none.
THEOREM SyncTwice == InventorySpec => []SyncIsIdempotent
<1>1. ASSUME IInventory PROVE SyncIsIdempotent
  <2> SUFFICES ASSUME NEW feed \in Feeds PROVE Sync(Sync(cars, feed), feed) = Sync(cars, feed)
    BY DEF SyncIsIdempotent
  <2>1. PICK n \in 1..MaxRows :
          /\ feed \in [1..n -> Record]
          /\ \A i, j \in 1..n : feed[i].stock = feed[j].stock \/ feed[i].vin = feed[j].vin => i = j
    <3> DEFINE rows == [stock : Stocks, vin : Vins, word : {"new", "sold"}]
               records == {MapRow(r) : r \in rows}
    <3>1. records \subseteq Record
      BY DEF MapRow, StatusOf, Record, Statuses
    <3>2. PICK n \in 1..MaxRows : feed \in [1..n -> records]
      BY DEF Feeds
    <3>3. feed \in [1..n -> Record] /\ DOMAIN feed = 1..n
      BY <3>1, <3>2
    <3>4. QED
      BY <3>3 DEF Feeds
  <2>2. n \in Nat /\ cars \in Seq(Car) /\ Distinct(cars)
    BY <1>1, <2>1, LimitsAssumption DEF IInventory
  <2> DEFINE u    == FoldLeft(Upsert, cars, feed)
             once == Marked(u, feed)
  <2>3. Sync(cars, feed) = once /\ Sync(once, feed) = Marked(FoldLeft(Upsert, once, feed), feed)
    BY SyncIs
  <2>4. u \in Seq(Car) /\ Distinct(u)
    <3>1. \A k \in 1..n : feed[k].stock \in Stocks
      BY <2>1 DEF Record
    <3>2. QED
      BY <2>1, <2>2, <3>1, FeedKeeps
  <2>5. \A j \in 1..n : Holds(u, feed[j])
    BY <2>1, <2>2, FeedIsStored
  <2> HIDE DEF u
  <2>6. /\ once \in Seq(Car) /\ DOMAIN once = DOMAIN u /\ Distinct(once)
        /\ \A i \in DOMAIN u : InFeed(u[i], feed) => once[i] = u[i]
    BY <2>4, MarkedKeeps
  <2>7. ASSUME NEW j \in 1..n PROVE Holds(once, feed[j])
    <3>1. PICK i \in DOMAIN u : u[i] = feed[j]
      BY <2>5 DEF Holds
    <3>2. DOMAIN feed = 1..n /\ feed[j].stock # NoKey
      BY <2>1, KeysAssumption DEF Record
    <3>3. InFeed(u[i], feed)
      BY <3>1, <3>2 DEF InFeed
    <3> HIDE DEF once
    <3>4. QED
      BY <2>6, <3>1, <3>3 DEF Holds
  <2>8. FoldLeft(Upsert, once, feed) = once
    <3> HIDE DEF once
    <3>1. QED
      BY <2>1, <2>2, <2>6, <2>7, StoredFeedIsNoOp
  <2>9. QED
    BY <2>3, <2>4, <2>8, MarkedTwice
<1>2. QED
  BY <1>1, InventoryInvariant, PTL
=============================================================================
