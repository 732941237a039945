----------------------- MODULE TicketRelationsProofs -----------------------
(***************************************************************************)
(* add_relation and remove_relation for any tickets, arguments, numbers of *)
(* calls, changes by others and lost requests: what a reader sees after a  *)
(* call, what a refused one leaves, and what errors and removals are about.*)
(***************************************************************************)
EXTENDS TicketRelations, TLAPS, FiniteSetTheorems, SequenceTheorems,
        WellFoundedInduction

-----------------------------------------------------------------------------
(* Sequences.                                                              *)

Once(s) == \A i, j \in DOMAIN s : s[i] = s[j] => i = j

LEMMA LeastExists ==
    ASSUME NEW S \in SUBSET Nat, S # {}
    PROVE  \E i \in S : \A j \in S : i <= j
<1> DEFINE R == OpToRel(<, Nat)
<1>1. S \subseteq Nat /\ S # {}
  OBVIOUS
<1>2. \E x \in S : \A y \in S : ~(<<y, x>> \in R)
  <2>1. IsWellFoundedOn(R, Nat)
    BY NatLessThanWellFounded
  <2> HIDE DEF R
  <2> QED
    BY <1>1, <2>1, WFMin
<1>3. PICK x \in S : \A y \in S : ~(<<y, x>> \in R)
  BY <1>2
<1>4. \A y \in S : ~(y < x)
  BY <1>1, <1>3 DEF OpToRel
<1> QED
  BY <1>1, <1>4

LEMMA RemoveAtElement ==
    ASSUME NEW S, NEW s \in Seq(S), NEW i \in DOMAIN s
    PROVE  LET t == RemoveAt(s, i)
           IN  /\ t \in Seq(S) /\ Len(t) = Len(s) - 1
               /\ \A j \in DOMAIN t : t[j] = IF j < i THEN s[j] ELSE s[j + 1]
<1> DEFINE a == SubSeq(s, 1, i - 1)
           b == SubSeq(s, i + 1, Len(s))
<1>1. Len(s) \in Nat /\ i \in 1..Len(s)
  OBVIOUS
<1>2. a \in Seq(S) /\ Len(a) = i - 1 /\ \A j \in 1..(i - 1) : a[j] = s[j]
  BY <1>1
<1>3. b \in Seq(S) /\ Len(b) = Len(s) - i /\ \A j \in 1..(Len(s) - i) : b[j] = s[i + j]
  BY <1>1
<1> HIDE DEF a, b
<1>4. a \o b \in Seq(S) /\ Len(a \o b) = Len(s) - 1
  BY <1>1, <1>2, <1>3
<1>5. \A j \in 1..(Len(s) - 1) : (a \o b)[j] = IF j < i THEN s[j] ELSE s[j + 1]
  BY <1>1, <1>2, <1>3
<1>6. RemoveAt(s, i) = a \o b
  BY DEF RemoveAt, a, b
<1> QED
  BY <1>4, <1>5, <1>6

(* Removing a position of a sequence without repetitions removes exactly   *)
(* what was there.                                                         *)
LEMMA RemoveAtExact ==
    ASSUME NEW S, NEW s \in Seq(S), Once(s), NEW i \in DOMAIN s
    PROVE  /\ RemoveAt(s, i) \in Seq(S)
           /\ Once(RemoveAt(s, i))
           /\ ToSet(RemoveAt(s, i)) = ToSet(s) \ {s[i]}
<1> DEFINE t == RemoveAt(s, i)
<1>1. /\ t \in Seq(S) /\ Len(t) = Len(s) - 1 /\ Len(s) \in Nat /\ i \in 1..Len(s)
      /\ DOMAIN t = 1..(Len(s) - 1) /\ DOMAIN s = 1..Len(s)
      /\ \A j \in DOMAIN t : t[j] = IF j < i THEN s[j] ELSE s[j + 1]
  BY RemoveAtElement
<1> HIDE DEF t
<1>2. Once(t)
  BY <1>1 DEF Once
<1>3. ASSUME NEW x \in ToSet(t)
      PROVE  x \in ToSet(s) \ {s[i]}
  BY <1>1 DEF ToSet, Once
<1>4. ASSUME NEW x \in ToSet(s), x # s[i]
      PROVE  x \in ToSet(t)
  <2>1. PICK j \in 1..Len(s) : x = s[j]
    BY <1>1 DEF ToSet
  <2>2. CASE j < i
    BY <2>1, <2>2, <1>1 DEF ToSet
  <2>3. CASE j > i
    <3>1. j - 1 \in DOMAIN t /\ ~(j - 1 < i) /\ (j - 1) + 1 = j
      BY <2>1, <2>3, <1>1
    <3>2. t[j - 1] = s[j]
      BY <3>1, <1>1
    <3> QED
      BY <2>1, <3>1, <3>2 DEF ToSet
  <2> QED
    BY <2>1, <2>2, <2>3, <1>4, <1>1
<1> QED
  BY <1>1, <1>2, <1>3, <1>4 DEF t

LEMMA FirstIndex ==
    ASSUME NEW S, NEW s \in Seq(S), NEW I \in SUBSET (1..Len(s)), I # {}
    PROVE  Min(I) \in I
<1>1. I \subseteq Nat
  OBVIOUS
<1>2. \E i \in I : \A j \in I : i <= j
  BY <1>1, LeastExists
<1> QED
  BY <1>2 DEF Min

LEMMA RemoveFirstExact ==
    ASSUME NEW S, NEW s \in Seq(S), Once(s), NEW e
    PROVE  /\ RemoveFirst(s, e) \in Seq(S)
           /\ Once(RemoveFirst(s, e))
           /\ ToSet(RemoveFirst(s, e)) = ToSet(s) \ {e}
<1> DEFINE I == {i \in 1..Len(s) : s[i] = e}
<1>1. CASE I = {}
  <2>1. RemoveFirst(s, e) = s
    BY <1>1 DEF RemoveFirst
  <2>2. e \notin ToSet(s)
    BY <1>1 DEF ToSet
  <2> QED
    BY <2>1, <2>2
<1>2. CASE I # {}
  <2>1. SelectInSeq(s, LAMBDA v : v = e) = Min(I)
    BY <1>2 DEF SelectInSeq
  <2>2. Min(I) \in I
    BY <1>2, FirstIndex
  <2>3. RemoveFirst(s, e) = RemoveAt(s, Min(I))
    BY <1>2, <2>1 DEF RemoveFirst
  <2>4. Min(I) \in DOMAIN s /\ s[Min(I)] = e
    BY <2>2
  <2> HIDE DEF I
  <2> QED
    BY <2>3, <2>4, RemoveAtExact
<1> QED
  BY <1>1, <1>2

(* RemoveFirstMatch with the test DropParents makes.                       *)
LEMMA DropParentsExact ==
    ASSUME NEW S, rels \in Seq(S), Once(rels),
           \A q, r \in ToSet(rels) : q.kind = "parent" /\ r.kind = "parent" => q = r
    PROVE  /\ DropParents \in Seq(S)
           /\ Once(DropParents)
           /\ ToSet(DropParents) = ToSet(rels) \ Parents
<1> DEFINE I == {i \in 1..Len(rels) : rels[i].kind = "parent"}
<1>1. CASE I = {}
  <2>1. DropParents = rels
    BY <1>1 DEF DropParents, RemoveFirstMatch
  <2>2. Parents = {}
    BY <1>1 DEF Parents, ToSet
  <2> QED
    BY <2>1, <2>2
<1>2. CASE I # {}
  <2>1. DropParents = RemoveAt(rels, Min(I))
    BY <1>2 DEF DropParents, RemoveFirstMatch, SelectInSeq
  <2>2. Min(I) \in I
    BY <1>2, FirstIndex
  <2>3. Min(I) \in DOMAIN rels /\ rels[Min(I)].kind = "parent"
    BY <2>2
  <2> HIDE DEF I
  <2>4. Parents = {rels[Min(I)]}
    BY <2>3 DEF Parents, ToSet
  <2> QED
    BY <2>1, <2>3, <2>4, RemoveAtExact
<1> QED
  BY <1>1, <1>2

LEMMA AppendExact ==
    ASSUME NEW S, NEW s \in Seq(S), Once(s), NEW e \in S, e \notin ToSet(s)
    PROVE  /\ Append(s, e) \in Seq(S)
           /\ Once(Append(s, e))
           /\ ToSet(Append(s, e)) = ToSet(s) \cup {e}
<1> DEFINE t == Append(s, e)
<1>1. /\ t \in Seq(S) /\ Len(s) \in Nat /\ DOMAIN s = 1..Len(s)
      /\ DOMAIN t = 1..(Len(s) + 1)
      /\ t[Len(s) + 1] = e /\ \A i \in 1..Len(s) : t[i] = s[i]
  OBVIOUS
<1> HIDE DEF t
<1>2. Once(t)
  BY <1>1 DEF Once, ToSet
<1>3. ToSet(t) = ToSet(s) \cup {e}
  BY <1>1 DEF ToSet
<1> QED
  BY <1>1, <1>2, <1>3 DEF t

-----------------------------------------------------------------------------
(* The relations the server keeps: each once, one parent, on GitLab one    *)
(* link per pair, duplicates on Azure DevOps only, and no missing target.  *)

Relations == [kind : Kinds, to : Tickets]
Lines     == [to : Tickets, own : BOOLEAN]

Fit(p, R) ==
    /\ R \subseteq Relations
    /\ \A r \in R : r.to \notin Missing
    /\ \A r \in R : r.kind = "duplicate_of" => p = "azure"
    /\ \A q, r \in R : q.kind = "parent" /\ r.kind = "parent" => q = r
    /\ p = "gitlab" => \A q, r \in R :
           q.kind \in Links /\ r.kind \in Links /\ q.to = r.to => q = r

Sound == rels \in Seq(Relations) /\ Once(rels) /\ Fit(provider, ToSet(rels))

LEMMA FewerFit ==
    ASSUME NEW p, NEW R, Fit(p, R), NEW Q \in SUBSET R
    PROVE  Fit(p, Q)
BY DEF Fit

LEMMA MoreFit ==
    ASSUME Sound, NEW k \in Kinds, NEW t \in Tickets, Allowed(k, t)
    PROVE  Fit(provider, (IF k = "parent" THEN ToSet(rels) \ Parents ELSE ToSet(rels))
                             \cup {Rel(k, t)})
<1> DEFINE old == ToSet(rels)
           kept == IF k = "parent" THEN old \ Parents ELSE old
<1>1. Fit(provider, old) /\ kept \subseteq old
  BY DEF Sound
<1>2. Rel(k, t) \in Relations /\ Rel(k, t).kind = k /\ Rel(k, t).to = t
  BY DEF Rel, Relations
<1>3. t \notin Missing /\ (k = "duplicate_of" => provider = "azure")
  BY DEF Allowed
<1>4. k = "parent" => \A r \in kept : r.kind # "parent"
  BY DEF Parents
<1>5. ASSUME k \in Links, provider = "gitlab", NEW r \in old, r.kind \in Links
      PROVE  r.to # t
  <2>1. r = Rel(r.kind, r.to)
    BY <1>1 DEF Fit, Relations, Rel
  <2>2. Paired(t) = {}
    BY <1>5 DEF Allowed
  <2> QED
    BY <1>5, <2>1, <2>2 DEF Paired, Linked
<1> HIDE DEF old, kept
<1> DEFINE r0 == Rel(k, t)
           new == kept \cup {r0}
<1>6. r0 \in Relations /\ r0.kind = k /\ r0.to = t
  BY <1>2
<1> HIDE DEF r0
<1>7. new \subseteq Relations /\ \A r \in new : r.to \notin Missing
  BY <1>1, <1>3, <1>6 DEF Fit
<1>8. \A r \in new : r.kind = "duplicate_of" => provider = "azure"
  BY <1>1, <1>3, <1>6 DEF Fit
<1>9. \A q, r \in new : q.kind = "parent" /\ r.kind = "parent" => q = r
  BY <1>1, <1>4, <1>6 DEF Fit
<1>10. provider = "gitlab" => \A q, r \in new :
          q.kind \in Links /\ r.kind \in Links /\ q.to = r.to => q = r
  BY <1>1, <1>5, <1>6 DEF Fit
<1>11. Fit(provider, new)
  BY <1>7, <1>8, <1>9, <1>10 DEF Fit
<1> QED
  BY <1>11 DEF r0, old, kept

(* What the four changes of the relations do to the set of them.           *)
LEMMA AddChanges ==
    ASSUME Sound, NEW k \in Kinds, NEW t \in Tickets, Allowed(k, t),
           SetRels(Added(k, t)), provider' = provider
    PROVE  /\ Sound'
           /\ ToSet(rels') = (IF k = "parent" THEN ToSet(rels) \ Parents ELSE ToSet(rels))
                                 \cup {Rel(k, t)}
<1> DEFINE r == Rel(k, t)
           kept == IF k = "parent" THEN DropParents ELSE rels
           set == IF k = "parent" THEN ToSet(rels) \ Parents ELSE ToSet(rels)
<1>1. rels' = Append(kept, r)
  BY DEF SetRels, Added
<1>2. kept \in Seq(Relations) /\ Once(kept) /\ ToSet(kept) = set
  BY DropParentsExact DEF Sound, Fit
<1>3. r \in Relations /\ r \notin set
  BY DEF Allowed, Linked, Rel, Relations
<1>4. Fit(provider, set \cup {r})
  BY MoreFit
<1> HIDE DEF kept, r, set
<1>5. rels' \in Seq(Relations) /\ Once(rels') /\ ToSet(rels') = set \cup {r}
  BY <1>1, <1>2, <1>3, AppendExact
<1> QED
  BY <1>4, <1>5 DEF Sound, set, r

LEMMA DropChanges ==
    ASSUME Sound, NEW r, SetRels(Drop(r)), provider' = provider
    PROVE  Sound' /\ ToSet(rels') = ToSet(rels) \ {r}
<1>1. rels' = RemoveFirst(rels, r) /\ rels \in Seq(Relations) /\ Once(rels)
  BY DEF SetRels, Drop, Sound
<1>2. rels' \in Seq(Relations) /\ Once(rels') /\ ToSet(rels') = ToSet(rels) \ {r}
  BY <1>1, RemoveFirstExact
<1> QED
  BY <1>2, FewerFit DEF Sound

LEMMA DropParentsChanges ==
    ASSUME Sound, SetRels(DropParents), provider' = provider
    PROVE  Sound' /\ ToSet(rels') = ToSet(rels) \ Parents
<1>1. rels' = DropParents
  BY DEF SetRels
<1>2. rels' \in Seq(Relations) /\ Once(rels') /\ ToSet(rels') = ToSet(rels) \ Parents
  BY <1>1, DropParentsExact DEF Sound, Fit
<1> QED
  BY <1>2, FewerFit DEF Sound

LEMMA RemoveAtChanges ==
    ASSUME Sound, NEW i \in DOMAIN rels, SetRels(RemoveAt(rels, i)), provider' = provider
    PROVE  Sound'
<1>1. rels' = RemoveAt(rels, i) /\ rels \in Seq(Relations) /\ Once(rels)
  BY DEF SetRels, Sound
<1>2. rels' \in Seq(Relations) /\ Once(rels') /\ ToSet(rels') = ToSet(rels) \ {rels[i]}
  BY <1>1, RemoveAtExact
<1> QED
  BY <1>2, FewerFit DEF Sound

-----------------------------------------------------------------------------
(* The lines of the body.                                                  *)

LEMMA GreatestExists ==
    ASSUME NEW m \in Nat, NEW S \in SUBSET (1..m), S # {}
    PROVE  \E i \in S : \A j \in S : j <= i
<1> DEFINE T == {m - i : i \in S}
<1>1. T \subseteq Nat /\ T # {}
  <2>1. \A i \in S : m - i \in Nat
    OBVIOUS
  <2>2. \A x : x \in T <=> \E i \in S : x = m - i
    OBVIOUS
  <2> HIDE DEF T
  <2> QED
    BY <2>1, <2>2
<1>2. PICK x \in T : \A y \in T : x <= y
  <2> HIDE DEF T
  <2> QED
    BY <1>1, LeastExists
<1>3. PICK i \in S : x = m - i
  BY <1>2
<1>4. \A j \in S : m - i <= m - j
  BY <1>2, <1>3
<1> QED
  BY <1>4

LEMMA FiniteParts ==
    ASSUME NEW m \in Nat, NEW S \in SUBSET (1..m)
    PROVE  IsFiniteSet(S) /\ \A Q \in SUBSET S : IsFiniteSet(Q) /\ Cardinality(Q) \in Nat
<1>1. IsFiniteSet(1..m)
  BY FS_Interval
<1>2. \A Q \in SUBSET (1..m) : IsFiniteSet(Q)
  BY <1>1, FS_Subset
<1>3. \A Q \in SUBSET (1..m) : Cardinality(Q) \in Nat
  BY <1>2, FS_CardinalityType
<1> QED
  BY <1>2, <1>3

(* Among n of more places there is an n-th.                                *)
LEMMA NthIsThere ==
    ASSUME NEW m \in Nat, NEW S \in SUBSET (1..m), NEW n \in 1..Cardinality(S)
    PROVE  Nth(n, S) \in S
<1> DEFINE Upto(i) == {j \in S : j <= i}
           A == {i \in S : Cardinality(Upto(i)) >= n}
<1>0. IsFiniteSet(S) /\ \A Q \in SUBSET S : IsFiniteSet(Q) /\ Cardinality(Q) \in Nat
  BY FiniteParts
<1>1. S # {}
  BY FS_EmptySet
<1>2. A # {}
  <2>1. PICK i \in S : \A j \in S : j <= i
    BY <1>1, GreatestExists
  <2>2. Upto(i) = S
    BY <2>1
  <2>3. Cardinality(S) >= n
    BY <1>0
  <2> QED
    BY <2>2, <2>3
<1>3. PICK i \in A : \A j \in A : i <= j
  <2>1. A \subseteq S /\ S \subseteq Nat
    OBVIOUS
  <2> HIDE DEF A
  <2> QED
    BY <1>2, <2>1, LeastExists
<1> DEFINE B == {j \in S : j < i}
<1>4. i \in S /\ i \in Nat /\ Cardinality(Upto(i)) >= n
  BY <1>3
<1>5. Cardinality(Upto(i)) = Cardinality(B) + 1
  <2>1. Upto(i) = B \cup {i} /\ i \notin B
    <3>1. \A j \in S : j <= i <=> j < i \/ j = i
      BY <1>4
    <3>2. ~(i < i)
      BY <1>4
    <3> QED
      BY <1>4, <3>1, <3>2
  <2>2. IsFiniteSet(B)
    BY <1>0
  <2> HIDE DEF B, Upto
  <2> QED
    BY <2>1, <2>2, FS_AddElement
<1>6. Cardinality(B) < n
  <2> SUFFICES ASSUME Cardinality(B) >= n PROVE FALSE
    BY <1>0
  <2>1. B # {} /\ B \in SUBSET (1..m)
    <3>1. B # {}
      BY FS_EmptySet
    <3> QED
      BY <3>1
  <2>2. PICK k \in B : \A j \in B : j <= k
    <3> HIDE DEF B
    <3> QED
      BY <2>1, GreatestExists
  <2>3. k \in S /\ k < i /\ k \in Nat
    BY <2>2
  <2>5. \A j \in S : j <= k <=> j < i /\ j \in B
    <3>1. ASSUME NEW j \in S PROVE j \in Nat
      OBVIOUS
    <3>2. ASSUME NEW j \in S, j <= k PROVE j < i /\ j \in B
      BY <1>4, <2>3, <3>1, <3>2
    <3> QED
      BY <2>2, <3>2
  <2>6. Upto(k) = B
    BY <2>5
  <2>4. k \in A
    BY <2>3, <2>6
  <2> QED
    BY <1>3, <1>4, <2>3, <2>4
<1>7. Cardinality(Upto(i)) = n
  BY <1>0, <1>4, <1>5, <1>6
<1> QED
  BY <1>4, <1>7 DEF Nth

LEMMA StrippedLines ==
    ASSUME body \in Seq(Lines), NEW t
    PROVE  /\ StrippedBody(t) \in Seq(Lines)
           /\ \A i \in DOMAIN StrippedBody(t) : StrippedBody(t)[i] # Line(t, TRUE)
<1> DEFINE S == Unmarked(t)
           m == Cardinality(S)
<1>1. Len(body) \in Nat /\ S \in SUBSET (1..Len(body))
  BY LenProperties DEF Unmarked
<1>2. m \in Nat
  <2> HIDE DEF S
  <2> QED
    BY <1>1, FiniteParts
<1>3. StrippedBody(t) = [n \in 1..m |-> body[Nth(n, S)]]
  BY DEF StrippedBody
<1>4. \A n \in 1..m : Nth(n, S) \in S
  <2> HIDE DEF S
  <2> QED
    BY <1>1, NthIsThere
<1>5. \A i \in S : body[i] \in Lines /\ body[i] # Line(t, TRUE)
  BY <1>1, ElementOfSeq DEF Unmarked
<1> DEFINE f == [n \in 1..m |-> body[Nth(n, S)]]
<1> HIDE DEF S, m
<1>6. f \in [1..m -> Lines] /\ \A n \in 1..m : f[n] # Line(t, TRUE)
  BY <1>4, <1>5
<1> HIDE DEF f
<1>7. f \in Seq(Lines) /\ DOMAIN f = 1..m
  BY <1>2, <1>6
<1> QED
  BY <1>3, <1>6, <1>7 DEF f

LEMMA MarkedLines ==
    ASSUME body \in Seq(Lines), NEW t \in Tickets
    PROVE  /\ MarkedBody(t) \in Seq(Lines)
           /\ DOMAIN MarkedBody(t) # {}
<1>1. Line(t, TRUE) \in Lines
  BY DEF Line, Lines
<1>2. CASE Mentions(t)
  BY <1>2 DEF MarkedBody, Mentions
<1>3. CASE ~Mentions(t)
  <2>1. MarkedBody(t) = <<Line(t, TRUE)>> \o body
    BY <1>3 DEF MarkedBody
  <2> DEFINE l == Line(t, TRUE)
  <2>2. l \in Lines
    BY <1>1
  <2> HIDE DEF l
  <2>5. <<l>> \in Seq(Lines) /\ Len(<<l>>) = 1
    BY <2>2
  <2>3. <<l>> \o body \in Seq(Lines) /\ Len(<<l>> \o body) = 1 + Len(body)
    BY <2>5, ConcatProperties
  <2>4. 1 \in DOMAIN (<<l>> \o body)
    BY <2>3, LenProperties
  <2> QED
    BY <2>1, <2>3, <2>4 DEF l
<1> QED
  BY <1>2, <1>3

LEMMA MarkedMentions ==
    ASSUME body \in Seq(Lines), NEW t \in Tickets
    PROVE  \E i \in DOMAIN MarkedBody(t) : StartsWith(MarkedBody(t)[i].to, t)
<1>1. CASE Mentions(t)
  BY <1>1 DEF MarkedBody, Mentions
<1>2. CASE ~Mentions(t)
  <2> DEFINE m == <<Line(t, TRUE)>> \o body
  <2>1. MarkedBody(t) = m
    BY <1>2 DEF MarkedBody
  <2>2. 1 \in DOMAIN m /\ m[1] = Line(t, TRUE)
    BY DEF Line, Lines
  <2> QED
    BY <2>1, <2>2 DEF StartsWith, Line
<1> QED
  BY <1>1, <1>2

-----------------------------------------------------------------------------
(* The invariant: where a call is, and what it has done by then.           *)

PCs == {"start", "target", "check", "write", "body", "patch", "subject", "parent",
        "link", "put", "reread", "find", "unlink", "preflight", "describe", "remove", "fields"}
Calls == [op : {"add", "remove"}, pc : PCs, arg : Requests, body : Seq(Lines),
          index : Nat, link : Links \cup {"none"}]

BodyTyped == body \in Seq(Lines) /\ state \in {"open", "closed"}
Types ==
    /\ provider \in {"github", "gitlab", "azure"}
    /\ BodyTyped
    /\ call \in {Idle} \cup Calls
    /\ calls \in Nat /\ events \in Nat /\ faults \in Nat
    /\ alone \in BOOLEAN

Active == call.op # "none"

(* Which requests each step belongs to.                                    *)
GitHubRoute ==
    /\ call.pc \in {"start", "target", "check", "write", "body", "patch"}
    /\ call.pc # "start" => Arg.kind \in GitHubKinds
    /\ call.pc \in {"check", "write"} => Arg.kind # "duplicate_of"
    /\ call.pc = "check" /\ call.op = "remove" => Arg.kind \in Links
    /\ call.pc \in {"body", "patch"} => Arg.kind = "duplicate_of"
GitLabRoute ==
    /\ call.pc \in {"start", "subject", "parent", "link", "body", "put", "reread",
                   "find", "unlink"}
    /\ call.pc \in {"subject", "parent"} => Arg.kind \in Hierarchy
    /\ call.pc = "link" => call.op = "add" /\ Arg.kind \in {"relates_to", "duplicate_of"}
    /\ call.pc = "body" => \/ Arg.kind = "duplicate_of"
                           \/ call.op = "remove" /\ Arg.kind = "relates_to"
    /\ call.pc \in {"find", "unlink"} =>
          call.op = "remove" /\ Arg.kind \in {"relates_to", "duplicate_of"}
    /\ call.pc = "unlink" => call.link \in Links
    /\ call.pc \in {"put", "reread"} => Arg.kind = "duplicate_of"
    /\ call.pc = "reread" => call.op = "add"
    /\ call.op = "add" /\ call.pc \in {"start", "body", "link"} => call.link = "none"
AzureRoute ==
    /\ call.pc \in {"start", "preflight", "link", "describe", "find", "remove", "fields"}
    /\ call.pc \in {"preflight", "link"} => call.op = "add"
    /\ call.pc = "describe" => call.op = "add" /\ Arg.kind = "duplicate_of"
    /\ call.pc \in {"find", "remove"} => call.op = "remove"
    /\ call.pc = "fields" => Arg.kind = "duplicate_of"
Route ==
    Active => /\ provider = "github" => GitHubRoute
              /\ provider = "gitlab" => GitLabRoute
              /\ provider = "azure" => AzureRoute

(* The steps before which part of a duplicate has been written, and those  *)
(* that know what the body shall become.                                   *)
Halfway ==
    \/ provider = "gitlab" /\ call.pc \in {"put", "reread"}
    \/ provider = "azure" /\ call.pc \in {"describe", "fields"}
Prepared ==
    \/ provider = "github" /\ call.pc = "patch"
    \/ provider = "gitlab" /\ call.pc \in {"put", "find", "unlink"}
    \/ provider = "gitlab" /\ call.pc = "link" /\ Arg.kind = "duplicate_of"
    \/ provider = "azure" /\ call.pc \in {"remove", "fields"}
Edited == IF call.op = "add" THEN MarkedBody(To) ELSE StrippedBody(To)

(* Whether GitLab's pair was found linked, which is left as it is.         *)
WasThere == call.link # "none" /\ rels = before[1] /\ Paired(To) # {}

(* What a call has read still holds if nobody else has acted.              *)
Stage ==
    Active /\ alone =>
        /\ ~Halfway => ticket = before
        /\ Halfway /\ call.pc # "reread" =>
              ticket = before \/ LinkChanged(call.op, To)
        /\ provider = "gitlab" /\ call.pc = "put" /\ call.op = "add" =>
              call.link = "none" \/ WasThere
        /\ provider = "gitlab" /\ call.pc = "reread" => AllWritten(call.op, To)
        /\ Prepared => call.body = Edited
        /\ provider = "gitlab" /\ call.pc = "parent" /\ call.op = "remove" =>
              Linked(Arg.kind, To)
        /\ provider = "azure" /\ call.pc = "remove" => call.index \in Matching
        /\ provider = "azure" /\ call.pc \in {"describe", "fields"} /\ call.op = "add" =>
              Linked("duplicate_of", To)
        /\ provider = "azure" /\ call.pc = "fields" /\ call.op = "remove" =>
              LooksAlike(To, before[1]) \/ ~Linked("duplicate_of", To)

LinkInv ==
    /\ Types /\ Sound /\ Route /\ Stage
    /\ WritesReadBack /\ RefusalChangesOnlyLink

LEMMA LinkInit == Init => LinkInv
<1> SUFFICES ASSUME Init PROVE LinkInv
  OBVIOUS
<1>1. rels = <<>> /\ body = <<>> /\ call = Idle /\ ~Active
  BY DEF Init, Active, Idle
<1>2. Types
  BY <1>1, LinkConstants DEF Init, Types, BodyTyped
<1>3. Sound
  <2>1. ToSet(rels) = {}
    BY <1>1 DEF ToSet
  <2> QED
    BY <1>1, <2>1 DEF Sound, Once, Fit
<1>4. Route /\ Stage
  BY <1>1 DEF Route, Stage
<1>5. WritesReadBack /\ RefusalChangesOnlyLink
  BY DEF Init, NoResult, WritesReadBack, RefusalChangesOnlyLink
<1> QED
  BY <1>2, <1>3, <1>4, <1>5 DEF LinkInv

LEMMA HeldIsKept == Held = ToSet(rels) /\ Held' = ToSet(rels')
BY DEF Held, ToSet

LEMMA BeginKeeps == LinkInv /\ Begin => LinkInv'
<1> SUFFICES ASSUME LinkInv, Begin PROVE LinkInv'
  OBVIOUS
<1>1. PICK r \in Requests :
        call' = [op |-> r.op, pc |-> "start", arg |-> r, body |-> body,
                 index |-> 0, link |-> "none"]
  BY DEF Begin
<1>2. /\ call' \in Calls /\ call'.pc = "start" /\ call'.op # "none"
      /\ call'.link = "none"
      /\ result' = NoResult /\ ticket' = ticket /\ before' = ticket
      /\ provider' = provider /\ calls' \in Nat
      /\ UNCHANGED <<events, faults>> /\ alone' = TRUE
  BY <1>1, RequestTypes DEF Begin, Calls, PCs, LinkInv, Types, BodyTyped
<1>3. Types'
  BY <1>2 DEF Types, BodyTyped, ticket, LinkInv
<1>4. Sound'
  BY <1>2 DEF Sound, ticket, LinkInv
<1>5. Route'
  BY <1>2 DEF Route, GitHubRoute, GitLabRoute, AzureRoute
<1>6. Stage'
  BY <1>2 DEF Stage, Prepared, ticket
<1>7. WritesReadBack' /\ RefusalChangesOnlyLink'
  BY <1>2 DEF NoResult, WritesReadBack, RefusalChangesOnlyLink
<1> QED
  BY <1>3, <1>4, <1>5, <1>6, <1>7 DEF LinkInv

(* Everybody else.                                                         *)
LEMMA OtherKeeps ==
    ASSUME LinkInv, Sound', BodyTyped', events' = events + 1, alone' = FALSE,
           UNCHANGED <<provider, call, result, calls, faults, before>>
    PROVE  LinkInv'
<1>0. Types /\ Route
  BY DEF LinkInv
<1>1. Types'
  <2>1. events' \in Nat
    BY <1>0 DEF Types
  <2> QED
    BY <1>0, <2>1 DEF Types
<1>2. Route'
  BY <1>0 DEF Route, GitHubRoute, GitLabRoute, AzureRoute, Active, Arg
<1>3. Stage' /\ WritesReadBack' /\ RefusalChangesOnlyLink'
  BY DEF Stage, WritesReadBack, RefusalChangesOnlyLink
<1> QED
  BY <1>1, <1>2, <1>3 DEF LinkInv

LEMMA EnvironmentKeeps == LinkInv /\ Environment => LinkInv'
<1> SUFFICES ASSUME LinkInv, Environment PROVE LinkInv'
  OBVIOUS
<1>1. /\ events' = events + 1 /\ alone' = FALSE
      /\ UNCHANGED <<provider, call, result, calls, faults, before>>
  BY DEF Environment, Relate, Unrelate, Edit, Flip, Other
<1>2. Sound /\ BodyTyped
  BY DEF LinkInv, Types
<1>3. CASE Relate
  <2>1. PICK k \in Kinds, t \in Targets : Allowed(k, t) /\ SetRels(Added(k, t))
    BY <1>3 DEF Relate, Other
  <2>2. Sound'
    BY <1>1, <1>2, <2>1, AddChanges DEF Tickets
  <2> QED
    BY <1>1, <1>2, <2>1, <2>2, OtherKeeps DEF SetRels, BodyTyped
<1>4. CASE Unrelate
  <2>1. PICK i \in DOMAIN rels : SetRels(RemoveAt(rels, i))
    BY <1>4 DEF Unrelate, Other
  <2>2. Sound'
    BY <1>1, <1>2, <2>1, RemoveAtChanges
  <2> QED
    BY <1>1, <1>2, <2>1, <2>2, OtherKeeps DEF SetRels, BodyTyped
<1>5. CASE Edit
  <2>1. UNCHANGED <<rels, state>>
    BY <1>5 DEF Edit, Other, SetBody
  <2>2. body' \in Seq(Lines)
    <3>1. CASE \E t \in Targets, own \in BOOLEAN : SetBody(Append(body, Line(t, own)), state)
      <4>1. PICK t \in Targets, own \in BOOLEAN : body' = Append(body, Line(t, own))
        BY <3>1 DEF SetBody
      <4>2. Line(t, own) \in Lines
        BY DEF Line, Lines, Tickets
      <4> QED
        BY <1>2, <4>1, <4>2 DEF BodyTyped
    <3>2. CASE \E i \in DOMAIN body : SetBody(RemoveAt(body, i), state)
      BY <1>2, <3>2, RemoveAtElement DEF BodyTyped, SetBody
    <3> QED
      BY <1>5, <3>1, <3>2 DEF Edit, Other
  <2>3. Sound' /\ BodyTyped'
    BY <1>1, <1>2, <2>1, <2>2 DEF Sound, BodyTyped
  <2> QED
    BY <1>1, <2>3, OtherKeeps
<1>6. CASE Flip
  <2>1. UNCHANGED <<rels, body>> /\ state' \in {"open", "closed"}
    BY <1>6 DEF Flip, Other, SetBody
  <2>2. Sound' /\ BodyTyped'
    BY <1>1, <1>2, <2>1 DEF Sound, BodyTyped
  <2> QED
    BY <1>1, <2>2, OtherKeeps
<1> QED
  BY <1>3, <1>4, <1>5, <1>6 DEF Environment

-----------------------------------------------------------------------------
(* How a step of a call may end, whatever the provider.                    *)

(* The relations of a ticket that was as the call found it, less or more   *)
(* by the relation that the call is about.                                 *)
LEMMA ChangedByNow ==
    ASSUME ticket = before, before' = before, body' = body, state' = state,
           call'.op = call.op, To' = To, NEW r \in [kind : Kinds, to : Tickets],
           StartsWith(r.to, To),
           Held' = IF call.op = "add" THEN Held \cup {r} ELSE Held \ {r}
    PROVE  LinkChanged(call.op, To)'
<1>1. before[1] = rels /\ before[2] = body /\ before[3] = state
  BY DEF ticket
<1>2. Was' = Held
  BY <1>1 DEF Was, Held, ToSet
<1> QED
  BY <1>1, <1>2 DEF LinkChanged, StartsWith

LEMMA Busy ==
    ASSUME Types, call.pc # "idle"
    PROVE  /\ call \in Calls /\ Active /\ call.op \in {"add", "remove"}
           /\ Arg \in Requests /\ Arg.kind \in Kinds /\ To \in Tickets
BY RequestTypes DEF Types, Idle, Calls, Active, Arg, To

LEMMA EndedKeeps ==
    ASSUME LinkInv, call' = Idle, provider' = provider, alone' = alone,
           Sound', BodyTyped', calls' = calls, events' = events, faults' \in Nat,
           WritesReadBack', RefusalChangesOnlyLink'
    PROVE  LinkInv'
<1>1. Types'
  BY DEF Types, LinkInv
<1>2. ~Active'
  BY DEF Active, Idle
<1>3. Route' /\ Stage'
  BY <1>2 DEF Route, Stage
<1> QED
  BY <1>1, <1>3 DEF LinkInv

LEMMA RaiseKeeps ==
    ASSUME LinkInv, NEW e, Raise(e), Silent, alone => ticket = before
    PROVE  LinkInv'
<1>1. /\ call' = Idle /\ result'.ok = FALSE
      /\ UNCHANGED <<provider, rels, body, state, calls, events, faults, before, alone>>
  BY DEF Raise, End, Silent, ticket, bounds, history
<1>2. WritesReadBack'
  BY <1>1 DEF WritesReadBack
<1>3. RefusalChangesOnlyLink'
  BY <1>1 DEF RefusalChangesOnlyLink, ticket
<1>4. Sound' /\ BodyTyped' /\ faults' \in Nat
  BY <1>1 DEF Sound, BodyTyped, LinkInv, Types
<1> QED
  BY <1>1, <1>2, <1>3, <1>4, EndedKeeps

(* A refusal after part of a duplicate was written.                        *)
LEMMA RefusedKeeps ==
    ASSUME LinkInv, Refused, Active, Arg.kind = "duplicate_of",
           alone => \/ ticket = before
                    \/ provider # "github" /\ LinkChanged(call.op, To)
                    \/ provider = "gitlab" /\ AllWritten(call.op, To)
    PROVE  LinkInv'
<1>1. /\ call' = Idle /\ result'.ok = FALSE /\ result'.error = "refused"
      /\ result'.kind = "duplicate_of" /\ result'.op = call.op /\ result'.to = To
      /\ UNCHANGED <<provider, rels, body, state, calls, events, faults, before, alone>>
  BY DEF Refused, Raise, End, Silent, ticket, bounds, history
<1>2. WritesReadBack'
  BY <1>1 DEF WritesReadBack
<1>3. LinkChanged(call.op, To) => LinkChanged(result.op, result.to)'
  <2>1. Held' = Held /\ Was' = Was
    BY <1>1 DEF Held, Was, ToSet
  <2> QED
    BY <1>1, <2>1 DEF LinkChanged, StartsWith
<1>4. AllWritten(call.op, To) => AllWritten(result.op, result.to)'
  BY <1>1 DEF AllWritten, Paired, Linked, Mentions, StartsWith
<1>5. RefusalChangesOnlyLink'
  BY <1>1, <1>3, <1>4 DEF RefusalChangesOnlyLink, ticket
<1>6. Sound' /\ BodyTyped' /\ faults' \in Nat
  BY <1>1 DEF Sound, BodyTyped, LinkInv, Types
<1> QED
  BY <1>1, <1>2, <1>5, <1>6, EndedKeeps

LEMMA LostKeeps ==
    ASSUME LinkInv, Raise("transport"), faults' = faults + 1,
           UNCHANGED <<provider, calls, events, history>>, Sound', BodyTyped'
    PROVE  LinkInv'
<1>1. /\ call' = Idle /\ result'.ok = FALSE /\ result'.error = "transport"
      /\ UNCHANGED <<provider, calls, events, before, alone>>
  BY DEF Raise, End, history
<1>2. WritesReadBack' /\ RefusalChangesOnlyLink'
  BY <1>1 DEF WritesReadBack, RefusalChangesOnlyLink
<1>3. faults' \in Nat
  BY DEF LinkInv, Types
<1> QED
  BY <1>1, <1>2, <1>3, EndedKeeps

LEMMA ReadLost == LinkInv /\ Lost(UNCHANGED ticket) => LinkInv'
<1> SUFFICES ASSUME LinkInv, Lost(UNCHANGED ticket) PROVE LinkInv'
  OBVIOUS
<1>1. /\ Raise("transport") /\ faults' = faults + 1 /\ UNCHANGED ticket
      /\ UNCHANGED <<provider, calls, events, history>>
  BY DEF Lost
<1>2. Sound' /\ BodyTyped'
  BY <1>1 DEF Sound, BodyTyped, ticket, LinkInv, Types
<1> QED
  BY <1>1, <1>2, LostKeeps

(* A call that returns must read back.                                     *)
LEMMA ReturnKeeps ==
    ASSUME LinkInv, Return, UNCHANGED <<provider, bounds, history>>, Sound', BodyTyped',
           alone => ((Asked(result) \in Reported)' <=> call.op = "add") \/ ~Readable(result)'
    PROVE  LinkInv'
<1>1. /\ call' = Idle /\ result'.error = "none" /\ result'.op = call.op
      /\ UNCHANGED <<provider, calls, events, faults, before, alone>>
  BY DEF Return, End, bounds, history
<1>2. WritesReadBack'
  BY <1>1 DEF WritesReadBack
<1>3. RefusalChangesOnlyLink'
  BY <1>1 DEF RefusalChangesOnlyLink
<1>4. faults' \in Nat
  BY <1>1 DEF LinkInv, Types
<1> QED
  BY <1>1, <1>2, <1>3, <1>4, EndedKeeps

LEMMA MoveKeeps ==
    ASSUME LinkInv, call' \in Calls, UNCHANGED <<provider, result, bounds, history>>,
           Sound', BodyTyped', Route', Stage'
    PROVE  LinkInv'
<1>1. UNCHANGED <<provider, calls, events, faults, before, alone>>
  BY DEF bounds, history
<1>2. Types'
  BY <1>1 DEF Types, LinkInv
<1>3. call'.op # "none"
  BY DEF Calls
<1>4. WritesReadBack' /\ RefusalChangesOnlyLink'
  BY <1>3 DEF WritesReadBack, RefusalChangesOnlyLink
<1> QED
  BY <1>2, <1>4 DEF LinkInv

LEMMA Quiet == LinkInv /\ Silent => Sound' /\ BodyTyped'
BY DEF LinkInv, Silent, ticket, Sound, BodyTyped, Types

LEMMA EditedStays ==
    ASSUME body' = body, call'.op = call.op, call'.arg = call.arg
    PROVE  Edited' = Edited
BY DEF Edited, MarkedBody, StrippedBody, Mentions, StartsWith, Unmarked, Nth, To, Line

LEMMA EditedTyped ==
    ASSUME Types, call.pc # "idle"
    PROVE  MarkedBody(To) \in Seq(Lines) /\ StrippedBody(To) \in Seq(Lines)
BY Busy, MarkedLines, StrippedLines DEF Types, BodyTyped

LEMMA GotoKeeps ==
    ASSUME LinkInv, call.pc # "idle", NEW pc \in PCs, Goto(pc), Silent, Route', Stage'
    PROVE  LinkInv'
<1>1. call \in Calls
  BY Busy DEF LinkInv
<1>2. call' \in Calls
  BY <1>1 DEF Goto, Calls
<1> QED
  BY <1>2, Quiet, MoveKeeps DEF Goto, Silent

(* What was asked is what was asked before.                                *)
LEMMA AskedStays ==
    ASSUME Return, provider' = provider
    PROVE  /\ Asked(result)' = Asked(Arg)
           /\ result'.kind = Arg.kind /\ result'.to = To
BY DEF Return, End, Asked, Documented, Rel, Arg, To

LEMMA ReturnReads ==
    ASSUME LinkInv, Return, UNCHANGED <<provider, bounds, history>>, Sound', BodyTyped',
           alone /\ Readable(result)' => (Asked(Arg) \in Reported' <=> call.op = "add")
    PROVE  LinkInv'
<1>1. Asked(result)' = Asked(Arg)
  BY AskedStays
<1>2. alone => ((Asked(result) \in Reported)' <=> call.op = "add") \/ ~Readable(result)'
  BY <1>1
<1> QED
  BY <1>2, ReturnKeeps

-----------------------------------------------------------------------------
(* GitHub.                                                                 *)

LEMMA GitHubLists ==
    ASSUME provider' = "github", NEW k \in Kinds \ {"duplicate_of"}, NEW t
    PROVE  Rel(k, t) \in Reported' <=> Rel(k, t) \in ToSet(rels')
<1>1. /\ Rel(k, t).kind = k /\ k # "duplicate_of" /\ k # "mentions"
  BY DEF Rel, Kinds, Hierarchy, Links
<1>2. Rel(k, t) \notin Duplicates(FirstOwn)' /\ Rel(k, t) \notin Mentioned(Names \ FirstOwn)'
  BY <1>1 DEF Duplicates, Mentioned, Rel
<1> QED
  BY <1>2 DEF Reported, GitHubRelations

LEMMA GitHubDuplicates ==
    ASSUME Sound', provider' = "github", body' \in Seq(Lines), NEW t, Plain(t)'
    PROVE  Rel("duplicate_of", t) \in Reported' <=> DOMAIN body' # {}
<1> DEFINE r == Rel("duplicate_of", t)
<1>1. r.kind = "duplicate_of" /\ r.to = t
  BY DEF Rel
<1>2. r \notin ToSet(rels')
  BY <1>1 DEF Sound, Fit
<1>3. r \notin Mentioned(Names \ FirstOwn)'
  BY <1>1 DEF Mentioned, Rel
<1>4. Own' = DOMAIN body'
  <2>1. \A i \in DOMAIN body' : body'[i].own = TRUE
    BY DEF Plain, Line
  <2> QED
    BY <2>1 DEF Own
<1>5. DOMAIN body' # {} => FirstOwn' = {t}
  <2> SUFFICES ASSUME DOMAIN body' # {} PROVE FirstOwn' = {t}
    OBVIOUS
  <2>1. DOMAIN body' \subseteq Nat
    OBVIOUS
  <2>2. \E i \in DOMAIN body' : \A j \in DOMAIN body' : i <= j
    BY <2>1, LeastExists
  <2> DEFINE c == CHOOSE i \in DOMAIN body' : \A j \in DOMAIN body' : i <= j
  <2>3. c \in DOMAIN body'
    BY <2>2
  <2>4. FirstOwn' = {body'[c].to}
    BY <1>4 DEF FirstOwn
  <2> HIDE DEF c
  <2> QED
    BY <2>3, <2>4 DEF Plain, Line
<1>6. DOMAIN body' = {} => FirstOwn' = {}
  BY <1>4 DEF FirstOwn
<1>7. r \in Duplicates(FirstOwn)' <=> DOMAIN body' # {}
  BY <1>5, <1>6 DEF Duplicates
<1> QED
  BY <1>2, <1>3, <1>7 DEF Reported, GitHubRelations

LEMMA GitHubAdded ==
    ASSUME LinkInv, provider = "github", call.pc = "write", call.op = "add",
           SetRels(Added(Stored(Arg.kind), To)), Allowed(Stored(Arg.kind), To),
           provider' = provider
    PROVE  Sound' /\ Asked(Arg) \in Reported'
<1>1. /\ Sound /\ Arg.kind \in Kinds \ {"duplicate_of"} /\ To \in Tickets
  BY Busy DEF LinkInv, Route, GitHubRoute, Active
<1>2. Stored(Arg.kind) \in Kinds \ {"duplicate_of"}
  BY <1>1 DEF Stored, Kinds, Hierarchy, Links
<1>3. Sound' /\ Rel(Stored(Arg.kind), To) \in ToSet(rels')
  BY <1>1, <1>2, AddChanges
<1>4. Asked(Arg) = Rel(Stored(Arg.kind), To)
  BY DEF Asked, Documented, Stored, To, Arg
<1> QED
  BY <1>2, <1>3, <1>4, GitHubLists

LEMMA GitHubDropped ==
    ASSUME LinkInv, provider = "github", call.pc = "write", call.op = "remove",
           SetRels(Drop(Rel(Stored(Arg.kind), To))), provider' = provider
    PROVE  Sound' /\ Asked(Arg) \notin Reported'
<1>1. /\ Sound /\ Arg.kind \in Kinds \ {"duplicate_of"} /\ To \in Tickets
  BY Busy DEF LinkInv, Route, GitHubRoute, Active
<1>2. Stored(Arg.kind) \in Kinds \ {"duplicate_of"}
  BY <1>1 DEF Stored, Kinds, Hierarchy, Links
<1>3. Sound' /\ Rel(Stored(Arg.kind), To) \notin ToSet(rels')
  BY <1>1, DropChanges
<1>4. Asked(Arg) = Rel(Stored(Arg.kind), To)
  BY DEF Asked, Documented, Stored, To, Arg
<1> QED
  BY <1>2, <1>3, <1>4, GitHubLists

LEMMA GitHubMarked ==
    ASSUME LinkInv, provider = "github", call.pc = "patch", alone, NEW st,
           SetBody(call.body, st), Return, provider' = provider, Readable(result)'
    PROVE  Asked(Arg) \in Reported' <=> call.op = "add"
<1>0. Types /\ Sound /\ Route /\ Stage
  BY DEF LinkInv
<1>1. /\ Arg.kind = "duplicate_of" /\ To \in Tickets /\ Active
      /\ call.op \in {"add", "remove"}
  BY <1>0, Busy DEF Route, GitHubRoute
<1>2. body' = Edited
  BY <1>0, <1>1 DEF Stage, Prepared, SetBody
<1>3. body' \in Seq(Lines)
  BY <1>0, <1>2, EditedTyped DEF Edited
<1>4. Sound'
  BY <1>0 DEF SetBody, Sound
<1>5. result'.kind = "duplicate_of" /\ result'.to = To
  BY <1>1, AskedStays
<1>6. Plain(result.to)'
  BY <1>5 DEF Readable
<1>9. \A i \in DOMAIN body' : body'[i] = Line(To, TRUE)
  BY <1>5, <1>6 DEF Plain, Line
<1>7. Rel("duplicate_of", To) \in Reported' <=> DOMAIN body' # {}
  <2> DEFINE t == To
  <2>1. \A u : u = t => Plain(u)'
    BY <1>9 DEF Plain, Line
  <2>2. \A u : u = t => (Rel("duplicate_of", u) \in Reported' <=> DOMAIN body' # {})
    <3> TAKE u
    <3> HAVE u = t
    <3>1. Plain(u)'
      BY <2>1
    <3> QED
      BY <1>3, <1>4, <3>1, GitHubDuplicates
  <2> QED
    BY <2>2
<1>8. Asked(Arg) = Rel("duplicate_of", To)
  BY <1>1 DEF Asked, Documented, To, Arg
<1>10. CASE call.op = "add"
  BY <1>0, <1>1, <1>2, <1>7, <1>8, <1>10, MarkedLines DEF Edited, Types, BodyTyped
<1>11. CASE call.op = "remove"
  <2>1. \A i \in DOMAIN body' : body'[i] # Line(To, TRUE)
    BY <1>0, <1>2, <1>11, StrippedLines DEF Edited, Types, BodyTyped
  <2> QED
    BY <1>7, <1>8, <1>9, <1>11, <2>1
<1> QED
  BY <1>1, <1>10, <1>11

LEMMA GitHubKeeps == LinkInv /\ GitHubNext => LinkInv'
<1> SUFFICES ASSUME LinkInv, GitHubNext PROVE LinkInv'
  OBVIOUS
<1>1. /\ provider = "github" /\ call.pc # "idle"
      /\ Types /\ Sound /\ Route /\ Stage
  BY DEF GitHubNext, GitHubStart, GitHubTarget, GitHubAddCheck, GitHubPost,
         GitHubRemoveCheck, GitHubDelete, GitHubBody, GitHubPatch, GH, At, LinkInv
<1>2. /\ call \in Calls /\ Active /\ call.op \in {"add", "remove"}
      /\ Arg \in Requests /\ Arg.kind \in Kinds /\ To \in Tickets
  BY <1>1, Busy
<1>3. alone => ticket = before
  BY <1>1, <1>2 DEF Stage, Halfway
<1>4. GitHubRoute
  BY <1>1, <1>2 DEF Route
<1>5. ASSUME NEW e, Raise(e), Silent PROVE LinkInv'
  BY <1>3, <1>5, RaiseKeeps
<1>R. Refused => LinkInv'
  BY <1>5 DEF Refused
<1>6. ASSUME NEW pc \in {"target", "check", "write", "body"}, Goto(pc), Silent,
             Arg.kind \in GitHubKinds,
             pc \in {"check", "write"} => Arg.kind # "duplicate_of",
             pc = "check" /\ call.op = "remove" => Arg.kind \in Links,
             pc = "body" => Arg.kind = "duplicate_of"
      PROVE  LinkInv'
  <2>1. /\ call'.pc = pc /\ call'.op = call.op /\ call'.arg = call.arg
        /\ provider' = "github" /\ ticket' = ticket /\ before' = before /\ alone' = alone
    BY <1>1, <1>2, <1>6 DEF Goto, Silent, Calls, history
  <2>2. Route'
    BY <2>1, <1>6 DEF Route, GitHubRoute, Arg
  <2>3. Stage'
    BY <2>1, <1>3, <1>6 DEF Stage, Prepared
  <2> QED
    BY <1>1, <1>6, <2>2, <2>3, GotoKeeps DEF PCs
<1>7. CASE GitHubStart
  BY <1>5, <1>6, <1>7 DEF GitHubStart
<1>8. CASE GitHubTarget
  <2>1. CASE Lost(UNCHANGED ticket)
    BY <2>1, ReadLost
  <2>2. CASE Silent /\ To \in Missing
    BY <1>R, <1>5, <1>8, <2>2, ReadLost DEF GitHubTarget, Read, Answered
  <2>3. CASE Silent /\ To \notin Missing
    <3>1. Arg.kind \in GitHubKinds
      BY <1>4, <1>8 DEF GitHubTarget, GitHubRoute
    <3> DEFINE pc == IF Arg.kind = "duplicate_of" THEN "body"
                     ELSE IF call.op = "add" \/ Arg.kind \in Links THEN "check"
                     ELSE "write"
    <3>2. CASE Goto(pc)
      <4>1. /\ pc \in {"check", "write", "body"}
            /\ pc \in {"check", "write"} => Arg.kind # "duplicate_of"
            /\ pc = "check" /\ call.op = "remove" => Arg.kind \in Links
            /\ pc = "body" => Arg.kind = "duplicate_of"
        OBVIOUS
      <4> HIDE DEF pc
      <4> QED
        BY <1>6, <2>3, <3>1, <3>2, <4>1
    <3> QED
      BY <1>R, <1>8, <2>3, <3>2, ReadLost DEF GitHubTarget, Read, Answered
  <2> QED
    BY <1>R, <1>5, <1>8, <2>1, <2>2, <2>3 DEF GitHubTarget, Read, Answered
<1>9. CASE GitHubAddCheck
  <2>1. Arg.kind \in GitHubKinds /\ Arg.kind # "duplicate_of"
    BY <1>4, <1>9 DEF GitHubAddCheck, GH, At, GitHubRoute
  <2> QED
    BY <1>R, <1>5, <1>6, <1>9, <2>1, ReadLost DEF GitHubAddCheck, Read, Answered
<1>10. CASE GitHubRemoveCheck
  <2>1. Arg.kind \in GitHubKinds /\ Arg.kind # "duplicate_of"
    BY <1>4, <1>10 DEF GitHubRemoveCheck, GH, At, GitHubRoute
  <2> QED
    BY <1>R, <1>5, <1>6, <1>10, <2>1, ReadLost DEF GitHubRemoveCheck, Read, Answered
<1>11. CASE GitHubPost
  <2> DEFINE write == SetRels(Added(Stored(Arg.kind), To))
  <2>1. call.op = "add" /\ call.pc = "write"
    BY <1>11 DEF GitHubPost, GH, At
  <2>2. ASSUME write, Allowed(Stored(Arg.kind), To), provider' = provider
        PROVE  Sound' /\ BodyTyped' /\ Asked(Arg) \in Reported'
    <3>1. BodyTyped'
      BY <1>1, <2>2 DEF Types, BodyTyped, SetRels
    <3> QED
      BY <1>1, <2>1, <2>2, <3>1, GitHubAdded
  <2>3. CASE Allowed(Stored(Arg.kind), To)
    <3>1. CASE write /\ Return /\ UNCHANGED <<provider, bounds, history>>
      BY <2>1, <2>2, <2>3, <3>1, ReturnReads
    <3>2. CASE Lost(write)
      <4>1. CASE write
        BY <2>2, <2>3, <3>2, <4>1, LostKeeps DEF Lost
      <4>2. CASE UNCHANGED ticket
        BY <3>2, <4>2, ReadLost DEF Lost
      <4> QED
        BY <3>2, <4>1, <4>2 DEF Lost
    <3> QED
      BY <1>R, <1>11, <2>3, <3>1, <3>2 DEF GitHubPost, Write, Taken
  <2>4. CASE ~Allowed(Stored(Arg.kind), To)
    BY <1>R, <1>5, <1>11, <2>4, ReadLost DEF GitHubPost, Read, Answered
  <2> QED
    BY <2>3, <2>4
<1>12. CASE GitHubDelete
  <2> DEFINE write == SetRels(Drop(Rel(Stored(Arg.kind), To)))
  <2>1. call.op = "remove" /\ call.pc = "write"
    BY <1>12 DEF GitHubDelete, GH, At
  <2>2. ASSUME write, provider' = provider
        PROVE  Sound' /\ BodyTyped' /\ Asked(Arg) \notin Reported'
    <3>1. BodyTyped'
      BY <1>1, <2>2 DEF Types, BodyTyped, SetRels
    <3> QED
      BY <1>1, <2>1, <2>2, <3>1, GitHubDropped
  <2>3. CASE write /\ Return /\ UNCHANGED <<provider, bounds, history>>
    BY <2>1, <2>2, <2>3, ReturnReads
  <2>4. CASE Lost(write)
    <3>1. CASE write
      BY <2>2, <2>4, <3>1, LostKeeps DEF Lost
    <3>2. CASE UNCHANGED ticket
      BY <2>4, <3>2, ReadLost DEF Lost
    <3> QED
      BY <2>4, <3>1, <3>2 DEF Lost
  <2> QED
    BY <1>R, <1>5, <1>12, <2>3, <2>4, ReadLost DEF GitHubDelete, Read, Answered, Write, Taken
<1>13. CASE GitHubBody
  <2>1. Arg.kind = "duplicate_of"
    BY <1>4, <1>13 DEF GitHubBody, GitHubRoute
  <2>2. ASSUME Silent, UNCHANGED result,
               call' = [call EXCEPT !.pc = "patch", !.body = Edited]
        PROVE  LinkInv'
    <3>1. Edited \in Seq(Lines)
      BY <1>1, EditedTyped DEF Edited
    <3>2. /\ call' \in Calls /\ call'.pc = "patch" /\ call'.op = call.op
          /\ call'.arg = call.arg /\ call'.body = Edited
      BY <1>2, <2>2, <3>1 DEF Calls, PCs
    <3>3. provider' = "github" /\ ticket' = ticket /\ before' = before /\ alone' = alone
      BY <1>1, <2>2 DEF Silent, history
    <3>4. Edited' = Edited
      BY <3>2, <3>3, EditedStays DEF ticket
    <3>5. Route'
      BY <2>1, <3>2, <3>3 DEF Route, GitHubRoute, Arg, GitHubKinds
    <3>6. Stage'
      BY <1>3, <3>2, <3>3, <3>4 DEF Stage
    <3> QED
      BY <2>2, <3>2, <3>5, <3>6, Quiet, MoveKeeps DEF Silent
  <2> QED
    BY <1>R, <1>2, <1>5, <1>13, <2>2, ReadLost DEF GitHubBody, Read, Answered, Edited
<1>14. CASE GitHubPatch
  <2> DEFINE st == IF call.op = "add" THEN "closed" ELSE "open"
             write == SetBody(call.body, st)
  <2>1. ASSUME write, provider' = provider
        PROVE  Sound' /\ BodyTyped'
    BY <1>1, <1>2, <2>1 DEF SetBody, Sound, BodyTyped, Calls
  <2>2. CASE write /\ Return /\ UNCHANGED <<provider, bounds, history>>
    <3>1. alone /\ Readable(result)' => (Asked(Arg) \in Reported' <=> call.op = "add")
      BY <1>1, <1>14, <2>2, GitHubMarked DEF GitHubPatch
    <3> QED
      BY <2>1, <2>2, <3>1, ReturnReads
  <2>3. CASE Lost(write)
    <3>1. CASE write
      BY <2>1, <2>3, <3>1, LostKeeps DEF Lost
    <3>2. CASE UNCHANGED ticket
      BY <2>3, <3>2, ReadLost DEF Lost
    <3> QED
      BY <2>3, <3>1, <3>2 DEF Lost
  <2> QED
    BY <1>R, <1>14, <2>2, <2>3 DEF GitHubPatch, Write, Taken
<1> QED
  BY <1>7, <1>8, <1>9, <1>10, <1>11, <1>12, <1>13, <1>14 DEF GitHubNext

-----------------------------------------------------------------------------
(* GitLab.                                                                 *)

LEMMA Steps ==
    /\ Later("body") = "link" /\ Later("link") = "put"
    /\ After("link") <=> Goto("put")
    /\ After("put") <=> Return
<1>1. /\ DOMAIN Marking = 1..3 /\ Len(Marking) = 3
      /\ Marking[1] = "body" /\ Marking[2] = "link" /\ Marking[3] = "put"
  BY DEF Marking
<1>2. \A i \in 1..3 : i = 1 \/ i = 2 \/ i = 3
  OBVIOUS
<1>3. Step("body") = 1
  BY <1>1, <1>2 DEF Step
<1>4. Step("link") = 2
  BY <1>1, <1>2 DEF Step
<1>5. Step("put") = 3
  BY <1>1, <1>2 DEF Step
<1>6. After("link") <=> Goto("put")
  BY <1>1, <1>4 DEF After, Later
<1>7. After("put") <=> Return
  BY <1>1, <1>5 DEF After
<1>8. Later("body") = "link" /\ Later("link") = "put"
  BY <1>1, <1>3, <1>4 DEF Later
<1> QED
  BY <1>6, <1>7, <1>8

LEMMA GitLabLists ==
    ASSUME provider' = "gitlab", NEW t
    PROVE  /\ Rel("parent", t) \in Reported' <=> Rel("parent", t) \in ToSet(rels')
           /\ t \notin Names' =>
                 (Rel("relates_to", t) \in Reported' <=> Rel("relates_to", t) \in ToSet(rels'))
           /\ Rel("duplicate_of", t) \in Reported' <=> t \in Names'
<1>1. \A k : Rel(k, t).kind = k /\ Rel(k, t).to = t
  BY DEF Rel
<1>2. /\ Rel("parent", t) \notin Duplicates(Names)'
      /\ Rel("relates_to", t) \notin Duplicates(Names)'
  BY DEF Duplicates, Rel
<1>3. Rel("duplicate_of", t) \in Duplicates(Names)' <=> t \in Names'
  <2>1. \A u : Rel("duplicate_of", u).to = u
    BY DEF Rel
  <2> QED
    BY <2>1 DEF Duplicates
<1>4. Reported' = {r \in ToSet(rels') :
                       r.kind = "parent" \/ (r.kind \in Links /\ r.to \notin Names')}
                      \cup Duplicates(Names)'
  BY DEF Reported, GitLabRelations
<1> QED
  BY <1>1, <1>2, <1>3, <1>4 DEF Links

(* Setting and clearing a parent.                                          *)
LEMMA GitLabAdded ==
    ASSUME LinkInv, provider = "gitlab", NEW k \in {"parent", "relates_to"},
           Arg.kind = k, To \in Tickets, Allowed(k, To), SetRels(Added(k, To)),
           provider' = provider
    PROVE  Sound' /\ (Asked(Arg) \in Reported' \/ (k = "relates_to" /\ To \in Names'))
<1>1. k \in Kinds /\ Sound
  BY DEF Kinds, Hierarchy, Links, LinkInv
<1>2. Sound' /\ Rel(k, To) \in ToSet(rels')
  BY <1>1, AddChanges
<1>3. Asked(Arg) = Rel(k, To)
  BY DEF Asked, Documented, To, Arg
<1> QED
  BY <1>2, <1>3, GitLabLists

LEMMA GitLabParentCleared ==
    ASSUME LinkInv, provider = "gitlab", Arg.kind = "parent",
           SetRels(DropParents), provider' = provider
    PROVE  Sound' /\ Asked(Arg) \notin Reported'
<1>1. Sound' /\ ToSet(rels') = ToSet(rels) \ Parents
  BY DropParentsChanges DEF LinkInv
<1>2. Asked(Arg) = Rel("parent", To)
  BY DEF Asked, Documented, To, Arg
<1>3. Rel("parent", To) \notin ToSet(rels')
  BY <1>1 DEF Parents, Rel
<1> QED
  BY <1>1, <1>2, <1>3, GitLabLists

(* A pair has one link, so deleting the one found leaves none.             *)
LEMMA GitLabUnlinked ==
    ASSUME LinkInv, provider = "gitlab", Arg.kind = "relates_to", call.link \in Links,
           Linked(call.link, To), SetRels(Drop(Rel(call.link, To))), provider' = provider,
           To \notin Names'
    PROVE  Asked(Arg) \notin Reported'
<1> DEFINE l == call.link
           t == To
<1>1. ToSet(rels') = ToSet(rels) \ {Rel(l, t)} /\ Fit("gitlab", ToSet(rels))
  BY DropChanges DEF LinkInv, Sound
<1>2. Rel(l, t) \in ToSet(rels)
  BY DEF Linked
<1>3. \A k : Rel(k, t).kind = k /\ Rel(k, t).to = t
  BY DEF Rel
<1>4. Asked(Arg) = Rel("relates_to", t)
  BY DEF Asked, Documented, To, Arg
<1> HIDE DEF l, t
<1>5. Rel("relates_to", t) \in ToSet(rels) => Rel("relates_to", t) = Rel(l, t)
  BY <1>1, <1>2, <1>3 DEF Fit, Links, l
<1>6. Rel("relates_to", t) \notin ToSet(rels')
  BY <1>1, <1>5
<1> QED
  BY <1>4, <1>6, GitLabLists DEF t

LEMMA GitLabMarked ==
    ASSUME LinkInv, provider = "gitlab", call.pc = "put", alone, NEW st,
           SetBody(call.body, st), Return, provider' = provider, Readable(result)'
    PROVE  Asked(Arg) \in Reported' <=> call.op = "add"
<1>0. Types /\ Sound /\ Route /\ Stage
  BY DEF LinkInv
<1>1. /\ Arg.kind = "duplicate_of" /\ To \in Tickets /\ Active
      /\ call.op \in {"add", "remove"}
  BY <1>0, Busy DEF Route, GitLabRoute
<1>2. body' = Edited
  BY <1>0, <1>1 DEF Stage, Prepared, SetBody
<1>3. result'.kind = "duplicate_of" /\ result'.to = To
  BY <1>1, AskedStays
<1>4. \A i \in DOMAIN body' : body'[i] = Line(To, TRUE)
  BY <1>3 DEF Readable, Plain, Line
<1>5. \A i \in DOMAIN body' : body'[i].to = To
  BY <1>4 DEF Line
<1>6. To \in Names' <=> DOMAIN body' # {}
  BY <1>5 DEF Names
<1>7. Asked(Arg) = Rel("duplicate_of", To)
  BY <1>1 DEF Asked, Documented, To, Arg
<1>8. Asked(Arg) \in Reported' <=> DOMAIN body' # {}
  BY <1>6, <1>7, GitLabLists
<1>10. CASE call.op = "add"
  BY <1>0, <1>1, <1>2, <1>8, <1>10, MarkedLines DEF Edited, Types, BodyTyped
<1>11. CASE call.op = "remove"
  <2>1. \A i \in DOMAIN body' : body'[i] # Line(To, TRUE)
    BY <1>0, <1>2, <1>11, StrippedLines DEF Edited, Types, BodyTyped
  <2> QED
    BY <1>4, <1>8, <1>11, <2>1
<1> QED
  BY <1>1, <1>10, <1>11

(* A step that learns what the body shall become, or goes by it.           *)
Relinked ==
    \E r \in [kind : Kinds, to : Tickets] :
        /\ StartsWith(r.to, To)
        /\ Held' = IF call.op = "add" THEN Held \cup {r} ELSE Held \ {r}
Forward ==
    /\ call' \in Calls /\ UNCHANGED <<provider, result, bounds, history>>
    /\ Sound' /\ body' = body /\ state' = state
    /\ call'.op = call.op /\ call'.arg = call.arg
    /\ call'.body = Edited \/ (Prepared /\ call'.body = call.body)
    /\ call'.pc \in {"link", "find", "unlink", "put"}
    /\ call.pc \notin {"put", "reread"}
    /\ call'.pc = "link" => /\ call.op = "add" /\ Arg.kind = "duplicate_of"
                            /\ call'.link = "none"
    /\ call'.pc \in {"find", "unlink"} =>
          call.op = "remove" /\ Arg.kind \in {"relates_to", "duplicate_of"}
    /\ call'.pc = "unlink" => call'.link \in Links
    /\ call'.pc = "put" => Arg.kind = "duplicate_of" /\ (rels' = rels \/ Relinked)
    /\ call'.pc = "put" /\ call.op = "add" =>
          \/ call'.link = "none"
          \/ call'.link # "none" /\ rels' = rels /\ Paired(To) # {}
    /\ call'.pc # "put" => rels' = rels

LEMMA GitLabForward ==
    ASSUME LinkInv, provider = "gitlab", call.pc # "idle", Forward
    PROVE  LinkInv'
<1>1. /\ Types /\ Sound /\ Route /\ Stage /\ BodyTyped /\ Active
      /\ body' = body /\ state' = state
      /\ UNCHANGED <<provider, result, bounds, history>>
  BY Busy DEF LinkInv, Types, Forward
<1>2. BodyTyped'
  BY <1>1 DEF BodyTyped
<1>3. Edited' = Edited
  BY <1>1, EditedStays DEF Forward
<1>4. provider' = "gitlab" /\ before' = before /\ alone' = alone
  BY <1>1 DEF history
<1>5. Route'
  BY <1>4 DEF Route, GitLabRoute, Arg, Forward
<1>6. ASSUME alone PROVE call'.body = Edited'
  BY <1>1, <1>3, <1>6 DEF Stage, Forward
<1>7. ASSUME alone PROVE ticket = before
  BY <1>1, <1>7 DEF Stage, Halfway, Forward
<1>10. ASSUME rels' = rels, alone PROVE ticket' = before'
  BY <1>1, <1>4, <1>7, <1>10 DEF ticket
<1>11. ASSUME Relinked, alone PROVE LinkChanged(call.op, To)'
  <2>1. PICK r \in [kind : Kinds, to : Tickets] :
          /\ StartsWith(r.to, To)
          /\ Held' = IF call.op = "add" THEN Held \cup {r} ELSE Held \ {r}
    BY <1>11 DEF Relinked
  <2>2. call'.op = call.op /\ To' = To
    BY DEF Forward, To
  <2> QED
    BY <1>1, <1>4, <1>7, <1>11, <2>1, <2>2, ChangedByNow
<1>12. ASSUME alone, call'.link # "none", rels' = rels, Paired(To) # {}
       PROVE  WasThere'
  <2>1. To' = To /\ before[1] = rels
    BY <1>7, <1>12 DEF Forward, To, ticket
  <2>2. Paired(To)' = Paired(To)
    BY <1>12, <2>1 DEF Paired, Linked
  <2> QED
    BY <1>4, <1>12, <2>1, <2>2 DEF WasThere
<1>13. call'.pc \in {"link", "find", "unlink", "put"}
  BY DEF Forward
<1>14. ASSUME call'.pc # "put" PROVE Stage'
  <2>1. rels' = rels
    BY <1>14 DEF Forward
  <2>2. ~Halfway' /\ call'.pc \notin {"put", "reread", "parent"}
    BY <1>4, <1>13, <1>14 DEF Halfway
  <2>3. alone => ticket' = before' /\ call'.body = Edited'
    BY <1>6, <1>10, <2>1
  <2> QED
    BY <1>4, <2>2, <2>3 DEF Stage
<1>15. ASSUME call'.pc = "put" PROVE Stage'
  <2>1. alone => ticket' = before' \/ LinkChanged(call.op, To)'
    BY <1>10, <1>11, <1>15 DEF Forward
  <2>2. alone /\ call.op = "add" => call'.link = "none" \/ WasThere'
    BY <1>12, <1>15 DEF Forward
  <2>3. call'.op = call.op
    BY DEF Forward
  <2>4. Halfway' /\ call'.pc \notin {"reread", "parent"}
    BY <1>4, <1>15 DEF Halfway
  <2>7. alone => call'.body = Edited'
    BY <1>6
  <2> QED
    BY <1>4, <2>1, <2>2, <2>3, <2>4, <2>7 DEF Stage
<1>8. Stage'
  BY <1>14, <1>15
<1>9. call' \in Calls /\ Sound'
  BY DEF Forward
<1> QED
  BY <1>1, <1>2, <1>5, <1>8, <1>9, MoveKeeps

LEMMA GitLabKeeps == LinkInv /\ GitLabNext => LinkInv'
<1> SUFFICES ASSUME LinkInv, GitLabNext PROVE LinkInv'
  OBVIOUS
<1>1. /\ provider = "gitlab" /\ call.pc # "idle"
      /\ Types /\ Sound /\ Route /\ Stage /\ BodyTyped
  BY DEF GitLabNext, GitLabStart, Subject, SetParent, GitLabBody, PostLink,
         FindLink, DeleteLink, PutBody, Reread, LinkInv, Types
<1>2. /\ call \in Calls /\ Active /\ call.op \in {"add", "remove"}
      /\ Arg \in Requests /\ Arg.kind \in Kinds /\ To \in Tickets
  BY <1>1, Busy
<1>3. alone /\ call.pc \notin {"put", "reread"} => ticket = before
  BY <1>1, <1>2 DEF Stage, Halfway
<1>4. GitLabRoute
  BY <1>1, <1>2 DEF Route
<1>5. ASSUME NEW e, Raise(e), Silent, call.pc \notin {"put", "reread"} PROVE LinkInv'
  BY <1>3, <1>5, RaiseKeeps
<1>R. ASSUME Refused PROVE LinkInv'
  <2>1. CASE call.pc \in {"put", "reread"}
    <3>1. Arg.kind = "duplicate_of"
      BY <1>4, <2>1 DEF GitLabRoute
    <3>2. alone => \/ ticket = before \/ LinkChanged(call.op, To)
                   \/ AllWritten(call.op, To)
      BY <1>1, <1>2, <2>1 DEF Stage, Halfway
    <3> QED
      BY <1>1, <1>2, <1>R, <3>1, <3>2, RefusedKeeps
  <2>2. CASE call.pc \notin {"put", "reread"}
    BY <1>5, <1>R, <2>2 DEF Refused
  <2> QED
    BY <2>1, <2>2
<1>6. ASSUME NEW pc \in {"subject", "parent", "link", "body"}, Goto(pc), Silent,
             call.pc \notin {"put", "reread"},
             pc \in {"subject", "parent"} => Arg.kind \in Hierarchy,
             call.op = "add" /\ pc \in {"link", "body"} => call.link = "none",
             pc = "link" => call.op = "add" /\ Arg.kind = "relates_to",
             pc = "body" => \/ Arg.kind = "duplicate_of"
                            \/ call.op = "remove" /\ Arg.kind = "relates_to",
             pc = "parent" /\ call.op = "remove" => Linked(Arg.kind, To)
      PROVE  LinkInv'
  <2>1. /\ call'.pc = pc /\ call'.op = call.op /\ call'.arg = call.arg
        /\ provider' = "gitlab" /\ ticket' = ticket /\ before' = before /\ alone' = alone
        /\ call'.link = call.link
    BY <1>1, <1>2, <1>6 DEF Goto, Silent, Calls, history
  <2>2. Route'
    BY <2>1, <1>6 DEF Route, GitLabRoute, Arg
  <2>3. Stage'
    BY <2>1, <1>3, <1>6 DEF Stage, Prepared, Arg, To, Linked, ticket
  <2> QED
    BY <1>1, <1>6, <2>2, <2>3, GotoKeeps DEF PCs
<1>7. ASSUME Forward PROVE LinkInv'
  BY <1>1, <1>7, GitLabForward
<1>8. CASE GitLabStart
  <2>1. Silent /\ call.pc \notin {"put", "reread"}
    BY <1>8 DEF GitLabStart
  <2>2. CASE Arg.kind \notin GitLabKinds \/ (call.op = "add" /\ To = Self)
    BY <1>5, <1>8, <2>1, <2>2 DEF GitLabStart
  <2>3. CASE ~(Arg.kind \notin GitLabKinds \/ (call.op = "add" /\ To = Self))
    <3> DEFINE pc == IF Arg.kind \in Hierarchy THEN "subject"
                     ELSE IF call.op = "add" /\ Arg.kind = "relates_to" THEN "link"
                     ELSE "body"
    <3>1. Goto(pc)
      BY <1>8, <2>3 DEF GitLabStart
    <3>2. /\ pc \in {"subject", "link", "body"}
          /\ pc = "subject" => Arg.kind \in Hierarchy
          /\ pc = "link" => call.op = "add" /\ Arg.kind = "relates_to"
          /\ pc = "body" => \/ Arg.kind = "duplicate_of"
                            \/ call.op = "remove" /\ Arg.kind = "relates_to"
      BY <1>2, <2>3 DEF GitLabKinds, Hierarchy
    <3>3. call.op = "add" => call.link = "none"
      BY <1>4, <1>8 DEF GitLabStart, GitLabRoute
    <3> HIDE DEF pc
    <3> QED
      BY <1>6, <2>1, <3>1, <3>2, <3>3
  <2> QED
    BY <2>2, <2>3
<1>9. CASE Subject
  <2>1. call.pc = "subject" /\ Arg.kind \in Hierarchy
    BY <1>4, <1>9 DEF Subject, GitLabRoute
  <2>2. CASE Lost(UNCHANGED ticket)
    BY <2>2, ReadLost
  <2>3. CASE Silent /\ Goto("parent") /\ (call.op = "remove" => HasParent)
    BY <1>6, <2>1, <2>3 DEF HasParent
  <2>4. CASE Silent /\ \E e \in {"unknown", "not found", "exists"} : Raise(e)
    BY <1>5, <2>1, <2>4
  <2> QED
    BY <1>R, <1>9, <2>2, <2>3, <2>4 DEF Subject, Read, Answered
<1>10. CASE SetParent
  <2>1. call.pc = "parent" /\ Arg.kind \in Hierarchy
    BY <1>4, <1>10 DEF SetParent, GitLabRoute
  <2>2. CASE call.op = "remove"
    <3> DEFINE write == SetRels(IF Arg.kind = "parent" THEN DropParents
                                ELSE Drop(Rel("child", To)))
    <3>1. ASSUME write, provider' = provider
          PROVE  Sound' /\ BodyTyped' /\ (Arg.kind = "child" \/ Asked(Arg) \notin Reported')
      <4>1. BodyTyped'
        BY <1>1, <3>1 DEF BodyTyped, SetRels
      <4>2. CASE Arg.kind = "parent"
        BY <1>1, <3>1, <4>1, <4>2, GitLabParentCleared
      <4>3. CASE Arg.kind = "child"
        BY <1>1, <3>1, <4>1, <4>3, DropChanges
      <4> QED
        BY <2>1, <4>2, <4>3 DEF Hierarchy
    <3>2. CASE write /\ Return /\ UNCHANGED <<provider, bounds, history>>
      <4>1. Arg.kind = "child" => ~Readable(result)'
        BY <1>1, <3>2, AskedStays DEF Readable
      <4> QED
        BY <2>2, <3>1, <3>2, <4>1, ReturnReads
    <3>3. CASE Lost(write)
      BY <3>1, <3>3, LostKeeps, ReadLost DEF Lost
    <3> QED
      BY <1>R, <1>10, <2>2, <3>2, <3>3 DEF SetParent, Write, Taken
  <2>3. CASE call.op = "add" /\ Allowed(Arg.kind, To)
    <3> DEFINE write == SetRels(Added(Arg.kind, To))
    <3>1. ASSUME write, provider' = provider
          PROVE  Sound' /\ BodyTyped' /\ (Arg.kind = "child" \/ Asked(Arg) \in Reported')
      <4>1. BodyTyped'
        BY <1>1, <3>1 DEF BodyTyped, SetRels
      <4>2. CASE Arg.kind = "parent"
        BY <1>1, <1>2, <2>3, <3>1, <4>1, <4>2, GitLabAdded
      <4>3. CASE Arg.kind = "child"
        BY <1>1, <1>2, <2>3, <3>1, <4>1, <4>3, AddChanges
      <4> QED
        BY <2>1, <4>2, <4>3 DEF Hierarchy
    <3>2. CASE write /\ Return /\ UNCHANGED <<provider, bounds, history>>
      <4>1. Arg.kind = "child" => ~Readable(result)'
        BY <1>1, <3>2, AskedStays DEF Readable
      <4> QED
        BY <2>3, <3>1, <3>2, <4>1, ReturnReads
    <3>3. CASE Lost(write)
      BY <3>1, <3>3, LostKeeps, ReadLost DEF Lost
    <3> QED
      BY <1>R, <1>10, <2>3, <3>2, <3>3 DEF SetParent, Write, Taken
  <2>4. CASE call.op = "add" /\ ~Allowed(Arg.kind, To)
    <3>1. CASE Linked(Arg.kind, To) /\ Silent /\ Return
      <4>1. Arg.kind = "child" => ~Readable(result)'
        BY <1>1, <3>1, AskedStays DEF Readable, Silent
      <4>2. Arg.kind = "parent" => Asked(Arg) \in Reported'
        <5>1. Arg.kind = "parent" => Asked(Arg) = Rel("parent", To)
          BY <1>1 DEF Asked, Documented, To, Arg
        <5>2. rels' = rels /\ provider' = "gitlab"
          BY <1>1, <3>1 DEF Silent, ticket
        <5> QED
          BY <3>1, <5>1, <5>2, GitLabLists DEF Linked
      <4> QED
        BY <2>1, <2>4, <3>1, <4>1, <4>2, Quiet, ReturnReads DEF Silent, Hierarchy
    <3> QED
      BY <1>R, <1>5, <1>10, <2>1, <2>4, <3>1, ReadLost DEF SetParent, Read, Answered
  <2> QED
    BY <1>2, <2>2, <2>3, <2>4
<1>11. CASE GitLabBody
  <2>0. call.pc = "body"
    BY <1>11 DEF GitLabBody
  <2>1. \/ Arg.kind = "duplicate_of"
        \/ call.op = "remove" /\ Arg.kind = "relates_to"
    BY <1>4, <2>0 DEF GitLabRoute
  <2>2. ASSUME Silent, UNCHANGED result, NEW pc \in {"link", "find"},
               pc = "link" <=> call.op = "add",
               pc = "link" => Arg.kind = "duplicate_of",
               call' = [call EXCEPT !.pc = pc, !.body = Edited]
        PROVE  LinkInv'
    <3>1. Edited \in Seq(Lines)
      BY <1>1, EditedTyped DEF Edited
    <3>2. /\ call' \in Calls /\ call'.pc = pc /\ call'.op = call.op
          /\ call'.arg = call.arg /\ call'.body = Edited
      BY <1>2, <2>2, <3>1 DEF Calls, PCs
    <3>3. /\ UNCHANGED <<provider, result, bounds, history>>
          /\ body' = body /\ state' = state /\ rels' = rels
      BY <2>2 DEF Silent, ticket
    <3>4. Sound'
      BY <2>2, Quiet
    <3>5. call'.pc # "unlink" /\ call'.pc # "put"
      BY <3>2
    <3>6. call'.pc = "find" => /\ call.op = "remove"
                               /\ Arg.kind \in {"relates_to", "duplicate_of"}
      BY <1>2, <2>1, <2>2, <3>2
    <3>7. call'.pc = "link" => /\ call.op = "add" /\ Arg.kind = "duplicate_of"
                               /\ call'.link = "none"
      BY <1>2, <1>4, <2>0, <2>2, <3>2 DEF GitLabRoute, Calls
    <3>8. call.pc \notin {"put", "reread"} /\ call'.pc \in {"link", "find", "unlink", "put"}
      BY <2>0, <3>2
    <3>9. Forward
      BY <3>2, <3>3, <3>4, <3>5, <3>6, <3>7, <3>8 DEF Forward
    <3> QED
      BY <1>7, <3>9
  <2>3. CASE Silent /\ call.op = "add"
    BY <1>R, <1>11, <2>0, <2>1, <2>2, <2>3, Steps, ReadLost DEF GitLabBody, Read, Answered, Edited
  <2>4. CASE Silent /\ call.op = "remove"
    BY <1>R, <1>5, <1>11, <2>0, <2>1, <2>2, <2>4, ReadLost DEF GitLabBody, Read, Answered, Edited
  <2> QED
    BY <1>R, <1>2, <1>11, <2>3, <2>4, ReadLost DEF GitLabBody, Read, Answered
<1>12. ASSUME Goto("put"), UNCHANGED <<provider, bounds, history>>, Sound',
              body' = body, state' = state, Prepared, Arg.kind = "duplicate_of",
              call.pc \notin {"put", "reread"}, rels' = rels \/ Relinked,
              call.op = "add" => call.link = "none"
       PROVE  LinkInv'
  <2>1. /\ call' \in Calls /\ call'.pc = "put" /\ call'.op = call.op
        /\ call'.arg = call.arg /\ call'.body = call.body /\ result' = result
        /\ call'.link = call.link
    BY <1>2, <1>12 DEF Goto, Calls, PCs
  <2>2. Forward
    BY <1>12, <2>1 DEF Forward
  <2> QED
    BY <1>7, <2>2
<1>13. CASE PostLink
  <2>0. call.pc = "link"
    BY <1>13 DEF PostLink
  <2>1. call.op = "add" /\ Arg.kind \in {"relates_to", "duplicate_of"}
    BY <1>4, <2>0 DEF GitLabRoute
  <2>2. Arg.kind = "duplicate_of" => Prepared
    BY <1>1, <2>0 DEF Prepared
  <2>3. CASE Allowed("relates_to", To)
    <3> DEFINE write == SetRels(Added("relates_to", To))
    <3>1. ASSUME write, provider' = provider
          PROVE  Sound' /\ BodyTyped' /\ body' = body /\ state' = state /\ Relinked
      <4>1. "relates_to" \in Kinds /\ "relates_to" # "parent"
        BY DEF Kinds, Links
      <4>2. Sound' /\ BodyTyped' /\ body' = body /\ state' = state
        BY <1>1, <1>2, <2>3, <3>1, <4>1, AddChanges DEF BodyTyped, SetRels
      <4>3. ToSet(rels') = ToSet(rels) \cup {Rel("relates_to", To)}
        BY <1>1, <1>2, <2>3, <3>1, <4>1, AddChanges
      <4>4. /\ Rel("relates_to", To) \in [kind : Kinds, to : Tickets]
            /\ StartsWith(Rel("relates_to", To).to, To)
        BY <1>2, <4>1 DEF Rel, StartsWith
      <4> QED
        BY <2>1, <4>2, <4>3, <4>4, HeldIsKept DEF Relinked
    <3>2. CASE write /\ Arg.kind = "duplicate_of" /\ Goto("put")
                 /\ UNCHANGED <<provider, bounds, history>>
      BY <1>4, <1>12, <2>0, <2>1, <2>2, <3>1, <3>2 DEF GitLabRoute
    <3>3. CASE write /\ Arg.kind = "relates_to" /\ Return
                 /\ UNCHANGED <<provider, bounds, history>>
      <4>1. To \in Names' \/ Asked(Arg) \in Reported'
        BY <1>1, <1>2, <2>3, <3>3, GitLabAdded
      <4>2. To \in Names' => ~Readable(result)'
        BY <1>1, <3>3, AskedStays DEF Readable
      <4> QED
        BY <2>1, <3>1, <3>3, <4>1, <4>2, ReturnReads
    <3>4. CASE Lost(write)
      BY <3>1, <3>4, LostKeeps, ReadLost DEF Lost
    <3> QED
      BY <1>R, <1>13, <2>1, <2>3, <3>2, <3>3, <3>4, Steps DEF PostLink, Write, Taken
  <2>4. CASE ~Allowed("relates_to", To)
    <3>1. ASSUME Silent, Tolerated(LinkRefusal), UNCHANGED result,
                 call' = [call EXCEPT !.pc = "put", !.link = "relates_to"]
          PROVE  LinkInv'
      <4>1. To \notin Missing /\ Arg.kind = "duplicate_of"
        BY <3>1 DEF Tolerated, LinkRefusal
      <4>2. Paired(To) # {}
        BY <2>4, <4>1 DEF Allowed, Paired, Linked, Links, Hierarchy
      <4>3. /\ call' \in Calls /\ call'.pc = "put" /\ call'.op = call.op
            /\ call'.arg = call.arg /\ call'.body = call.body
            /\ call'.link = "relates_to"
        BY <1>2, <3>1 DEF Calls, PCs, Links
      <4>4. /\ UNCHANGED <<provider, result, bounds, history>>
            /\ body' = body /\ state' = state /\ rels' = rels
        BY <3>1 DEF Silent, ticket
      <4>5. Sound'
        BY <3>1, Quiet
      <4>6. Forward
        BY <2>0, <2>2, <4>1, <4>2, <4>3, <4>4, <4>5 DEF Forward
      <4> QED
        BY <1>7, <4>6
    <3>2. CASE Silent /\ Raise(LinkRefusal)
      BY <1>5, <2>0, <3>2
    <3> QED
      BY <1>R, <1>13, <2>4, <3>1, <3>2, ReadLost, Steps DEF PostLink, Read, Answered
  <2> QED
    BY <2>3, <2>4
<1>14. CASE FindLink
  <2>0. call.pc = "find"
    BY <1>14 DEF FindLink
  <2>1. call.op = "remove" /\ Arg.kind \in {"relates_to", "duplicate_of"} /\ Prepared
    BY <1>1, <1>4, <2>0 DEF GitLabRoute, Prepared
  <2>2. CASE Silent /\ Arg.kind = "duplicate_of" /\ Goto("put")
    BY <1>12, <2>0, <2>1, <2>2, Quiet DEF Silent, ticket
  <2>3. CASE Silent /\ Raise("not found")
    BY <1>5, <2>0, <2>3
  <2>4. ASSUME Silent, NEW k \in Paired(To), UNCHANGED result,
               call' = [call EXCEPT !.pc = "unlink", !.link = k]
        PROVE  LinkInv'
    <3>1. k \in Links
      BY DEF Paired
    <3>2. /\ call' \in Calls /\ call'.pc = "unlink" /\ call'.op = call.op
          /\ call'.arg = call.arg /\ call'.body = call.body /\ call'.link = k
      BY <1>2, <2>4, <3>1 DEF Calls, PCs
    <3>3. /\ UNCHANGED <<provider, result, bounds, history>>
          /\ body' = body /\ state' = state /\ rels' = rels
      BY <2>4 DEF Silent, ticket
    <3>4. Sound'
      BY <2>4, Quiet
    <3>5. Forward
      BY <2>0, <2>1, <3>1, <3>2, <3>3, <3>4 DEF Forward
    <3> QED
      BY <1>7, <3>5
  <2>5. CASE Arg.kind = "duplicate_of"
    BY <1>14, <2>2, <2>4, <2>5, ReadLost DEF FindLink, Answered
  <2>6. CASE Arg.kind # "duplicate_of"
    BY <1>14, <1>R, <2>3, <2>4, <2>6, ReadLost DEF FindLink, Read, Answered
  <2> QED
    BY <2>5, <2>6
<1>15. CASE DeleteLink
  <2>0. call.pc = "unlink"
    BY <1>15 DEF DeleteLink
  <2>1. /\ call.op = "remove" /\ Arg.kind \in {"relates_to", "duplicate_of"}
        /\ Prepared /\ call.link \in Links
    BY <1>1, <1>4, <2>0 DEF GitLabRoute, Prepared
  <2> DEFINE write == SetRels(Drop(Rel(call.link, To)))
  <2>2. ASSUME write, provider' = provider
        PROVE  Sound' /\ BodyTyped' /\ body' = body /\ state' = state /\ Relinked
    <3>1. Sound' /\ BodyTyped' /\ body' = body /\ state' = state
      BY <1>1, <2>2, DropChanges DEF BodyTyped, SetRels
    <3>2. ToSet(rels') = ToSet(rels) \ {Rel(call.link, To)}
      BY <1>1, <2>2, DropChanges
    <3>3. /\ Rel(call.link, To) \in [kind : Kinds, to : Tickets]
          /\ StartsWith(Rel(call.link, To).to, To)
      BY <1>2, <2>1 DEF Rel, StartsWith, Kinds
    <3> QED
      BY <2>1, <3>1, <3>2, <3>3, HeldIsKept DEF Relinked
  <2>3. CASE write /\ Arg.kind = "duplicate_of" /\ Goto("put")
               /\ UNCHANGED <<provider, bounds, history>>
    BY <1>12, <2>0, <2>1, <2>2, <2>3
  <2>4. CASE write /\ Linked(call.link, To) /\ Arg.kind = "relates_to" /\ Return
               /\ UNCHANGED <<provider, bounds, history>>
    <3>1. To \in Names' \/ Asked(Arg) \notin Reported'
      BY <1>1, <2>1, <2>4, GitLabUnlinked
    <3>2. To \in Names' => ~Readable(result)'
      BY <1>1, <2>4, AskedStays DEF Readable
    <3> QED
      BY <2>1, <2>2, <2>4, <3>1, <3>2, ReturnReads
  <2>5. CASE Lost(write)
    BY <2>2, <2>5, LostKeeps, ReadLost DEF Lost
  <2>6. CASE Silent /\ Arg.kind = "duplicate_of" /\ Goto("put")
    BY <1>12, <2>0, <2>1, <2>6, Quiet DEF Silent, ticket
  <2>7. CASE Silent /\ Raise("gone")
    BY <1>5, <2>0, <2>7
  <2>8. CASE Arg.kind = "duplicate_of"
    BY <1>15, <2>3, <2>5, <2>6, <2>8, ReadLost DEF DeleteLink, Taken, Answered
  <2>9. CASE Arg.kind = "relates_to"
    BY <1>15, <1>R, <2>4, <2>5, <2>7, <2>9, ReadLost
       DEF DeleteLink, Write, Taken, Read, Answered
  <2> QED
    BY <2>1, <2>8, <2>9
<1>16. CASE PutBody
  <2>0. call.pc = "put"
    BY <1>16 DEF PutBody
  <2> DEFINE write(st) == SetBody(call.body, st)
  <2>1. ASSUME NEW st \in {"open", "closed"}, write(st), provider' = provider
        PROVE  Sound' /\ BodyTyped'
    BY <1>1, <1>2, <2>1 DEF SetBody, Sound, BodyTyped, Calls
  <2>2. ASSUME NEW st \in {"open", "closed"}, write(st), Return,
               UNCHANGED <<provider, bounds, history>>
        PROVE  LinkInv'
    <3>1. alone /\ Readable(result)' => (Asked(Arg) \in Reported' <=> call.op = "add")
      BY <1>1, <2>0, <2>2, GitLabMarked
    <3> QED
      BY <2>1, <2>2, <3>1, ReturnReads
  <2>3. ASSUME NEW st \in {"open", "closed"}, Lost(write(st))
        PROVE  LinkInv'
    BY <2>1, <2>3, LostKeeps, ReadLost DEF Lost
  <2>4. ASSUME write("closed"), call.op = "add", call.link # "none", Goto("reread"),
               UNCHANGED <<provider, bounds, history>>
        PROVE  LinkInv'
    <3>1. /\ call' \in Calls /\ call'.pc = "reread" /\ call'.op = "add"
          /\ call'.arg = call.arg /\ result' = result /\ To' = To
      BY <1>2, <2>4 DEF Goto, Calls, PCs, To
    <3>2. provider' = "gitlab" /\ alone' = alone /\ before' = before
      BY <1>1, <2>4 DEF history
    <3>3. rels' = rels /\ state' = "closed" /\ body' = call.body
      BY <2>4 DEF SetBody
    <3>4. ASSUME alone PROVE AllWritten(call.op, To)'
      <4>1. WasThere /\ call.body = MarkedBody(To)
        BY <1>1, <1>2, <2>0, <2>4, <3>4 DEF Stage, Prepared, Edited
      <4>2. Paired(To)' = Paired(To)
        BY <3>1, <3>3 DEF Paired, Linked
      <4>3. Mentions(To)'
        BY <1>1, <1>2, <3>1, <3>3, <4>1, MarkedMentions DEF BodyTyped, Mentions
      <4> QED
        BY <3>1, <3>2, <3>3, <4>1, <4>2, <4>3 DEF AllWritten, WasThere
    <3>5. Stage'
      BY <3>1, <3>2, <3>4 DEF Stage, Halfway, Prepared
    <3>6. Arg.kind = "duplicate_of"
      BY <1>4, <2>0 DEF GitLabRoute
    <3>7. Route'
      BY <3>1, <3>2, <3>6 DEF Route, GitLabRoute, Arg
    <3> QED
      BY <2>1, <2>4, <3>1, <3>5, <3>7, MoveKeeps
  <2>5. CASE call.op = "remove"
    BY <1>16, <1>R, <2>2, <2>3, <2>5 DEF PutBody, Write, Taken
  <2>6. CASE call.op = "add"
    BY <1>16, <1>R, <2>2, <2>3, <2>4, <2>6, Steps DEF PutBody, Write, Taken
  <2> QED
    BY <1>2, <2>5, <2>6
<1>17. CASE Reread
  <2>0. call.pc = "reread"
    BY <1>17 DEF Reread
  <2>1. call.op = "add" /\ Arg.kind = "duplicate_of"
    BY <1>4, <2>0 DEF GitLabRoute
  <2>2. CASE Silent /\ Return
    <3>1. ASSUME alone, Readable(result)' PROVE Asked(Arg) \in Reported'
      <4>1. /\ body' = body /\ provider' = "gitlab"
            /\ result'.kind = "duplicate_of" /\ result'.to = To
        BY <1>1, <2>1, <2>2, AskedStays DEF Silent, ticket
      <4>2. \A i \in DOMAIN body : body[i] = Line(To, TRUE)
        BY <3>1, <4>1 DEF Readable, Plain, Line
      <4>3. Mentions(To)
        BY <1>1, <1>2, <2>0, <3>1 DEF Stage, AllWritten
      <4>4. To \in Names'
        BY <4>1, <4>2, <4>3 DEF Mentions, Names, Line
      <4>5. Asked(Arg) = Rel("duplicate_of", To)
        BY <1>1, <2>1 DEF Asked, Documented, To, Arg
      <4> QED
        BY <4>1, <4>4, <4>5, GitLabLists
    <3> QED
      BY <2>1, <2>2, <3>1, Quiet, ReturnReads DEF Silent
  <2> QED
    BY <1>17, <1>R, <2>2, ReadLost DEF Reread, Read, Answered
<1> QED
  BY <1>8, <1>9, <1>10, <1>11, <1>13, <1>14, <1>15, <1>16, <1>17 DEF GitLabNext

-----------------------------------------------------------------------------
(* Azure DevOps.                                                           *)

LEMMA AzureLists ==
    ASSUME provider' = "azure", NEW k \in Kinds, NEW t
    PROVE  Rel(k, t) \in Reported' <=> Rel(k, t) \in ToSet(rels')
<1>1. k # "mentions" /\ \A u : Rel(k, t) # Rel("mentions", u)
  BY DEF Rel, Kinds, Hierarchy, Links
<1>2. \A U : Rel(k, t) \notin {Rel("mentions", u) : u \in U}
  BY <1>1
<1>3. Reported' = ToSet(rels') \cup
                  {Rel("mentions", u) : u \in Names' \ {r.to : r \in ToSet(rels')}}
  BY DEF Reported, AzureRelations, Mentioned, Rel
<1> QED
  BY <1>2, <1>3

LEMMA AzureAsked ==
    ASSUME provider = "azure", Arg.kind \in Kinds
    PROVE  /\ Asked(Arg) = Rel(AzureStored(Arg.kind), To)
           /\ AzureStored(Arg.kind) \in Kinds
           /\ AzureStored(Arg.kind) = "duplicate_of" <=> Arg.kind = "duplicate_of"
<1>1. Documented(Arg.kind) = AzureStored(Arg.kind)
  BY DEF Documented, AzureStored
<1> QED
  BY <1>1 DEF Asked, To, Arg, AzureStored, Kinds, Hierarchy, Links

LEMMA AzureAdded ==
    ASSUME LinkInv, provider = "azure", Arg.kind \in Kinds, To \in Tickets,
           Allowed(AzureStored(Arg.kind), To),
           SetRels(Added(AzureStored(Arg.kind), To)), provider' = provider
    PROVE  Sound' /\ Asked(Arg) \in ToSet(rels') /\ Asked(Arg) \in Reported'
<1>1. Sound' /\ Rel(AzureStored(Arg.kind), To) \in ToSet(rels')
  BY AzureAsked, AddChanges DEF LinkInv
<1> QED
  BY <1>1, AzureAsked, AzureLists

(* The entry at the index is the one asked for, unless it looks like it.   *)
LEMMA AzureMatched ==
    ASSUME LinkInv, provider = "azure", Arg.kind \in Kinds,
           NEW i \in Matching, ~LooksAlike(To, rels)
    PROVE  rels[i] = Asked(Arg)
<1>1. i \in DOMAIN rels /\ rels[i].kind = AzureStored(Arg.kind) /\ StartsWith(rels[i].to, To)
  BY DEF Matching, Matches
<1>2. rels[i].to = To
  BY <1>1 DEF LooksAlike
<1>3. rels[i] \in Relations
  BY <1>1, ElementOfSeq DEF LinkInv, Sound
<1>4. rels[i] = Rel(rels[i].kind, rels[i].to)
  BY <1>3 DEF Relations, Rel
<1> QED
  BY <1>1, <1>2, <1>4, AzureAsked

LEMMA AzureDropped ==
    ASSUME LinkInv, provider = "azure", Arg.kind \in Kinds, alone,
           call.pc = "remove", call.op = "remove",
           SetRels(Drop(rels[call.index])), provider' = provider
    PROVE  \/ LooksAlike(To, rels)
           \/ Asked(Arg) \notin ToSet(rels') /\ Asked(Arg) \notin Reported'
<1> SUFFICES ASSUME ~LooksAlike(To, rels)
             PROVE  Asked(Arg) \notin ToSet(rels') /\ Asked(Arg) \notin Reported'
  OBVIOUS
<1>1. call.index \in Matching
  BY DEF LinkInv, Stage, Active
<1>2. rels[call.index] = Asked(Arg)
  BY <1>1, AzureMatched
<1>3. Asked(Arg) \notin ToSet(rels')
  BY <1>2, DropChanges DEF LinkInv
<1> QED
  BY <1>3, AzureAsked, AzureLists

LEMMA MatchFound ==
    ASSUME Sound, Matching # {}
    PROVE  FirstMatch \in Matching /\ FirstMatch \in Nat
<1>1. Matching \subseteq Nat
  BY DEF Matching, Sound
<1>2. \E i \in Matching : \A j \in Matching : i <= j
  BY <1>1, LeastExists
<1> QED
  BY <1>1, <1>2 DEF FirstMatch

LEMMA AzureKeeps == LinkInv /\ AzureNext => LinkInv'
<1> SUFFICES ASSUME LinkInv, AzureNext PROVE LinkInv'
  OBVIOUS
<1>1. /\ provider = "azure" /\ call.pc # "idle"
      /\ Types /\ Sound /\ Route /\ Stage /\ BodyTyped
  BY DEF AzureNext, AzureStart, Preflight, AddLink, Describe, FindIndex,
         RemoveIndex, PatchFields, LinkInv, Types
<1>2. /\ call \in Calls /\ Active /\ call.op \in {"add", "remove"}
      /\ Arg \in Requests /\ Arg.kind \in Kinds /\ To \in Tickets
  BY <1>1, Busy
<1>3. alone /\ call.pc \notin {"describe", "fields"} => ticket = before
  BY <1>1, <1>2 DEF Stage, Halfway
<1>4. AzureRoute
  BY <1>1, <1>2 DEF Route
<1>5. ASSUME NEW e, Raise(e), Silent, call.pc \notin {"describe", "fields"}
      PROVE  LinkInv'
  BY <1>3, <1>5, RaiseKeeps
<1>R. ASSUME Refused PROVE LinkInv'
  <2>1. CASE call.pc \in {"describe", "fields"}
    <3>1. Arg.kind = "duplicate_of"
      BY <1>4, <2>1 DEF AzureRoute
    <3>2. alone => ticket = before \/ LinkChanged(call.op, To)
      BY <1>1, <1>2, <2>1 DEF Stage, Halfway
    <3> QED
      BY <1>1, <1>2, <1>R, <3>1, <3>2, RefusedKeeps
  <2>2. CASE call.pc \notin {"describe", "fields"}
    BY <1>5, <1>R, <2>2 DEF Refused
  <2> QED
    BY <2>1, <2>2
<1>6. ASSUME NEW pc \in {"preflight", "link", "find"}, Goto(pc), Silent,
             call.pc \notin {"describe", "fields"},
             pc = "find" <=> call.op = "remove"
      PROVE  LinkInv'
  <2>1. /\ call'.pc = pc /\ call'.op = call.op /\ call'.arg = call.arg
        /\ provider' = "azure" /\ ticket' = ticket /\ before' = before /\ alone' = alone
    BY <1>1, <1>2, <1>6 DEF Goto, Silent, Calls, history
  <2>2. Route'
    BY <1>2, <2>1, <1>6 DEF Route, AzureRoute, Arg
  <2>3. Stage'
    BY <2>1, <1>3, <1>6 DEF Stage, Prepared
  <2> QED
    BY <1>1, <1>6, <2>2, <2>3, GotoKeeps DEF PCs
<1>7. CASE AzureStart
  <2>1. call.pc = "start" /\ Silent
    BY <1>7 DEF AzureStart
  <2>2. CASE call.op = "add"
    BY <1>5, <1>6, <1>7, <2>1, <2>2 DEF AzureStart
  <2>3. CASE call.op = "remove"
    BY <1>5, <1>6, <1>7, <2>1, <2>3 DEF AzureStart
  <2> QED
    BY <1>2, <2>2, <2>3
<1>8. CASE Preflight
  <2>1. call.pc = "preflight"
    BY <1>8 DEF Preflight
  <2>2. call.op = "add"
    BY <1>4, <2>1 DEF AzureRoute
  <2> QED
    BY <1>R, <1>5, <1>6, <1>8, <2>1, <2>2, ReadLost DEF Preflight, Read, Answered
<1>9. CASE AddLink
  <2> DEFINE k == AzureStored(Arg.kind)
             write == SetRels(Added(k, To))
  <2>1. call.pc = "link"
    BY <1>9 DEF AddLink
  <2>2. call.op = "add"
    BY <1>4, <2>1 DEF AzureRoute
  <2>3. CASE Allowed(k, To)
    <3>1. ASSUME write, provider' = provider
          PROVE  /\ Sound' /\ BodyTyped' /\ body' = body /\ state' = state
                 /\ Asked(Arg) \in ToSet(rels') /\ Asked(Arg) \in Reported'
                 /\ k = "duplicate_of" => Held' = Held \cup {Rel(k, To)}
      <4>1. body' = body /\ state' = state /\ BodyTyped'
        BY <1>1, <3>1 DEF BodyTyped, SetRels
      <4>2. k \in Kinds
        BY <1>1, <1>2, AzureAsked
      <4>3. k = "duplicate_of" => ToSet(rels') = ToSet(rels) \cup {Rel(k, To)}
        <5> HIDE DEF k
        <5> QED
          BY <1>1, <1>2, <2>3, <3>1, <4>2, AddChanges
      <4> QED
        BY <1>1, <1>2, <2>3, <3>1, <4>1, <4>3, AzureAdded, HeldIsKept
    <3>2. CASE write /\ k = "duplicate_of" /\ Goto("describe")
                 /\ UNCHANGED <<provider, bounds, history>>
      <4>1. /\ call' \in Calls /\ call'.pc = "describe" /\ call'.op = call.op
            /\ call'.arg = call.arg /\ result' = result
        BY <1>2, <3>2 DEF Goto, Calls, PCs
      <4>2. Arg.kind = "duplicate_of" /\ provider' = "azure"
        BY <1>1, <1>2, <3>2, AzureAsked
      <4>3. Rel("duplicate_of", To) \in ToSet(rels')
        BY <1>1, <1>2, <3>1, <3>2, AzureAsked
      <4>4. Linked("duplicate_of", To)'
        BY <4>1, <4>3 DEF Linked, To, Rel
      <4>7. alone' = alone /\ before' = before /\ To' = To
        BY <3>2, <4>1 DEF history, To
      <4>8. alone => LinkChanged(call.op, To)'
        <5>1. /\ Rel(k, To) \in [kind : Kinds, to : Tickets]
              /\ StartsWith(Rel(k, To).to, To)
          BY <1>1, <1>2, AzureAsked DEF Rel, StartsWith
        <5>2. Held' = Held \cup {Rel(k, To)} /\ body' = body /\ state' = state
          BY <3>1, <3>2
        <5> QED
          BY <1>3, <2>1, <2>2, <4>1, <4>7, <5>1, <5>2, ChangedByNow
      <4>5. Stage'
        BY <4>1, <4>2, <4>4, <4>7, <4>8 DEF Stage, Halfway, Prepared
      <4>6. Route'
        BY <2>2, <4>1, <4>2 DEF Route, AzureRoute, Arg
      <4> QED
        BY <3>1, <3>2, <4>1, <4>5, <4>6, MoveKeeps
    <3>3. CASE write /\ Return /\ UNCHANGED <<provider, bounds, history>>
      BY <2>2, <3>1, <3>3, ReturnReads
    <3>4. CASE Lost(write)
      BY <3>1, <3>4, LostKeeps, ReadLost DEF Lost
    <3> QED
      BY <1>R, <1>9, <2>3, <3>2, <3>3, <3>4 DEF AddLink, Write, Taken
  <2>4. CASE ~Allowed(k, To)
    BY <1>R, <1>5, <1>9, <2>1, <2>4, ReadLost DEF AddLink, Read, Answered
  <2> QED
    BY <2>3, <2>4
<1>10. CASE Describe
  <2>1. call.pc = "describe"
    BY <1>10 DEF Describe
  <2>2. call.op = "add" /\ Arg.kind = "duplicate_of"
    BY <1>4, <2>1 DEF AzureRoute
  <2>3. CASE Silent /\ UNCHANGED result
             /\ call' = [call EXCEPT !.pc = "fields", !.body = MarkedBody(To)]
    <3>1. /\ call' \in Calls /\ call'.pc = "fields" /\ call'.op = "add"
          /\ call'.arg = call.arg /\ call'.body = Edited /\ call'.op = call.op
      BY <1>1, <1>2, <2>2, <2>3, EditedTyped DEF Calls, PCs, Edited
    <3>2. /\ provider' = "azure" /\ alone' = alone /\ body' = body /\ rels' = rels
      BY <1>1, <2>3 DEF Silent, history, ticket
    <3>3. Edited' = Edited
      BY <3>1, <3>2, EditedStays
    <3>4. alone => Linked("duplicate_of", To)'
      BY <1>1, <1>2, <2>1, <2>2, <3>1, <3>2 DEF Stage, Linked, To
    <3>7. To' = To /\ Held' = Held /\ Was' = Was /\ before' = before /\ state' = state
      BY <2>3, <3>1, <3>2 DEF To, Held, Was, ToSet, Silent, history, ticket
    <3>8. alone => ticket = before \/ LinkChanged(call.op, To)
      BY <1>1, <1>2, <2>1 DEF Stage, Halfway
    <3>9. alone => (ticket = before \/ LinkChanged(call.op, To))'
      BY <3>1, <3>2, <3>7, <3>8 DEF LinkChanged, StartsWith, ticket
    <3>5. Stage'
      BY <3>1, <3>2, <3>3, <3>4, <3>9 DEF Stage, Halfway
    <3>6. Route'
      BY <2>2, <3>1, <3>2 DEF Route, AzureRoute, Arg
    <3> QED
      BY <2>3, <3>1, <3>5, <3>6, Quiet, MoveKeeps DEF Silent
  <2> QED
    BY <1>R, <1>10, <2>3, ReadLost DEF Describe, Read, Answered
<1>11. CASE FindIndex
  <2>1. call.pc = "find"
    BY <1>11 DEF FindIndex
  <2>2. call.op = "remove"
    BY <1>4, <2>1 DEF AzureRoute
  <2>3. CASE Silent /\ UNCHANGED result /\ Matching # {}
             /\ call' = [call EXCEPT !.pc = "remove", !.index = FirstMatch,
                                     !.body = StrippedBody(To)]
    <3>0. FirstMatch \in Matching /\ FirstMatch \in Nat
      BY <1>1, <2>3, MatchFound
    <3>1. /\ call' \in Calls /\ call'.pc = "remove" /\ call'.op = call.op
          /\ call'.arg = call.arg /\ call'.body = Edited /\ call'.index = FirstMatch
      BY <1>1, <1>2, <2>2, <2>3, <3>0, EditedTyped DEF Calls, PCs, Edited
    <3>2. /\ provider' = "azure" /\ alone' = alone /\ before' = before
          /\ body' = body /\ rels' = rels /\ ticket' = ticket
      BY <1>1, <2>3 DEF Silent, history, ticket
    <3>3. Edited' = Edited
      BY <3>1, <3>2, EditedStays
    <3>4. Matching' = Matching
      BY <3>1, <3>2 DEF Matching, Matches, To, Arg
    <3>5. Stage'
      BY <1>3, <2>1, <3>0, <3>1, <3>2, <3>3, <3>4 DEF Stage
    <3>6. Route'
      BY <2>2, <3>1, <3>2 DEF Route, AzureRoute, Arg
    <3> QED
      BY <2>3, <3>1, <3>5, <3>6, Quiet, MoveKeeps DEF Silent
  <2> QED
    BY <1>R, <1>5, <1>11, <2>1, <2>3, ReadLost DEF FindIndex, Read, Answered
<1>12. CASE RemoveIndex
  <2>1. call.pc = "remove"
    BY <1>12 DEF RemoveIndex
  <2>2. call.op = "remove"
    BY <1>4, <2>1 DEF AzureRoute
  <2>3. CASE call.index \in DOMAIN rels
    <3> DEFINE write == SetRels(Drop(rels[call.index]))
    <3>1. ASSUME write, provider' = provider
          PROVE  /\ Sound' /\ BodyTyped' /\ body' = body /\ state' = state
                 /\ alone => \/ LooksAlike(To, before[1])
                             \/ /\ Asked(Arg) \notin ToSet(rels')
                                /\ Asked(Arg) \notin Reported'
                 /\ Held' = Held \ {rels[call.index]}
      <4>1. body' = body /\ state' = state /\ BodyTyped'
        BY <1>1, <3>1 DEF BodyTyped, SetRels
      <4>2. Sound'
        BY <1>1, <3>1, DropChanges
      <4>3. alone => before[1] = rels
        BY <1>3, <2>1 DEF ticket
      <4> QED
        BY <1>1, <1>2, <2>1, <2>2, <3>1, <4>1, <4>2, <4>3, AzureDropped, DropChanges,
           HeldIsKept
    <3>2. CASE write /\ Arg.kind = "duplicate_of" /\ Goto("fields")
                 /\ UNCHANGED <<provider, bounds, history>>
      <4>1. /\ call' \in Calls /\ call'.pc = "fields" /\ call'.op = "remove"
            /\ call'.arg = call.arg /\ result' = result /\ call'.body = call.body
        BY <1>2, <2>2, <3>2 DEF Goto, Calls, PCs
      <4>2. provider' = "azure" /\ alone' = alone /\ before' = before
        BY <1>1, <3>2 DEF history
      <4>3. Edited' = Edited
        BY <2>2, <3>1, <3>2, <4>1, EditedStays
      <4>4. alone => call.body = Edited
        BY <1>1, <1>2, <2>1 DEF Stage, Prepared
      <4>5. Asked(Arg) = Rel("duplicate_of", To)
        BY <1>1, <1>2, <3>2, AzureAsked DEF AzureStored
      <4>6. To' = To
        BY <4>1 DEF To
      <4>7. alone => (LooksAlike(To, before[1]) \/ ~Linked("duplicate_of", To))'
        BY <3>1, <3>2, <4>2, <4>5, <4>6 DEF LooksAlike, Linked, Rel
      <4>10. ASSUME alone PROVE LinkChanged(call.op, To)'
        <5>1. call.index \in Matching
          BY <1>1, <1>2, <2>1, <4>10 DEF Stage
        <5>2. rels[call.index] \in Relations /\ StartsWith(rels[call.index].to, To)
          BY <1>1, <5>1, ElementOfSeq DEF Matching, Matches, Sound
        <5> QED
          BY <1>3, <2>1, <2>2, <3>1, <3>2, <4>1, <4>2, <4>6, <4>10, <5>2, ChangedByNow
             DEF Relations
      <4>8. Stage'
        BY <4>1, <4>2, <4>3, <4>4, <4>7, <4>10 DEF Stage, Halfway
      <4>9. Route'
        BY <3>2, <4>1, <4>2 DEF Route, AzureRoute, Arg
      <4> QED
        BY <3>1, <3>2, <4>1, <4>8, <4>9, MoveKeeps
    <3>3. CASE write /\ Return /\ UNCHANGED <<provider, bounds, history>>
      <4>1. Readable(result)' => ~LooksAlike(To, before[1])
        BY <1>1, <3>3, AskedStays DEF Readable, LooksAlike, history
      <4> QED
        BY <2>2, <3>1, <3>3, <4>1, ReturnReads
    <3>4. CASE Lost(write)
      BY <3>1, <3>4, LostKeeps, ReadLost DEF Lost
    <3> QED
      BY <1>R, <1>12, <2>3, <3>2, <3>3, <3>4 DEF RemoveIndex, Write, Taken
  <2>4. CASE call.index \notin DOMAIN rels
    BY <1>R, <1>5, <1>12, <2>1, <2>4, ReadLost DEF RemoveIndex, Read, Answered
  <2> QED
    BY <2>3, <2>4
<1>13. CASE PatchFields
  <2>1. call.pc = "fields"
    BY <1>13 DEF PatchFields
  <2>2. Arg.kind = "duplicate_of"
    BY <1>4, <2>1 DEF AzureRoute
  <2> DEFINE write == SetBody(call.body, NewState)
  <2>3. ASSUME write, provider' = provider
        PROVE  Sound' /\ BodyTyped'
    BY <1>1, <1>2, <2>3 DEF SetBody, Sound, BodyTyped, Calls, NewState
  <2>4. CASE write /\ Return /\ UNCHANGED <<provider, bounds, history>>
    <3>1. Asked(Arg) = Rel("duplicate_of", To) /\ "duplicate_of" \in Kinds
      BY <1>1, <1>2, <2>2, AzureAsked DEF AzureStored
    <3>2. Asked(Arg) \in Reported' <=> Linked("duplicate_of", To)
      BY <1>1, <2>4, <3>1, AzureLists DEF SetBody, Linked
    <3>3. Readable(result)' => ~LooksAlike(To, before[1])
      BY <1>1, <2>4, AskedStays DEF Readable, LooksAlike, history
    <3>4. alone /\ Readable(result)' => (Asked(Arg) \in Reported' <=> call.op = "add")
      BY <1>1, <1>2, <2>1, <3>2, <3>3 DEF Stage
    <3> QED
      BY <2>3, <2>4, <3>4, ReturnReads
  <2>5. CASE Lost(write)
    BY <2>3, <2>5, LostKeeps, ReadLost DEF Lost
  <2> QED
    BY <1>R, <1>13, <2>4, <2>5 DEF PatchFields, Write, Taken
<1> QED
  BY <1>7, <1>8, <1>9, <1>10, <1>11, <1>12, <1>13 DEF AzureNext

-----------------------------------------------------------------------------
(* What a reader sees, and what a refused call has changed.                *)

LEMMA LinkInvariant == Spec => []LinkInv
<1>1. LinkInv /\ [Next]_vars => LinkInv'
  <2> SUFFICES ASSUME LinkInv, [Next]_vars PROVE LinkInv'
    OBVIOUS
  <2>1. CASE UNCHANGED vars
    <3>1. /\ UNCHANGED <<provider, rels, body, state, call, result, calls, events, faults>>
          /\ UNCHANGED <<before, alone>>
      BY <2>1 DEF vars, ticket, bounds, history
    <3>2. Types' /\ Sound' /\ Route'
      BY <3>1 DEF LinkInv, Types, BodyTyped, Sound, Route, GitHubRoute, GitLabRoute,
                  AzureRoute, Active, Arg
    <3>3. Edited' = Edited /\ Matching' = Matching
      BY <3>1, EditedStays DEF Matching, Matches, To, Arg
    <3>9. To' = To /\ Held' = Held /\ Was' = Was
      BY <3>1 DEF To, Held, Was, ToSet
    <3>10. LinkChanged(call.op, To)' <=> LinkChanged(call.op, To)
      BY <3>1, <3>9 DEF LinkChanged, StartsWith
    <3>11. /\ AllWritten(call.op, To)' <=> AllWritten(call.op, To)
           /\ WasThere' <=> WasThere
      BY <3>1, <3>9 DEF AllWritten, WasThere, Mentions, Paired, Linked, StartsWith
    <3>12. Active' = Active /\ Halfway' = Halfway /\ Prepared' = Prepared /\ ticket' = ticket
      BY <3>1 DEF Active, Halfway, Prepared, Arg, ticket
    <3>4. Stage'
      BY <3>1, <3>3, <3>9, <3>10, <3>11, <3>12 DEF LinkInv, Stage, Linked, LooksAlike,
                                                  Arg, StartsWith
    <3>5. Reported' = Reported
      BY <3>1 DEF Reported, GitHubRelations, GitLabRelations, AzureRelations,
                  FirstOwn, Own, Names
    <3>6. Readable(result)' <=> Readable(result)
      BY <3>1 DEF Readable, Plain, Names, LooksAlike
    <3>7. Asked(result)' = Asked(result)
      BY <3>1 DEF Asked, Documented
    <3>13. /\ LinkChanged(result.op, result.to)' <=> LinkChanged(result.op, result.to)
           /\ AllWritten(result.op, result.to)' <=> AllWritten(result.op, result.to)
      BY <3>1, <3>9 DEF LinkChanged, AllWritten, StartsWith, Mentions, Paired, Linked
    <3>14. RefusalChangesOnlyLink'
      BY <3>1, <3>13 DEF LinkInv, RefusalChangesOnlyLink, ticket
    <3>8. WritesReadBack' /\ RefusalChangesOnlyLink'
      BY <3>1, <3>5, <3>6, <3>7, <3>14 DEF LinkInv, WritesReadBack
    <3> QED
      BY <3>2, <3>4, <3>8 DEF LinkInv
  <2>2. CASE Next
    BY <2>2, BeginKeeps, EnvironmentKeeps, GitHubKeeps, GitLabKeeps, AzureKeeps DEF Next
  <2> QED
    BY <2>1, <2>2
<1> QED
  BY <1>1, LinkInit, PTL DEF Spec

(* What a call that succeeded added is listed and what it removed is not,  *)
(* if nobody else has acted: add_relation and remove_relation of the three *)
(* providers against their get_ticket.                                     *)
THEOREM RelationsReadBack == Spec => []WritesReadBack
<1>1. LinkInv => WritesReadBack
  BY DEF LinkInv
<1> QED
  BY <1>1, LinkInvariant, PTL

(* Whichever of a call's requests the server refused, of the ticket        *)
(* nothing has changed but the link of a duplicate; the body and the state *)
(* that come after it are as they were.                                    *)
THEOREM RefusalsChangeOnlyTheLink == Spec => []RefusalChangesOnlyLink
<1>1. LinkInv => RefusalChangesOnlyLink
  BY DEF LinkInv
<1> QED
  BY <1>1, LinkInvariant, PTL

-----------------------------------------------------------------------------
(* Errors.                                                                 *)

ExistsIsGenuine ==
    \/ Linked(Documented(Arg.kind), To)
    \/ provider = "gitlab" /\ Paired(To) # {}
    \/ provider = "azure" /\ LooksAlike(To, rels)
NotFoundIsGenuine ==
    \/ Asked(Arg) \notin Reported
    \/ provider = "github" /\ To \in Missing
    \/ provider = "github" /\ Arg.kind \in Links /\ Long(Arg.kind)
ErrorStep ==
    call.op # "none" =>
        /\ (result'.error = "exists" /\ call'.op = "none") => ExistsIsGenuine
        /\ (result'.error = "not found" /\ call'.op = "none") => NotFoundIsGenuine

LEMMA RaiseSays ==
    ASSUME NEW e, Raise(e), e = "exists" => ExistsIsGenuine,
           e = "not found" => NotFoundIsGenuine
    PROVE  ErrorStep
BY DEF ErrorStep, Raise, End

LEMMA ReturnSays == Return => ErrorStep
BY DEF ErrorStep, Return, End

LEMMA GoesOn ==
    ASSUME Types, call.pc # "idle", call'.op = call.op
    PROVE  ErrorStep
BY Busy DEF ErrorStep

LEMMA GotoSays ==
    ASSUME Types, call.pc # "idle", NEW pc, Goto(pc)
    PROVE  ErrorStep
<1>1. call'.op = call.op
  BY Busy DEF Goto, Calls
<1> QED
  BY <1>1, GoesOn

LEMMA RefusedSays == Refused => ErrorStep
BY RaiseSays DEF Refused

LEMMA LostSays == ASSUME Raise("transport") PROVE ErrorStep
BY RaiseSays

LEMMA GitHubListsNow ==
    ASSUME Sound, BodyTyped, provider = "github", NEW k \in Kinds, NEW t
    PROVE  /\ k # "duplicate_of" => (Rel(k, t) \in Reported <=> Linked(k, t))
           /\ Rel("duplicate_of", t) \in Reported => t \in {body[i].to : i \in Own}
<1>1. Rel(k, t).kind = k /\ k # "mentions" /\ \A u : Rel("duplicate_of", u).to = u
  BY DEF Rel, Kinds, Hierarchy, Links
<1>2. Rel(k, t) \notin Mentioned(Names \ FirstOwn)
      /\ Rel("duplicate_of", t) \notin Mentioned(Names \ FirstOwn)
  BY <1>1 DEF Mentioned, Rel
<1>3. k # "duplicate_of" => Rel(k, t) \notin Duplicates(FirstOwn)
  BY <1>1 DEF Duplicates, Rel
<1>4. Rel("duplicate_of", t) \notin ToSet(rels)
  BY DEF Sound, Fit, Rel
<1>5. Rel("duplicate_of", t) \in Duplicates(FirstOwn) => t \in FirstOwn
  BY <1>1 DEF Duplicates
<1>6. FirstOwn \subseteq {body[i].to : i \in Own}
  <2>1. CASE Own = {}
    BY <2>1 DEF FirstOwn
  <2>2. CASE Own # {}
    <3> DEFINE c == CHOOSE i \in Own : \A j \in Own : i <= j
    <3>1. c \in Own
      <4>1. Own \subseteq Nat
        BY DEF Own, BodyTyped
      <4>2. \E i \in Own : \A j \in Own : i <= j
        BY <2>2, <4>1, LeastExists
      <4> QED
        BY <4>2
    <3>2. FirstOwn = {body[c].to}
      BY <2>2 DEF FirstOwn
    <3> HIDE DEF c
    <3> QED
      BY <3>1, <3>2
  <2> QED
    BY <2>1, <2>2
<1> QED
  BY <1>2, <1>3, <1>4, <1>5, <1>6 DEF Reported, GitHubRelations, Linked

LEMMA PageShows ==
    ASSUME NEW k, NEW seen \in SeenOnPage(k)
    PROVE  (seen => Existing(k)) /\ (~seen => ~Existing(k) \/ Long(k))
<1>1. CASE Long(k)
  <2>1. seen = Existing(k) \/ seen = FALSE
    BY <1>1 DEF SeenOnPage
  <2> QED
    BY <1>1, <2>1
<1>2. CASE ~Long(k)
  <2>1. seen = Existing(k)
    BY <1>2 DEF SeenOnPage
  <2> QED
    BY <2>1
<1> QED
  BY <1>1, <1>2

LEMMA GitHubErrors == LinkInv /\ GitHubNext => ErrorStep
<1> SUFFICES ASSUME LinkInv, GitHubNext PROVE ErrorStep
  OBVIOUS
<1>1. /\ provider = "github" /\ call.pc # "idle"
      /\ Types /\ Sound /\ Route /\ BodyTyped
  BY DEF GitHubNext, GitHubStart, GitHubTarget, GitHubAddCheck, GitHubPost,
         GitHubRemoveCheck, GitHubDelete, GitHubBody, GitHubPatch, GH, At, LinkInv, Types
<1>2. /\ call \in Calls /\ Active /\ call.op \in {"add", "remove"}
      /\ Arg \in Requests /\ Arg.kind \in Kinds /\ To \in Tickets
  BY <1>1, Busy
<1>3. GitHubRoute
  BY <1>1, <1>2 DEF Route
<1>4. Asked(Arg) = Rel(Stored(Arg.kind), To) /\ Documented(Arg.kind) = Stored(Arg.kind)
  BY <1>1 DEF Asked, Documented, Stored, To, Arg
<1>5. /\ Stored(Arg.kind) \in Kinds
      /\ Stored(Arg.kind) = "duplicate_of" <=> Arg.kind = "duplicate_of"
  BY <1>2 DEF Stored, Kinds, Hierarchy, Links
<1>6. Existing(Arg.kind) => ExistsIsGenuine
  BY <1>4 DEF Existing, ExistsIsGenuine
<1>7. Arg.kind # "duplicate_of" /\ ~Existing(Arg.kind) => NotFoundIsGenuine
  BY <1>1, <1>4, <1>5, GitHubListsNow DEF Existing, NotFoundIsGenuine
<1>8. Arg.kind = "duplicate_of" /\ To \notin {body[i].to : i \in Own} => NotFoundIsGenuine
  <2>1. "duplicate_of" \in Kinds /\ Stored("duplicate_of") = "duplicate_of"
    BY DEF Kinds, Stored
  <2> QED
    BY <1>1, <1>4, <2>1, GitHubListsNow DEF NotFoundIsGenuine
<1>9. To \in Missing => NotFoundIsGenuine
  BY <1>1 DEF NotFoundIsGenuine
<1>10. ASSUME Lost(UNCHANGED ticket) PROVE ErrorStep
  BY <1>10, LostSays DEF Lost
<1>11. CASE GitHubStart
  BY <1>1, <1>11, RaiseSays, GotoSays DEF GitHubStart
<1>12. CASE GitHubTarget
  <2>1. ASSUME Raise("not found"), To \in Missing PROVE ErrorStep
    BY <1>9, <2>1, RaiseSays
  <2>2. ASSUME Raise("unknown") PROVE ErrorStep
    BY <2>2, RaiseSays
  <2> DEFINE pc == IF Arg.kind = "duplicate_of" THEN "body"
                   ELSE IF call.op = "add" \/ Arg.kind \in Links THEN "check"
                   ELSE "write"
  <2>3. CASE Goto(pc)
    <3> HIDE DEF pc
    <3> QED
      BY <1>1, <2>3, GotoSays
  <2> QED
    BY RefusedSays, <1>10, <1>12, <2>1, <2>2, <2>3 DEF GitHubTarget, Read, Answered
<1>13. CASE GitHubAddCheck
  <2>1. ASSUME Raise("exists"), Existing(Arg.kind) PROVE ErrorStep
    BY <1>6, <2>1, RaiseSays
  <2>2. PICK seen \in SeenOnPage(Arg.kind) :
          Read(IF seen THEN Raise("exists") ELSE Goto("write"))
    BY <1>13 DEF GitHubAddCheck
  <2>3. seen => Existing(Arg.kind)
    BY PageShows
  <2> QED
    BY RefusedSays, <1>1, <1>10, <2>1, <2>2, <2>3, GotoSays DEF Read, Answered
<1>14. CASE GitHubPost
  <2>1. ASSUME Raise("exists"), Existing(Arg.kind) PROVE ErrorStep
    BY <1>6, <2>1, RaiseSays
  <2>2. ASSUME Raise("refused") PROVE ErrorStep
    BY <2>2, RaiseSays
  <2>3. CASE Allowed(Stored(Arg.kind), To)
    BY RefusedSays, <1>14, <2>3, LostSays, ReturnSays DEF GitHubPost, Write, Taken, Lost
  <2>4. CASE ~Allowed(Stored(Arg.kind), To) /\ Existing(Arg.kind)
    BY RefusedSays, <1>10, <1>14, <2>1, <2>4 DEF GitHubPost, Read, Answered
  <2>5. CASE ~Allowed(Stored(Arg.kind), To) /\ ~Existing(Arg.kind)
    BY RefusedSays, <1>10, <1>14, <2>2, <2>5 DEF GitHubPost, Read, Answered
  <2> QED
    BY <2>3, <2>4, <2>5
<1>15. CASE GitHubRemoveCheck
  <2>1. call.pc = "check"
    BY <1>15 DEF GitHubRemoveCheck, GH, At
  <2>2. Arg.kind # "duplicate_of" /\ Arg.kind \in Links
    BY <1>3, <1>15, <2>1 DEF GitHubRoute, GitHubRemoveCheck, GH, At
  <2>3. ASSUME Raise("not found"), ~Existing(Arg.kind) \/ Long(Arg.kind) PROVE ErrorStep
    <3>1. NotFoundIsGenuine
      BY <1>1, <1>7, <2>2, <2>3 DEF NotFoundIsGenuine
    <3> QED
      BY <2>3, <3>1, RaiseSays
  <2>4. PICK seen \in SeenOnPage(Arg.kind) :
          Read(IF seen THEN Goto("write") ELSE Raise("not found"))
    BY <1>15 DEF GitHubRemoveCheck
  <2>5. ~seen => ~Existing(Arg.kind) \/ Long(Arg.kind)
    BY PageShows
  <2> QED
    BY RefusedSays, <1>1, <1>10, <2>3, <2>4, <2>5, GotoSays DEF Read, Answered
<1>16. CASE GitHubDelete
  <2>1. call.pc = "write"
    BY <1>16 DEF GitHubDelete, GH, At
  <2>2. Arg.kind # "duplicate_of"
    BY <1>3, <2>1 DEF GitHubRoute
  <2>3. ASSUME Raise("not found"), ~Existing(Arg.kind) PROVE ErrorStep
    BY <1>7, <2>2, <2>3, RaiseSays
  <2>4. CASE Arg.kind \in Hierarchy /\ ~Existing(Arg.kind)
    BY RefusedSays, <1>10, <1>16, <2>3, <2>4 DEF GitHubDelete, Read, Answered
  <2>5. CASE ~(Arg.kind \in Hierarchy /\ ~Existing(Arg.kind))
    BY RefusedSays, <1>16, <2>5, LostSays, ReturnSays DEF GitHubDelete, Write, Taken, Lost
  <2> QED
    BY <2>4, <2>5
<1>17. CASE GitHubBody
  <2>1. Arg.kind = "duplicate_of"
    BY <1>3, <1>17 DEF GitHubBody, GitHubRoute
  <2>2. ASSUME Raise("not found"), To \notin {body[i].to : i \in Own} PROVE ErrorStep
    BY <1>8, <2>1, <2>2, RaiseSays
  <2>3. ASSUME NEW b, call' = [call EXCEPT !.pc = "patch", !.body = b] PROVE ErrorStep
    <3>1. call'.op = call.op
      BY <1>2, <2>3 DEF Calls
    <3> QED
      BY <1>1, <3>1, GoesOn
  <2> QED
    BY RefusedSays, <1>10, <1>17, <2>2, <2>3 DEF GitHubBody, Read, Answered
<1>18. CASE GitHubPatch
  BY RefusedSays, <1>18, LostSays, ReturnSays DEF GitHubPatch, Write, Taken, Lost
<1> QED
  BY <1>11, <1>12, <1>13, <1>14, <1>15, <1>16, <1>17, <1>18 DEF GitHubNext

LEMMA GitLabListsNow ==
    ASSUME Sound, provider = "gitlab", NEW t
    PROVE  /\ \A k \in Hierarchy : Rel(k, t) \in Reported => Linked(k, t)
           /\ Rel("relates_to", t) \in Reported => t \notin Names /\ Linked("relates_to", t)
           /\ Rel("duplicate_of", t) \in Reported => t \in Names
<1>1. \A k, u : Rel(k, u).kind = k /\ Rel(k, u).to = u
  BY DEF Rel
<1>2. \A k \in Hierarchy \cup {"relates_to"} : Rel(k, t) \notin Duplicates(Names)
  BY <1>1 DEF Duplicates, Hierarchy
<1>3. Rel("duplicate_of", t) \in Duplicates(Names) => t \in Names
  BY <1>1 DEF Duplicates
<1>4. Reported = {r \in ToSet(rels) :
                      r.kind = "parent" \/ (r.kind \in Links /\ r.to \notin Names)}
                     \cup Duplicates(Names)
  BY DEF Reported, GitLabRelations
<1>5. \A k \in Hierarchy \cup {"relates_to"} : k # "duplicate_of"
  BY DEF Hierarchy
<1> QED
  BY <1>1, <1>2, <1>3, <1>4, <1>5 DEF Links, Hierarchy, Linked

LEMMA GitLabErrors == LinkInv /\ GitLabNext => ErrorStep
<1> SUFFICES ASSUME LinkInv, GitLabNext PROVE ErrorStep
  OBVIOUS
<1>1. /\ provider = "gitlab" /\ call.pc # "idle"
      /\ Types /\ Sound /\ Route /\ BodyTyped
  BY DEF GitLabNext, GitLabStart, Subject, SetParent, GitLabBody, PostLink,
         FindLink, DeleteLink, PutBody, Reread, LinkInv, Types
<1>2. /\ call \in Calls /\ Active /\ call.op \in {"add", "remove"}
      /\ Arg \in Requests /\ Arg.kind \in Kinds /\ To \in Tickets
  BY <1>1, Busy
<1>3. GitLabRoute
  BY <1>1, <1>2 DEF Route
<1>4. Asked(Arg) = Rel(Arg.kind, To) /\ Documented(Arg.kind) = Arg.kind
  BY <1>1 DEF Asked, Documented, To, Arg
<1>5. ASSUME Lost(UNCHANGED ticket) PROVE ErrorStep
  BY <1>5, LostSays DEF Lost
<1>6. ASSUME NEW e, Raise(e), e # "exists", e # "not found" PROVE ErrorStep
  BY <1>6, RaiseSays
<1>7. ASSUME Raise("not found"), NotFoundIsGenuine PROVE ErrorStep
  BY <1>7, RaiseSays
<1>8. ASSUME Raise("exists"), ExistsIsGenuine PROVE ErrorStep
  BY <1>8, RaiseSays
<1>9. CASE GitLabStart
  <2> DEFINE pc == IF Arg.kind \in Hierarchy THEN "subject"
                   ELSE IF call.op = "add" /\ Arg.kind = "relates_to" THEN "link"
                   ELSE "body"
  <2>1. CASE Goto(pc)
    <3> HIDE DEF pc
    <3> QED
      BY <1>1, <2>1, GotoSays
  <2> QED
    BY <1>6, <1>9, <2>1 DEF GitLabStart
<1>10. CASE Subject
  <2>1. Arg.kind \in Hierarchy
    BY <1>3, <1>10 DEF Subject, GitLabRoute
  <2>2. HasParent => ExistsIsGenuine
    BY <1>4 DEF HasParent, ExistsIsGenuine
  <2>3. ~HasParent => NotFoundIsGenuine
    BY <1>1, <1>4, <2>1, GitLabListsNow DEF HasParent, NotFoundIsGenuine
  <2>4. To \in Missing => ~HasParent
    BY <1>1 DEF HasParent, Sound, Fit, Linked, Rel
  <2> QED
    BY RefusedSays, <1>1, <1>5, <1>6, <1>7, <1>8, <1>10, <2>2, <2>3, <2>4, GotoSays DEF Subject, Read, Answered
<1>11. CASE SetParent
  BY RefusedSays, <1>5, <1>6, <1>11, LostSays, ReturnSays DEF SetParent, Write, Taken, Read, Answered, Lost
<1>12. CASE GitLabBody
  <2>1. \/ Arg.kind = "duplicate_of"
        \/ call.op = "remove" /\ Arg.kind = "relates_to"
    BY <1>3, <1>12 DEF GitLabBody, GitLabRoute
  <2>2. CallsItDuplicate # (Arg.kind = "duplicate_of") => NotFoundIsGenuine
    BY <1>1, <1>4, <2>1, GitLabListsNow DEF CallsItDuplicate, NotFoundIsGenuine
  <2>3. ASSUME NEW pc, NEW b, call' = [call EXCEPT !.pc = pc, !.body = b] PROVE ErrorStep
    <3>1. call'.op = call.op
      BY <1>2, <2>3 DEF Calls
    <3> QED
      BY <1>1, <3>1, GoesOn
  <2> QED
    BY RefusedSays, <1>5, <1>7, <1>12, <2>2, <2>3 DEF GitLabBody, Read, Answered
<1>13. CASE PostLink
  <2>1. CASE Allowed("relates_to", To)
    BY RefusedSays, <1>1, <1>13, <2>1, Steps, LostSays, ReturnSays, GotoSays DEF PostLink, Write, Taken, Lost
  <2>2. CASE ~Allowed("relates_to", To)
    <3>1. To \notin Missing => ExistsIsGenuine
      <4>1. To \notin Missing => Linked("relates_to", To) \/ Paired(To) # {}
        BY <2>2 DEF Allowed, Hierarchy
      <4>2. Linked("relates_to", To) => Paired(To) # {}
        BY DEF Paired, Links
      <4> QED
        BY <1>1, <4>1, <4>2 DEF ExistsIsGenuine
    <3>3. ASSUME NEW pc, call' = [call EXCEPT !.pc = pc, !.link = "relates_to"]
          PROVE  ErrorStep
      <4>1. call'.op = call.op
        BY <1>2, <3>3 DEF Calls
      <4> QED
        BY <1>1, <4>1, GoesOn
    <3>2. ASSUME Raise(LinkRefusal) PROVE ErrorStep
      <4>1. CASE To \in Missing
        BY <1>6, <3>2, <4>1 DEF LinkRefusal
      <4>2. CASE To \notin Missing
        BY <1>8, <3>1, <3>2, <4>2 DEF LinkRefusal
      <4> QED
        BY <4>1, <4>2
    <3> QED
      BY RefusedSays, <1>5, <1>13, <2>2, <3>2, <3>3 DEF PostLink, Read, Answered
  <2> QED
    BY <2>1, <2>2
<1>14. CASE FindLink
  <2>1. Arg.kind \in {"relates_to", "duplicate_of"}
    BY <1>3, <1>14 DEF FindLink, GitLabRoute
  <2>2. Paired(To) = {} /\ Arg.kind # "duplicate_of" => NotFoundIsGenuine
    <3>1. Paired(To) = {} => ~Linked("relates_to", To)
      BY DEF Paired, Links
    <3> QED
      BY <1>1, <1>4, <2>1, <3>1, GitLabListsNow DEF NotFoundIsGenuine
  <2>3. ASSUME NEW k, call' = [call EXCEPT !.pc = "unlink", !.link = k] PROVE ErrorStep
    <3>1. call'.op = call.op
      BY <1>2, <2>3 DEF Calls
    <3> QED
      BY <1>1, <3>1, GoesOn
  <2> QED
    BY RefusedSays, <1>1, <1>5, <1>7, <1>14, <2>2, <2>3, GotoSays DEF FindLink, Read, Answered
<1>15. CASE DeleteLink
  BY RefusedSays, <1>1, <1>5, <1>6, <1>15, LostSays, ReturnSays, GotoSays DEF DeleteLink, Write, Taken, Read, Answered, Lost
<1>16. CASE PutBody
  BY RefusedSays, <1>1, <1>16, Steps, LostSays, ReturnSays, GotoSays
     DEF PutBody, Write, Taken, Lost
<1>17. CASE Reread
  BY RefusedSays, <1>5, <1>17, ReturnSays DEF Reread, Read, Answered
<1> QED
  BY <1>9, <1>10, <1>11, <1>12, <1>13, <1>14, <1>15, <1>16, <1>17 DEF GitLabNext

LEMMA AzureErrors == LinkInv /\ AzureNext => ErrorStep
<1> SUFFICES ASSUME LinkInv, AzureNext PROVE ErrorStep
  OBVIOUS
<1>1. /\ provider = "azure" /\ call.pc # "idle" /\ Types /\ Sound
  BY DEF AzureNext, AzureStart, Preflight, AddLink, Describe, FindIndex,
         RemoveIndex, PatchFields, LinkInv
<1>2. call \in Calls /\ Arg.kind \in Kinds
  BY <1>1, Busy
<1>3. /\ Asked(Arg) = Rel(AzureStored(Arg.kind), To)
      /\ Documented(Arg.kind) = AzureStored(Arg.kind)
  BY <1>1 DEF Asked, Documented, AzureStored, To, Arg
<1>4. ASSUME Lost(UNCHANGED ticket) PROVE ErrorStep
  BY <1>4, LostSays DEF Lost
<1>5. ASSUME NEW e, Raise(e), e # "exists", e # "not found" PROVE ErrorStep
  BY <1>5, RaiseSays
<1>6. ASSUME Matching # {}, Raise("exists") PROVE ErrorStep
  <2>1. PICK i \in Matching : TRUE
    BY <1>6
  <2>2. LooksAlike(To, rels) \/ Linked(Documented(Arg.kind), To)
    <3>1. LooksAlike(To, rels) \/ rels[i] = Asked(Arg)
      BY <1>1, <1>2, AzureMatched
    <3>2. rels[i] \in ToSet(rels)
      BY DEF Matching, ToSet
    <3> QED
      BY <1>3, <3>1, <3>2 DEF Linked
  <2>3. ExistsIsGenuine
    BY <1>1, <2>2 DEF ExistsIsGenuine
  <2> QED
    BY <1>6, <2>3, RaiseSays
<1>7. ASSUME Matching = {}, Raise("not found") PROVE ErrorStep
  <2> DEFINE r == Rel(AzureStored(Arg.kind), To)
  <2>1. r.kind = AzureStored(Arg.kind) /\ StartsWith(r.to, To)
    BY DEF Rel, StartsWith
  <2>2. r \notin ToSet(rels)
    BY <1>7, <2>1 DEF Matching, Matches, ToSet
  <2>3. \A u : r # Rel("mentions", u)
    BY <1>1, <1>2, AzureAsked DEF Rel, Kinds, Hierarchy, Links
  <2>4. r \notin Mentioned(Names \ {q.to : q \in ToSet(rels)})
    BY <2>3 DEF Mentioned
  <2>5. NotFoundIsGenuine
    BY <1>1, <1>3, <2>2, <2>4 DEF NotFoundIsGenuine, Reported, AzureRelations
  <2> QED
    BY <1>7, <2>5, RaiseSays
<1>8. ASSUME NEW f, call' = f, f.op = call.op PROVE ErrorStep
  BY <1>1, <1>8, GoesOn
<1>9. CASE AzureStart
  BY <1>1, <1>5, <1>9, GotoSays DEF AzureStart
<1>10. CASE Preflight
  BY RefusedSays, <1>1, <1>4, <1>6, <1>10, GotoSays DEF Preflight, Read, Answered
<1>11. CASE AddLink
  BY RefusedSays, <1>1, <1>4, <1>5, <1>11, LostSays, ReturnSays, GotoSays DEF AddLink, Write, Taken, Read, Answered, Lost
<1>12. CASE Describe
  BY RefusedSays, <1>2, <1>4, <1>8, <1>12 DEF Describe, Read, Answered, Calls
<1>13. CASE FindIndex
  BY RefusedSays, <1>2, <1>4, <1>7, <1>8, <1>13 DEF FindIndex, Read, Answered, Calls
<1>14. CASE RemoveIndex
  BY RefusedSays, <1>1, <1>4, <1>5, <1>14, LostSays, ReturnSays, GotoSays
     DEF RemoveIndex, Write, Taken, Read, Answered, Lost
<1>15. CASE PatchFields
  BY RefusedSays, <1>15, LostSays, ReturnSays DEF PatchFields, Write, Taken, Lost
<1> QED
  BY <1>9, <1>10, <1>11, <1>12, <1>13, <1>14, <1>15 DEF AzureNext

(* RelationAlreadyExists and RelationNotFound speak of what a reader of    *)
(* the ticket would see at that moment.                                    *)
THEOREM ErrorsSpeakTruly == Spec => ErrorsAreGenuine
<1>1. LinkInv /\ [Next]_vars => [ErrorStep]_vars
  <2> SUFFICES ASSUME LinkInv, Next PROVE ErrorStep
    OBVIOUS
  <2>1. CASE Begin
    BY <2>1 DEF Begin, ErrorStep
  <2>2. CASE Environment
    BY <2>2 DEF Environment, Relate, Unrelate, Edit, Flip, Other, ErrorStep
  <2> QED
    BY <2>1, <2>2, GitHubErrors, GitLabErrors, AzureErrors DEF Next
<1> QED
  BY <1>1, LinkInvariant, PTL
     DEF Spec, ErrorsAreGenuine, ErrorStep, ExistsIsGenuine, NotFoundIsGenuine

-----------------------------------------------------------------------------
(* Removals.                                                               *)

RemovalStep ==
    LET gone == Held \ Held'
    IN  (call.op = "remove" /\ events' = events /\ gone # {}) =>
            CASE provider = "github" -> gone = {Asked(Arg)}
              [] provider = "gitlab" -> alone => \A r \in gone : r.to = To
              [] provider = "azure"  -> alone /\ ~LooksAlike(To, rels) => gone = {Asked(Arg)}

LEMMA NothingGone == ASSUME rels' = rels PROVE RemovalStep
BY DEF RemovalStep, Held

LEMMA GitHubRemoves == LinkInv /\ GitHubNext => RemovalStep
<1> SUFFICES ASSUME LinkInv, GitHubNext, rels' # rels, call.op = "remove" PROVE RemovalStep
  BY NothingGone DEF RemovalStep
<1>1. GitHubDelete /\ provider = "github"
  BY DEF GitHubNext, GitHubStart, GitHubTarget, GitHubAddCheck, GitHubPost,
         GitHubRemoveCheck, GitHubDelete, GitHubBody, GitHubPatch, GH, At,
         Read, Answered, Write, Taken, Refused, Lost, Silent, ticket, SetBody
<1>2. SetRels(Drop(Rel(Stored(Arg.kind), To))) /\ provider' = provider
  BY <1>1 DEF GitHubDelete, Read, Answered, Write, Taken, Refused, Lost, Silent, ticket
<1>3. ToSet(rels') = ToSet(rels) \ {Rel(Stored(Arg.kind), To)}
  BY <1>2, DropChanges DEF LinkInv
<1>4. Asked(Arg) = Rel(Stored(Arg.kind), To)
  BY <1>1 DEF Asked, Documented, Stored, To, Arg
<1>5. Held \ Held' # {} => Held \ Held' = {Asked(Arg)}
  BY <1>3, <1>4, HeldIsKept
<1> QED
  BY <1>1, <1>5 DEF RemovalStep

LEMMA GitLabRemoves == LinkInv /\ GitLabNext => RemovalStep
<1> SUFFICES ASSUME LinkInv, GitLabNext, rels' # rels, call.op = "remove" PROVE RemovalStep
  BY NothingGone DEF RemovalStep
<1>1. provider = "gitlab" /\ call.pc # "idle" /\ Types /\ Sound /\ Route /\ Stage
  BY DEF GitLabNext, GitLabStart, Subject, SetParent, GitLabBody, PostLink,
         FindLink, DeleteLink, PutBody, Reread, LinkInv
<1>2. Active /\ GitLabRoute
  BY <1>1, Busy DEF Route
<1>3. call.pc # "link"
  BY <1>2 DEF GitLabRoute
<1>4. SetParent \/ DeleteLink
  BY <1>3 DEF GitLabNext, GitLabStart, Subject, GitLabBody, PostLink, FindLink, PutBody, Reread,
         Read, Answered, Write, Taken, Refused, Lost, Silent, ticket, SetBody
<1>5. ASSUME NEW r, r.to = To, SetRels(Drop(r)), provider' = provider PROVE RemovalStep
  <2>1. ToSet(rels') = ToSet(rels) \ {r}
    BY <1>1, <1>5, DropChanges
  <2>2. \A q \in Held \ Held' : q.to = To
    BY <1>5, <2>1, HeldIsKept
  <2> QED
    BY <1>1, <2>2 DEF RemovalStep
<1>6. CASE SetParent
  <2>1. call.pc = "parent"
    BY <1>6 DEF SetParent
  <2>2. Arg.kind \in Hierarchy
    BY <1>2, <2>1 DEF GitLabRoute
  <2>3. /\ SetRels(IF Arg.kind = "parent" THEN DropParents ELSE Drop(Rel("child", To)))
        /\ provider' = provider
    BY <1>6 DEF SetParent, Write, Taken, Refused, Lost, Silent, ticket
  <2>4. CASE Arg.kind = "parent"
    <3>1. ToSet(rels') = ToSet(rels) \ Parents
      BY <1>1, <2>3, <2>4, DropParentsChanges
    <3>2. alone => Rel("parent", To) \in ToSet(rels)
      BY <1>1, <1>2, <2>1, <2>4 DEF Stage, Linked
    <3>3. Rel("parent", To).kind = "parent" /\ Rel("parent", To).to = To
      BY DEF Rel
    <3>4. alone => \A q \in Parents : q.to = To
      BY <1>1, <3>2, <3>3 DEF Parents, Sound, Fit
    <3>5. alone => \A q \in Held \ Held' : q.to = To
      BY <3>1, <3>4, HeldIsKept
    <3> QED
      BY <1>1, <3>5 DEF RemovalStep
  <2>5. CASE Arg.kind # "parent"
    BY <1>5, <2>3, <2>5 DEF Rel
  <2> QED
    BY <2>4, <2>5
<1>7. CASE DeleteLink
  <2>1. SetRels(Drop(Rel(call.link, To))) /\ provider' = provider
    BY <1>7 DEF DeleteLink, Write, Taken, Read, Answered, Refused, Lost, Silent, ticket
  <2>2. Rel(call.link, To).to = To
    BY DEF Rel
  <2> QED
    BY <1>5, <2>1, <2>2
<1> QED
  BY <1>4, <1>6, <1>7

LEMMA AzureRemoves == LinkInv /\ AzureNext => RemovalStep
<1> SUFFICES ASSUME LinkInv, AzureNext, rels' # rels, call.op = "remove" PROVE RemovalStep
  BY NothingGone DEF RemovalStep
<1>1. provider = "azure" /\ call.pc # "idle" /\ Types /\ Sound /\ Route /\ Stage
  BY DEF AzureNext, AzureStart, Preflight, AddLink, Describe, FindIndex,
         RemoveIndex, PatchFields, LinkInv
<1>2. Active /\ AzureRoute /\ Arg.kind \in Kinds
  BY <1>1, Busy DEF Route
<1>3. call.pc # "link"
  BY <1>2 DEF AzureRoute
<1>4. RemoveIndex
  BY <1>3 DEF AzureNext, AzureStart, Preflight, AddLink, Describe, FindIndex, PatchFields,
         Read, Answered, Write, Taken, Refused, Lost, Silent, ticket, SetBody
<1>5. call.pc = "remove" /\ SetRels(Drop(rels[call.index])) /\ provider' = provider
  BY <1>4 DEF RemoveIndex, Write, Taken, Read, Answered, Refused, Lost, Silent, ticket
<1>6. alone => call.index \in Matching
  BY <1>1, <1>2, <1>5 DEF Stage
<1>7. alone /\ ~LooksAlike(To, rels) => rels[call.index] = Asked(Arg)
  BY <1>1, <1>2, <1>6, AzureMatched
<1>8. ToSet(rels') = ToSet(rels) \ {rels[call.index]}
  BY <1>1, <1>5, DropChanges
<1>9. alone /\ ~LooksAlike(To, rels) /\ Held \ Held' # {} => Held \ Held' = {Asked(Arg)}
  BY <1>7, <1>8, HeldIsKept
<1> QED
  BY <1>1, <1>9 DEF RemovalStep

(* remove_relation removes nothing but what it names, as far as each       *)
(* provider's way of naming it goes.                                       *)
THEOREM RemovalsAreExact == Spec => RemovalIsExact
<1>1. LinkInv /\ [Next]_vars => [RemovalStep]_vars
  <2> SUFFICES ASSUME LinkInv, Next PROVE RemovalStep
    OBVIOUS
  <2>1. CASE Begin
    BY <2>1 DEF Begin, RemovalStep
  <2>2. CASE Environment
    <3>1. events' # events
      BY <2>2 DEF Environment, Relate, Unrelate, Edit, Flip, Other, LinkInv, Types
    <3> QED
      BY <3>1 DEF RemovalStep
  <2> QED
    BY <2>1, <2>2, GitHubRemoves, GitLabRemoves, AzureRemoves DEF Next
<1> QED
  BY <1>1, LinkInvariant, PTL DEF Spec, RemovalIsExact, RemovalStep
=============================================================================
