------------------------- MODULE RestObjectsProofs -------------------------
(***************************************************************************)
(* What reading documents into an object does, for any set of classes.     *)
(* Which classes forget a member is a fact about their tables, which only  *)
(* the run on the classes of the repository can show.                      *)
(***************************************************************************)
EXTENDS RestObjects, TLAPS

\* Values that come from no second document.
FirstValues == {"init", "junk", "one", "odd", "cut"}

\* from_json gets to the member before anything throws.
Reached(c, d, m) ==
  \E i \in DOMAIN c.reads : c.reads[i] = m /\ \A j \in Failures(c, d) : i < j

\* After one document: the members it got to, and the ones it did not.
FrontRead == \A m \in Reads(cls) : Reached(cls, doc, m) /\ WireOf(doc, m) = "good" => obj[m] = "one"
TailUntouched ==
  \A i \in DOMAIN cls.reads :
    (\E j \in Failures(cls, doc) : j < i) => obj[cls.reads[i]] = Fresh(cls)[cls.reads[i]]

ResultOf(c, d) == IF Failures(c, d) = {} \/ c.lenient THEN "true" ELSE "false"

ObjInv ==
  /\ cls \in Classes
  /\ obj \in [MembersOf(cls) -> Values]
  /\ read \in 0..2
  /\ read = 0 => obj = Fresh(cls)
  /\ read = 1 => /\ FrontRead /\ TailUntouched /\ result = ResultOf(cls, doc)
                 /\ \A m \in MembersOf(cls) : obj[m] \in FirstValues
  /\ SecondReadReplaces

-----------------------------------------------------------------------------
(* One member.                                                             *)

\* The first document: what it gives is taken.
LEMMA FirstRead ==
  ASSUME NEW c \in Classes, NEW d, NEW m \in Reads(c), NEW old \in {"init", "junk"}
  PROVE  /\ MemberFromJson(c, d, m, old, 1) \in FirstValues
         /\ WireOf(d, m) = "good" => MemberFromJson(c, d, m, old, 1) = "one"
  <1>1. c.kinds[m] \in Scalars \cup Lists \cup Nested
    BY ClassesAssumption DEF ClassOK, KindNames
  <1>2. ASSUME NEW k \in Scalars \cup Lists \cup Nested, NEW w
        PROVE  /\ FieldFromJson(k, w, old, 1) \in FirstValues
               /\ w = "good" => FieldFromJson(k, w, old, 1) = "one"
    BY DEF FieldFromJson, ScalarFromJson, ListFromJson, NestedFromJson, LaidOver,
           Version, Missing, Scalars, Lists, Nested, FirstValues
  <1>3. QED
    BY <1>1, <1>2 DEF MemberFromJson, Version, Missing, FirstValues

\* The second document: mixtures only where documents are laid over, and
\* nothing left of the first where the second gives a good value.
LEMMA SecondRead ==
  ASSUME NEW c \in Classes, NEW d, NEW m \in Reads(c), NEW old \in FirstValues
  PROVE  /\ MemberFromJson(c, d, m, old, 2) \in Values
         /\ MemberFromJson(c, d, m, old, 2) = "merged" =>
              c.kinds[m] \in Nested \cup {"pairs", "objects"}
         /\ MemberFromJson(c, d, m, old, 2) = "one" => WireOf(d, m) # "good"
  <1>1. c.kinds[m] \in Scalars \cup Lists \cup Nested
    BY ClassesAssumption DEF ClassOK, KindNames
  <1>2. ASSUME NEW k \in Scalars \cup Lists \cup Nested, NEW w
        PROVE  /\ FieldFromJson(k, w, old, 2) \in Values
               /\ FieldFromJson(k, w, old, 2) = "merged" =>
                    k \in Nested \cup {"pairs", "objects"}
               /\ FieldFromJson(k, w, old, 2) = "one" => w # "good"
    BY DEF FieldFromJson, ScalarFromJson, ListFromJson, NestedFromJson, LaidOver,
           Version, Missing, Scalars, Lists, Nested, FirstValues, Values
  <1>3. QED
    BY <1>1, <1>2 DEF MemberFromJson, Version, Missing, Values

-----------------------------------------------------------------------------
(* The whole object.                                                       *)

\* Only the member that deviates can make from_json fail, so there is at most
\* one place where it does.
LEMMA OneFailure ==
  ASSUME NEW c \in Classes, NEW d
  PROVE  /\ \A i, j \in Failures(c, d) : i = j
         /\ \A i \in Failures(c, d) : WireOf(d, c.reads[i]) # "good"
         /\ Failures(c, d) \subseteq DOMAIN c.reads
<1>1. ASSUME NEW i \in Failures(c, d)
      PROVE  i \in DOMAIN c.reads /\ WireOf(d, c.reads[i]) # "good" /\ c.reads[i] = d.at
  BY <1>1 DEF Failures, FailsAt, FieldThrows, StrictFails, WireOf
<1>2. \A i, j \in DOMAIN c.reads : c.reads[i] = c.reads[j] => i = j
  BY ClassesAssumption DEF ClassOK
<1>3. QED
  BY <1>1, <1>2

\* A member is read, has failed, or keeps its value; one that from_json gets to
\* is read, one after the exception keeps its value.
LEMMA FilledMember ==
  ASSUME NEW c \in Classes, NEW d, NEW o, NEW n, NEW m \in MembersOf(c)
  PROVE  /\ \/ m \in Reads(c) /\ Filled(c, d, o, n)[m] = MemberFromJson(c, d, m, o[m], n)
            \/ Filled(c, d, o, n)[m] \in {"cut", o[m]}
         /\ Reached(c, d, m) => Filled(c, d, o, n)[m] = MemberFromJson(c, d, m, o[m], n)
  BY DEF Filled, FailedMember, Reads, Reached

LEMMA FilledTail ==
  ASSUME NEW c \in Classes, NEW d, NEW o, NEW n, NEW i \in DOMAIN c.reads,
         NEW j \in Failures(c, d), j < i
  PROVE  Filled(c, d, o, n)[c.reads[i]] = o[c.reads[i]]
<1>1. /\ \A a, b \in DOMAIN c.reads : c.reads[a] = c.reads[b] => a = b
      /\ c.reads \in Seq(MembersOf(c))
  BY ClassesAssumption DEF ClassOK
<1>2. i \in Nat /\ j \in Nat /\ c.reads[i] \in MembersOf(c)
  BY <1>1, OneFailure
<1>3. ~\E a \in DOMAIN c.reads : c.reads[a] = c.reads[i] /\ \A b \in Failures(c, d) : a < b
  BY <1>1, <1>2
<1>4. ~\E a \in Failures(c, d) : c.reads[a] = c.reads[i]
  BY <1>1, <1>2, OneFailure
<1>5. QED
  BY <1>2, <1>3, <1>4 DEF Filled

\* Where the result is true, what it vouches for has been reached.
LEMMA VouchedIsReached ==
  ASSUME NEW c \in Classes, NEW d, NEW m \in Reads(c), ResultOf(c, d) = "true",
         Vouched(c, d, m)
  PROVE  Reached(c, d, m)
<1>1. PICK i \in DOMAIN c.reads : c.reads[i] = m
  BY DEF Reads
<1>2. CASE Failures(c, d) = {}
  BY <1>1, <1>2 DEF Reached
<1>3. CASE c.lenient
  BY <1>1, <1>3 DEF Reached, Vouched
<1>4. QED
  BY <1>2, <1>3 DEF ResultOf

LEMMA FromJsonKeeps ==
  ASSUME ObjInv, NEW d, FromJson(d)
  PROVE  ObjInv'
<1>1. /\ cls' = cls /\ doc' = d /\ cls \in Classes /\ read \in 0..2 /\ read < 2
      /\ obj' = Filled(cls, d, obj, read + 1) /\ read' = read + 1
      /\ DOMAIN obj' = MembersOf(cls)
      /\ result' = ResultOf(cls, d)
      /\ Reads(cls) \subseteq MembersOf(cls)
  BY ClassesAssumption DEF ObjInv, FromJson, Filled, ResultOf, ClassOK
<1>2. CASE read = 0
  <2>1. obj = Fresh(cls) /\ obj' = Filled(cls, d, obj, 1) /\ read' = 1
    BY <1>1, <1>2 DEF ObjInv
  <2>2. ASSUME NEW m \in MembersOf(cls)
        PROVE  /\ obj'[m] \in FirstValues
               /\ m \in Reads(cls) /\ Reached(cls, d, m) /\ WireOf(d, m) = "good" =>
                    obj'[m] = "one"
    <3>1. obj[m] \in {"init", "junk"}
      BY <2>1 DEF Fresh
    <3>2. m \in Reads(cls) =>
            /\ MemberFromJson(cls, d, m, obj[m], 1) \in FirstValues
            /\ WireOf(d, m) = "good" => MemberFromJson(cls, d, m, obj[m], 1) = "one"
      BY <1>1, <3>1, FirstRead
    <3>3. /\ \/ m \in Reads(cls) /\ obj'[m] = MemberFromJson(cls, d, m, obj[m], 1)
             \/ obj'[m] \in {"cut", obj[m]}
          /\ Reached(cls, d, m) => obj'[m] = MemberFromJson(cls, d, m, obj[m], 1)
      BY <1>1, <2>1, FilledMember
    <3>4. QED
      BY <3>1, <3>2, <3>3 DEF FirstValues
  <2>3. obj' \in [MembersOf(cls) -> Values]
    BY <1>1, <2>2 DEF Filled, FirstValues, Values
  <2>4. FrontRead'
    BY <1>1, <2>2 DEF FrontRead
  <2>5. TailUntouched'
    BY <1>1, <2>1, FilledTail DEF TailUntouched
  <2>6. SecondReadReplaces'
    BY <2>1 DEF SecondReadReplaces
  <2>7. QED
    BY <1>1, <2>1, <2>2, <2>3, <2>4, <2>5, <2>6 DEF ObjInv
<1>3. CASE read = 1
  <2>1. obj' = Filled(cls, d, obj, 2) /\ read' = 2
    BY <1>1, <1>3
  <2>2. ASSUME NEW m \in MembersOf(cls)
        PROVE  /\ obj'[m] \in Values
               /\ m \in Reads(cls) /\ Reached(cls, d, m) =>
                    /\ obj'[m] = "merged" => cls.kinds[m] \in Nested \cup {"pairs", "objects"}
                    /\ obj'[m] = "one" => WireOf(d, m) # "good"
    <3>1. obj[m] \in FirstValues
      BY <1>3 DEF ObjInv
    <3>2. m \in Reads(cls) =>
            /\ MemberFromJson(cls, d, m, obj[m], 2) \in Values
            /\ MemberFromJson(cls, d, m, obj[m], 2) = "merged" =>
                 cls.kinds[m] \in Nested \cup {"pairs", "objects"}
            /\ MemberFromJson(cls, d, m, obj[m], 2) = "one" => WireOf(d, m) # "good"
      BY <1>1, <3>1, SecondRead
    <3>3. /\ \/ m \in Reads(cls) /\ obj'[m] = MemberFromJson(cls, d, m, obj[m], 2)
             \/ obj'[m] \in {"cut", obj[m]}
          /\ Reached(cls, d, m) => obj'[m] = MemberFromJson(cls, d, m, obj[m], 2)
      BY <1>1, <2>1, FilledMember
    <3>4. QED
      BY <3>1, <3>2, <3>3 DEF FirstValues, Values
  <2>3. obj' \in [MembersOf(cls) -> Values]
    BY <1>1, <2>2 DEF Filled
  <2>4. SecondReadReplaces'
    <3> SUFFICES ASSUME result' = "true", NEW m \in Reads(cls), Vouched(cls, d, m)
                 PROVE  /\ obj'[m] = "merged" =>
                             cls.kinds[m] \in Nested \cup {"pairs", "objects"}
                        /\ obj'[m] = "one" => WireOf(d, m) # "good"
      BY <1>1 DEF SecondReadReplaces
    <3>1. Reached(cls, d, m)
      BY <1>1, VouchedIsReached
    <3>2. QED
      BY <1>1, <2>2, <3>1
  <2>5. QED
    BY <1>1, <2>1, <2>3, <2>4 DEF ObjInv
<1>4. QED
  BY <1>1, <1>2, <1>3

LEMMA ObjInvariant == ObjSpec => []ObjInv
<1>1. ObjInit => ObjInv
  BY DEF ObjInit, ObjInv, Fresh, Values, SecondReadReplaces
<1>2. ObjInv /\ [ObjNext]_objVars => ObjInv'
  <2> SUFFICES ASSUME ObjInv, [ObjNext]_objVars PROVE ObjInv'
    OBVIOUS
  <2>1. ASSUME NEW d, FromJson(d) PROVE ObjInv'
    BY <2>1, FromJsonKeeps
  <2>2. ASSUME UNCHANGED <<cls, obj, read, doc, result>> PROVE ObjInv'
    BY <2>2 DEF ObjInv, FrontRead, TailUntouched, SecondReadReplaces
  <2>3. QED
    BY <2>1, <2>2 DEF ObjNext, ToJson, objVars
<1>3. QED
  BY <1>1, <1>2, PTL DEF ObjSpec

-----------------------------------------------------------------------------
(* The properties.                                                         *)

\* A second document read into the same object replaces the first, except in
\* nested objects and lists of objects, in as far as from_json got to it; a
\* result of true means all of it, unless from_json is lenient.
THEOREM SecondReadTheorem == ObjSpec => []SecondReadReplaces
<1>1. ObjInv => SecondReadReplaces
  BY DEF ObjInv
<1>2. QED
  BY <1>1, ObjInvariant, PTL

\* Whatever from_json returns, the object holds a front part of the document
\* and behind it what it was made with; the whole document if the result is
\* true and the class not lenient, never if the result is false.
THEOREM FrontPartTheorem == ObjSpec => []ReadsFrontPart
<1>1. ObjInv => ReadsFrontPart
  <2> SUFFICES ASSUME ObjInv, read = 1
               PROVE  \E k \in 1 .. Len(cls.reads) + 1 :
                        /\ \A i \in DOMAIN cls.reads :
                             LET m == cls.reads[i] IN
                             /\ i < k /\ WireOf(doc, m) = "good" => obj[m] = "one"
                             /\ i = k => WireOf(doc, m) # "good"
                             /\ i > k => obj[m] = Fresh(cls)[m]
                        /\ result = "true" /\ ~cls.lenient => k = Len(cls.reads) + 1
                        /\ result = "false" => k # Len(cls.reads) + 1
    BY DEF ReadsFrontPart
  <2>1. /\ cls \in Classes /\ cls.reads \in Seq(MembersOf(cls))
        /\ FrontRead /\ TailUntouched /\ result = ResultOf(cls, doc)
    BY ClassesAssumption DEF ObjInv, ClassOK
  <2>2. Len(cls.reads) \in Nat /\ DOMAIN cls.reads = 1 .. Len(cls.reads)
    BY <2>1
  <2>3. \A i \in DOMAIN cls.reads : cls.reads[i] \in Reads(cls)
    BY DEF Reads
  <2>4. CASE Failures(cls, doc) = {}
    <3>1. \A i \in DOMAIN cls.reads : Reached(cls, doc, cls.reads[i])
      BY <2>4 DEF Reached
    <3>2. \A i \in DOMAIN cls.reads :
            WireOf(doc, cls.reads[i]) = "good" => obj[cls.reads[i]] = "one"
      BY <2>1, <2>3, <3>1 DEF FrontRead
    <3>3. result = "true"
      BY <2>1, <2>4 DEF ResultOf
    <3>4. WITNESS Len(cls.reads) + 1 \in 1 .. Len(cls.reads) + 1
    <3>5. QED
      BY <2>2, <3>2, <3>3
  <2>5. CASE Failures(cls, doc) # {}
    <3>1. PICK k \in Failures(cls, doc) : TRUE
      BY <2>5
    <3>2. /\ k \in DOMAIN cls.reads /\ WireOf(doc, cls.reads[k]) # "good"
          /\ \A j \in Failures(cls, doc) : j = k
      BY <2>1, <3>1, OneFailure
    <3>3. ASSUME NEW i \in DOMAIN cls.reads, i < k, WireOf(doc, cls.reads[i]) = "good"
          PROVE  obj[cls.reads[i]] = "one"
      <4>1. Reached(cls, doc, cls.reads[i])
        BY <3>2, <3>3 DEF Reached
      <4>2. QED
        BY <2>1, <2>3, <3>3, <4>1 DEF FrontRead
    <3>4. ASSUME NEW i \in DOMAIN cls.reads, i > k
          PROVE  obj[cls.reads[i]] = Fresh(cls)[cls.reads[i]]
      BY <2>1, <2>2, <3>1, <3>2, <3>4 DEF TailUntouched
    <3>5. ~(result = "true" /\ ~cls.lenient)
      BY <2>1, <2>5 DEF ResultOf
    <3>6. k \in 1 .. Len(cls.reads) + 1 /\ k # Len(cls.reads) + 1
      BY <2>2, <3>2
    <3>7. QED
      BY <3>2, <3>3, <3>4, <3>5, <3>6
  <2>6. QED
    BY <2>4, <2>5
<1>2. QED
  BY <1>1, ObjInvariant, PTL
=============================================================================
