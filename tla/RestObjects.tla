---------------------------- MODULE RestObjects ----------------------------
(***************************************************************************)
(* The records the services exchange, as classes with to_json and          *)
(* from_json (RESTObjects/, framework/RESTAPI_utils.h).  An object of some *)
(* class is filled from the document a peer sends, once or a second time,  *)
(* and written out again.                                                  *)
(*                                                                         *)
(* A document is abstracted to how it deviates: it has every member of the *)
(* class as it should be, except at most one.  The value of a member is    *)
(* where it comes from:                                                    *)
(*   init, junk  its initializer, or none (an indeterminate value)         *)
(*   one, two    the first, the second document                            *)
(*   merged      the second document laid over or appended to the first    *)
(*   odd         a document, but not what that document meant              *)
(*   cut         the front part of a list                                  *)
(***************************************************************************)
EXTENDS Naturals, Sequences

CONSTANTS
  Classes,    \* the classes: kind per member, members without initializer, codec
  OneWay,     \* the names of those whose to_json leaves out what from_json reads
  HalfRead    \* and of those whose from_json leaves out what to_json writes

Scalars == {"text", "flag", "choice", "blob", "number"}
Lists == {"texts", "numbers", "pairs", "objects"}
Nested == {"object", "embedded"}
KindNames == Scalars \cup Lists \cup Nested \cup {"counts"}

Values == {"init", "junk", "one", "two", "merged", "odd", "cut"}
NoMember == ""

MembersOf(c) == DOMAIN c.kinds
Reads(c) == {c.reads[i] : i \in DOMAIN c.reads}
Writes(c) == {c.writes[i] : i \in DOMAIN c.writes}

ClassOK(c) ==
  /\ \A m \in MembersOf(c) : c.kinds[m] \in KindNames
  /\ Reads(c) \cup Writes(c) \cup c.raw \subseteq MembersOf(c)
  /\ \A m \in Reads(c) : c.kinds[m] # "counts"
  /\ c.reads \in Seq(MembersOf(c))
  /\ \A i, j \in DOMAIN c.reads : c.reads[i] = c.reads[j] => i = j
  /\ c.lenient \in BOOLEAN

ASSUME ClassesAssumption == \A c \in Classes : ClassOK(c)

VARIABLES
  cls,      \* the class of the object
  obj,      \* the value of each of its members
  read,     \* number of documents read into it
  doc,      \* the last of them: its member that deviates, and how
  result,   \* what from_json returned
  sent,     \* "no", "threw", or "yes" once to_json has written it
  out       \* the document written

objVars == <<cls, obj, read, doc, result, sent, out>>

-----------------------------------------------------------------------------
(* Documents: how a member of a kind may deviate.  A list that is partly   *)
(* good has an element that does not convert or is no object; an object in *)
(* it, or nested, may be one its own from_json refuses.  The members of an *)
(* embedded object are members of the document itself.                     *)

Wires(k) ==
  {"absent"}
  \cup (IF k = "embedded" THEN {} ELSE {"null", "wrong"})
  \cup (IF k \in Lists THEN {"partly"} ELSE {})
  \cup (IF k \in Nested \cup {"objects"} THEN {"refused"} ELSE {})

GoodDoc == [at |-> NoMember, wire |-> "good"]

Docs(c) ==
  {GoodDoc}
  \cup UNION {[at : {m}, wire : Wires(c.kinds[m])] : m \in Reads(c)}

WireOf(d, m) == IF m = d.at THEN d.wire ELSE "good"
Missing == {"absent", "null"}

-----------------------------------------------------------------------------
(* field_from_json, by the kind of the member.                             *)

\* The conversions that throw; a text, a flag and a choice take anything.
FieldThrows(k, w) ==
  \/ k \in {"number", "blob"} /\ w = "wrong"
  \/ k \in {"numbers", "pairs", "objects"} /\ w = "partly"

Version(n) == IF n = 1 THEN "one" ELSE "two"

\* A list of objects is appended to, a nested object read into as it stands.
LaidOver(old, n) == IF old \in {"init", "junk"} THEN Version(n) ELSE "merged"

ScalarFromJson(k, w, old, n) ==
  CASE w \in Missing -> old
    [] w = "good" -> Version(n)
    [] OTHER -> "odd"

\* Mutant: no list is cleared before it is read.
ListFromJsonAppending(k, w, old, n) ==
  CASE w \in Missing \cup {"wrong"} -> old
    [] w = "good" -> LaidOver(old, n)
    [] OTHER -> "odd"

ListFromJson(k, w, old, n) ==
  CASE w \in Missing \cup {"wrong"} -> old
    [] w = "good" -> IF k \in {"pairs", "objects"} THEN LaidOver(old, n) ELSE Version(n)
    [] OTHER -> "odd"

NestedFromJson(w, old, n) ==
  CASE w \in Missing \cup {"wrong"} -> old
    [] w = "good" -> LaidOver(old, n)
    [] OTHER -> "odd"

FieldFromJson(k, w, old, n) ==
  CASE k \in Scalars -> ScalarFromJson(k, w, old, n)
    [] k \in Lists -> ListFromJson(k, w, old, n)
    [] k \in Nested -> NestedFromJson(w, old, n)
    [] OTHER -> old

-----------------------------------------------------------------------------
(* from_json of a class: the members in order, until one throws.           *)

\* VenueList::from_json returns false where the others would skip a member.
StrictFails(c, m, w) == m \in c.strict /\ w # "good"

FailsAt(c, d, i) ==
  LET m == c.reads[i]
  IN FieldThrows(c.kinds[m], WireOf(d, m)) \/ StrictFails(c, m, WireOf(d, m))

Failures(c, d) == {i \in DOMAIN c.reads : FailsAt(c, d, i)}

MemberFromJson(c, d, m, old, n) ==
  LET w == WireOf(d, m) IN
  CASE m \in c.cleared /\ w = "absent" -> "init"
    [] m \in c.reset /\ w \in Missing -> "odd"
    [] m \in c.strict -> Version(n)
    [] OTHER -> FieldFromJson(c.kinds[m], w, old, n)

\* A conversion that throws has emptied or begun a list, nothing else.
FailedMember(c, m, w, old) ==
  IF c.kinds[m] \in Lists /\ w \in {"partly", "refused"} THEN "cut" ELSE old

\* Mutant: an exception ends the reading of one member, not of the object.
FilledRegardless(c, d, o, n) ==
  LET failures == Failures(c, d) IN
  [m \in MembersOf(c) |->
     IF \E i \in failures : c.reads[i] = m THEN FailedMember(c, m, WireOf(d, m), o[m])
     ELSE IF m \in Reads(c) THEN MemberFromJson(c, d, m, o[m], n) ELSE o[m]]

Filled(c, d, o, n) ==
  LET failures == Failures(c, d) IN
  [m \in MembersOf(c) |->
     IF \E i \in DOMAIN c.reads : c.reads[i] = m /\ \A j \in failures : i < j
     THEN MemberFromJson(c, d, m, o[m], n)
     ELSE IF \E i \in failures : c.reads[i] = m
     THEN FailedMember(c, m, WireOf(d, m), o[m])
     ELSE o[m]]

\* A new object: the initializers, and members that have none.
Fresh(c) ==
  [m \in MembersOf(c) |-> IF m \in c.raw THEN "junk" ELSE "init"]

-----------------------------------------------------------------------------
ObjInit ==
  /\ cls \in Classes
  /\ obj = Fresh(cls)
  /\ read = 0 /\ doc = GoodDoc /\ result = "none"
  /\ sent = "no" /\ out = <<>>

\* Firmware::from_json returns true after an exception too.
FromJson(d) ==
  /\ read < 2
  /\ sent = "no"
  /\ obj' = Filled(cls, d, obj, read + 1)
  /\ read' = read + 1
  /\ doc' = d
  /\ result' = IF Failures(cls, d) = {} \/ cls.lenient THEN "true" ELSE "false"
  /\ UNCHANGED <<cls, sent, out>>

\* field_to_json of each member that the class writes.
Json(c, o) == [m \in Writes(c) |-> o[m]]

\* EmbedDocument parses the text it embeds and throws when it is no object.
ToJson ==
  /\ sent = "no"
  /\ IF \E m \in cls.documents : obj[m] = "odd"
     THEN sent' = "threw" /\ out' = out
     ELSE sent' = "yes" /\ out' = Json(cls, obj)
  /\ UNCHANGED <<cls, obj, read, doc, result>>

ObjNext == (\E d \in Docs(cls) : FromJson(d)) \/ ToJson
ObjSpec == ObjInit /\ [][ObjNext]_objVars

-----------------------------------------------------------------------------
(* Properties.                                                             *)

\* One document was read, to the result "true", and the object written out.
Relayed == sent = "yes" /\ read = 1 /\ result = "true"

\* The result vouches for every member, but where from_json is lenient only
\* for those before the exception.
Vouched(c, d, m) ==
  c.lenient => \A i \in DOMAIN c.reads : c.reads[i] = m => \A j \in Failures(c, d) : i < j

\* A record that was read and is sent on has all that its document gave: no
\* member is read by from_json and forgotten by to_json, except in the
\* classes known for it, nor lost with a result of true, except after the
\* exception that Firmware::from_json swallows.
RelayKeepsAll ==
  Relayed /\ cls.name \notin OneWay =>
    \A m \in Reads(cls) :
      WireOf(doc, m) = "good" /\ Vouched(cls, doc, m) => m \in DOMAIN out /\ out[m] = "one"

\* What is sent on is what was received: a member is sent as its initializer
\* left it, or with an indeterminate value, only if the document gave none (or
\* Firmware::from_json had stopped before it).
NothingMadeUp ==
  Relayed /\ cls.name \notin HalfRead /\ cls.reads # <<>> =>
    \A m \in DOMAIN out :
      out[m] \in {"init", "junk"} /\ Vouched(cls, doc, m) =>
        WireOf(doc, m) \in {"absent", "null", "wrong"}

\* An object read into twice holds a mixture of the two documents only in
\* lists of objects and in nested objects, and something of the first one
\* only where the second gives no value of the member's type (or
\* Firmware::from_json had stopped before it).
SecondReadReplaces ==
  read = 2 /\ result = "true" =>
    \A m \in Reads(cls) : Vouched(cls, doc, m) =>
      /\ obj[m] = "merged" => cls.kinds[m] \in Nested \cup {"pairs", "objects"}
      /\ obj[m] = "one" => WireOf(doc, m) # "good"

\* What from_json leaves behind is a front part of the document, whatever it
\* returned: up to some member all is as the document gave it, that member is
\* the one that deviates, and everything after it is as the object was made.
\* It is the whole document if the result is true, except for
\* Firmware::from_json, and never the whole one if it is false.
ReadsFrontPart ==
  read = 1 =>
    \E k \in 1 .. Len(cls.reads) + 1 :
      /\ \A i \in DOMAIN cls.reads :
           LET m == cls.reads[i] IN
           /\ i < k /\ WireOf(doc, m) = "good" => obj[m] = "one"
           /\ i = k => WireOf(doc, m) # "good"
           /\ i > k => obj[m] = Fresh(cls)[m]
      /\ result = "true" /\ ~cls.lenient => k = Len(cls.reads) + 1
      /\ result = "false" => k # Len(cls.reads) + 1
=============================================================================
