------------------------------- MODULE TPEvent -------------------------------
(***************************************************************************)
(* An event from the properties the application gives to the ones that     *)
(* are stored and sent (TPEvent.m, NSDate+TP8601.m).  Values are trees of  *)
(* NSArray and NSDictionary over scalars.  The application may hand the    *)
(* properties of an event it gets back with the results of a push to       *)
(* addEvent again, so that an event may be processed more than once.       *)
(*                                                                         *)
(* What the code does by calling itself is written as a function on the    *)
(* depth of the trees: one call is an operator that is given the results   *)
(* of the calls on values one level down.                                  *)
(***************************************************************************)
EXTENDS Naturals, Sequences, FiniteSets, SequencesExt

CONSTANTS
  Strings,         \* NSString values
  Numbers,         \* NSNumber values JSON can express
  NotNumbers,      \* NSNumber values it cannot: NaN and the infinities
  Dates,           \* NSDate values
  Others,          \* values of any other class
  ISO8601,         \* the text of a date, to the second
  UUIDs,           \* strings NSUUID may draw
  Names,           \* property names
  ReservedNames,   \* names that contain "tp_" in some case
  OperatorNames,   \* names like "@user": "@" and no key of NSObject
  AnsweredNames,   \* names like "@count": "@" and a key of NSDictionary
  ListingNames,    \* of these, the ones answered with the values: "@allValues"
  Answer,          \* what the others are answered with, by the names present
  IdName, TimestampName,
  NoName,          \* a null or empty collection name
  Inputs,          \* the events the application may create
  MaxDepth         \* bound on how deep the properties go that are processed

Scalars == Strings \cup Numbers \cup NotNumbers \cup Dates \cup Others

Scalar(scalar)   == [class |-> "scalar", value |-> scalar]
Array(seq)       == [class |-> "array", value |-> seq]
Dictionary(f)    == [class |-> "dictionary", value |-> f]
NoValue          == [class |-> "nil"]

\* The values that are at most n levels deep.
Values[n \in Nat] ==
  LET below == Values[n-1]
  IN  [class : {"scalar"}, value : Scalars] \cup
        IF n = 0 THEN {}
        ELSE [class : {"array"}, value : Seq(below)]
               \cup [class : {"dictionary"}, value : [Names -> below \cup {NoValue}]]

Flat == {value \in Values[1] : value.class # "dictionary"}

ASSUME EventAssumption ==
  /\ Dates \cap (Strings \cup Numbers \cup NotNumbers \cup Others) = {}
  /\ ISO8601 \in [Dates -> Strings]
  /\ UUIDs \subseteq Strings
  /\ IsFiniteSet(Names)
  /\ ReservedNames \cup OperatorNames \cup AnsweredNames \subseteq Names
  /\ AnsweredNames \cap OperatorNames = {}
  /\ ListingNames \subseteq AnsweredNames
  /\ Answer \in [AnsweredNames \ ListingNames -> [SUBSET Names -> Flat \cup {NoValue}]]
  /\ {IdName, TimestampName} \subseteq Names \ (ReservedNames \cup OperatorNames \cup AnsweredNames)
  /\ MaxDepth \in Nat \ {0}
  /\ \A e \in Inputs : /\ DOMAIN e = {"collection", "properties"}
                        /\ e.properties \in Values[MaxDepth]
                        /\ e.properties.class = "dictionary"

VARIABLES
  given,    \* the event as the application created it
  event,    \* [collection, properties]
  outcome   \* what process: did: "none", "YES", "NO" or "exception"

vars == <<given, event, outcome>>

-----------------------------------------------------------------------------
Present(dictionary) == {name \in Names : dictionary.value[name] # NoValue}

allValues(dictionary) ==
  LET names == SetToSeq(Present(dictionary))
  IN  Array([i \in DOMAIN names |-> dictionary.value[names[i]]])

\* For a name that begins with "@" valueForKey: asks the dictionary, as an
\* object, for the rest of it.
valueForKey(dictionary, name) ==
  IF name \in ListingNames THEN allValues(dictionary)
  ELSE IF name \in AnsweredNames THEN Answer[name][Present(dictionary)]
  ELSE dictionary.value[name]

\* transformValue: of anything but a dictionary.  deeper is what it returns
\* for the values one level down.
transformFlat(value, deeper) ==
  IF value.class = "array"
    THEN Array([i \in DOMAIN value.value |-> deeper[value.value[i]]])
  ELSE IF value.class = "scalar" /\ value.value \in Dates
    THEN Scalar(ISO8601[value.value])
  ELSE value

\* Faulty: does not look into arrays.
transformValue_NoArrays(value, deeper) ==
  IF value.class = "array" THEN value
  ELSE IF value.class = "scalar" THEN transformFlat(value, deeper)
  ELSE Dictionary([name \in Names |->
         IF name \notin Present(value) THEN NoValue
         ELSE IF name \in AnsweredNames THEN valueForKey(value, name)
         ELSE deeper[valueForKey(value, name)]])

\* Faulty: drops dates from arrays.
transformValue_Drops(value, deeper) ==
  IF value.class = "array"
    THEN transformFlat(Array(SelectSeq(value.value, LAMBDA v : v.value \notin Dates)), deeper)
  ELSE IF value.class = "scalar" THEN transformFlat(value, deeper)
  ELSE Dictionary([name \in Names |->
         IF name \notin Present(value) THEN NoValue
         ELSE IF name \in AnsweredNames THEN transformFlat(valueForKey(value, name), deeper)
         ELSE deeper[valueForKey(value, name)]])

\* One call of transformValue:.  What a dictionary answers is itself an object
\* or an array of what is one level down.
transformValue(value, deeper) ==
  IF value.class = "dictionary"
    THEN Dictionary([name \in Names |->
           IF name \notin Present(value) THEN NoValue
           ELSE IF name \in AnsweredNames THEN transformFlat(valueForKey(value, name), deeper)
           ELSE deeper[valueForKey(value, name)]])
    ELSE transformFlat(value, deeper)

transformed[n \in Nat] ==
  [value \in Values[n] |-> transformValue(value, transformed[n-1])]

Elements(value) == IF value.class = "array" THEN Range(value.value) ELSE {}

\* The values one level down on which transformValue: calls itself.
Parts(value) ==
  IF value.class = "dictionary"
    THEN UNION {IF name \in AnsweredNames THEN Elements(valueForKey(value, name))
                                          ELSE {valueForKey(value, name)} : name \in Present(value)}
    ELSE Elements(value)

\* NSUnknownKeyException for a name NSObject has no key for.  ("@self", which
\* answers the dictionary itself, is one of these: the calls never end.)
raises[n \in Nat] ==
  [value \in Values[n] |->
     \/ value.class = "dictionary" /\ Present(value) \cap OperatorNames # {}
     \/ \E part \in Parts(value) : raises[n-1][part]]

\* Only the names at the top are looked at.
validate(e) ==
  /\ e.collection # NoName
  /\ Present(e.properties) # {}
  /\ Present(e.properties) \cap ReservedNames = {}

With(properties, name, value) ==
  IF name \in Present(properties)
    THEN properties
    ELSE Dictionary([properties.value EXCEPT ![name] = value])

\* Faulty: an id is drawn whether there is one or not.
addDefaultProperties_FreshId(properties, uuid, now) ==
  With(Dictionary([properties.value EXCEPT ![IdName] = Scalar(uuid)]), TimestampName, Scalar(now))

addDefaultProperties(properties, uuid, now) ==
  With(With(properties, IdName, Scalar(uuid)), TimestampName, Scalar(now))
-----------------------------------------------------------------------------
Init ==
  /\ given \in Inputs
  /\ event = given
  /\ outcome = "none"

Refuse ==
  /\ ~validate(event)
  /\ outcome' = "NO"
  /\ UNCHANGED event

\* The last two steps of process:.  The exception leaves the default
\* properties behind.
Process(uuid, now) ==
  /\ validate(event)
  /\ LET properties == addDefaultProperties(event.properties, uuid, now)
     IN  IF raises[MaxDepth][properties]
           THEN /\ event' = [event EXCEPT !.properties = properties]
                /\ outcome' = "exception"
           ELSE /\ event' = [event EXCEPT !.properties = transformed[MaxDepth][properties]]
                /\ outcome' = "YES"

process ==
  /\ Refuse \/ \E uuid \in UUIDs, now \in Dates : Process(uuid, now)
  /\ UNCHANGED given

\* Processed for the first time, or handed back after a push.
Next ==
  /\ outcome \in {"none", "YES"}
  /\ event.properties \in Values[MaxDepth]
  /\ process

Spec == Init /\ [][Next]_vars
-----------------------------------------------------------------------------
Under(step, below) == {<<<<step>> \o leaf[1], leaf[2]>> : leaf \in below}

Steps(value) == IF value.class = "array" THEN DOMAIN value.value ELSE Present(value)

\* The scalars of a value, each with the way that leads to it.
leaves[n \in Nat] ==
  [value \in Values[n] |->
     IF value.class = "scalar"
       THEN {<<<<>>, value.value>>}
       ELSE UNION {Under(step, leaves[n-1][value.value[step]]) : step \in Steps(value)}]

\* Processing may double the depth of what stands under "@allValues".
Leaves(value) == leaves[2 * MaxDepth][value]

ScalarsOf(value) == {leaf[2] : leaf \in Leaves(value)}

\* The scalars that come with the answers to names such as "@class".
AnsweredScalars ==
  LET answers == {Answer[name][names] : name \in AnsweredNames \ ListingNames, names \in SUBSET Names}
  IN  UNION {ScalarsOf(answer) : answer \in answers \ {NoValue}}

\* "If -process: has been called these will be ready for serialization"
\* (TPEvent.h:43): the values of an event that process: accepted are ones that
\* JSON can express, at any depth, but for those the application gave, or a
\* name such as "@class" was answered with, that are neither dates nor
\* expressible: process: lets these through.
ReadyForSerialization ==
  outcome = "YES" =>
    ScalarsOf(event.properties) \subseteq
      Strings \cup Numbers
        \cup ((ScalarsOf(given.properties) \cup AnsweredScalars) \cap (NotNumbers \cup Others))

\* The ones no name on the way to which is answered for.
Own(ls) == {leaf \in ls : Range(leaf[1]) \cap AnsweredNames = {}}

OwnLeaves(value) == Own(Leaves(value))

AsText(scalar) == IF scalar \in Dates THEN ISO8601[scalar] ELSE scalar

Text(ls) == {<<leaf[1], AsText(leaf[2])>> : leaf \in ls}

\* What the application gave is what is stored: each scalar is still where it
\* was, dates as text, and besides there are at most an id and a timestamp.
\* Only what stands under a name such as "@count" is replaced, and the damage
\* goes no further than that name (TPEvent.m:142).
NothingElseChanges ==
  outcome = "YES" =>
    LET before == Text(OwnLeaves(given.properties))
        after  == OwnLeaves(event.properties)
    IN  /\ before \subseteq after
        /\ \A leaf \in after \ before :
             \E name \in {IdName, TimestampName} \ Present(given.properties) : leaf[1] = <<name>>

\* An event that was processed keeps its id, its time and everything else when
\* it is processed again, so that Connect can tell a repeated event; but for
\* what stands under names such as "@allValues", which are asked again.
ProcessedOnce ==
  [][outcome = "YES" =>
       /\ outcome' = "YES"
       /\ OwnLeaves(event'.properties) = OwnLeaves(event.properties)]_vars
=============================================================================
