------------------------------ MODULE DataIndex ------------------------------
(***************************************************************************)
(* A program that uses a VRDataIndex: it adds values and containers, sets  *)
(* attributes, links nodes, assigns a copy of the index to it and has it   *)
(* go through XML, in any order.  The operations are in DataIndexOps; here *)
(* they are calls, so that scripts can be made of them.                    *)
(***************************************************************************)
EXTENDS DataIndexOps
LOCAL INSTANCE SequencesExt

CONSTANTS
    Start,          \* an index
    Calls,          \* what the program may call
    MaxCalls,       \* bound on the calls
    Restrictions    \* what it keeps to: "inContainers", "addFirst", "linkOnce"

ASSUME DataIndexAssumption ==
    /\ MaxCalls \in Nat /\ Restrictions \subseteq {"inContainers", "addFirst", "linkOnce"}
    /\ \A i, j \in DOMAIN Alphabet : Alphabet[i] = Alphabet[j] => i = j

VARIABLES index, called

vars == <<index, called>>

-----------------------------------------------------------------------------
(* Calls.                                                                  *)

AddDataCall(path, type, value) == [op |-> "addData", path |-> path, type |-> type, value |-> value]
AddTextCall(path, text)     == [op |-> "addText", path |-> path, text |-> text]
AddContainerCall(path, names) == [op |-> "addContainer", path |-> path, names |-> names]
SetAttributeCall(path, attr, value) ==
    [op |-> "setAttributeValue", path |-> path, attr |-> attr, value |-> value]
LinkCall(source, target) == [op |-> "linkNode", source |-> source, target |-> target]
XMLCall(document, ns)    == [op |-> "addSerializedValue", document |-> document, path |-> ns]
ConstructorCall(document) == [op |-> "construct", document |-> document]
OverwriteCall(how) == [op |-> "setOverwrite", how |-> how]
CopyCall      == [op |-> "copy"]
ThroughXMLCall == [op |-> "throughXML"]

ThroughXML(ix) == NewIndex(Parse(Written(Serialize(ix))))

Perform(ix, c) ==
    CASE c.op = "addData"      -> AddValue(ix, c.path, c.type, c.value)
      [] c.op = "addText"      -> AddKeyAndValue(ix, c.path, c.text)
      [] c.op = "addContainer" -> AddContainer(ix, c.path, c.names)
      [] c.op = "setAttributeValue"  -> SetAttributeValue(ix, c.path, c.attr, c.value)
      [] c.op = "linkNode"           -> LinkNode(ix, c.source, c.target)
      [] c.op = "addSerializedValue" -> AddSerializedValue(ix, c.document, c.path)
      [] c.op = "setOverwrite"       -> SetOverwrite(ix, c.how)
      [] c.op = "copy"               -> Copy(ix)
      [] c.op = "throughXML"         -> ThroughXML(ix)
      [] c.op = "construct"          -> NewIndex(c.document)

Names == DOMAIN index.entries
Shared(n) == \E m \in Names \ {n} : index.entries[m] = index.entries[n]
Linked == DOMAIN index.links \cup {index.links[s] : s \in DOMAIN index.links}

Adding == {"addData", "addText", "addContainer"}

\* "inContainers": nothing is added under the name of a value.
\* "addFirst": nothing is added in a container that has two names.
\* "linkOnce": a link is made between nodes that are not part of another link, and
\* lie in nothing that is; its target is listed in its container and holds nothing,
\* or is a name at the top.
Allowed(c) ==
    /\ ("inContainers" \in Restrictions /\ c.op \in Adding)
       => \A n \in Names : Descends(n, c.path) /\ n # c.path => DatumOf(index, n).type = "container"
    /\ ("addFirst" \in Restrictions /\ c.op \in Adding)
       => \A n \in Names : Descends(n, c.path) => ~Shared(n)
    /\ ("linkOnce" \in Restrictions /\ c.op = "linkNode")
       => /\ ~Descends(c.source, c.target) /\ ~Descends(c.target, c.source)
          /\ ~\E n \in Linked, m \in {c.source, c.target} : Descends(n, m) \/ Descends(m, n)
          /\ IF c.target \in Names THEN DatumOf(index, c.target).names = <<>>
             ELSE Len(c.target) = 1
    /\ c.op = "throughXML" => SerializableWhole(index)

\* After an exception the program goes on with the index as it is.
Call(c) ==
    /\ called < MaxCalls /\ Allowed(c)
    /\ index' = [Perform([index EXCEPT !.failed = FALSE], c) EXCEPT !.failed = FALSE]
    /\ called' = called + 1

Init == index = Start /\ called = 0
Next == \E c \in Calls : Call(c)
Spec == Init /\ [][Next]_vars

-----------------------------------------------------------------------------
TypeOK ==
    /\ Names \subseteq Seq({Alphabet[i] : i \in DOMAIN Alphabet})
    /\ \A n \in Names : index.entries[n] \in DOMAIN index.data
    /\ \A d \in DOMAIN index.data : index.data[d].type \in Types
    /\ called \in 0..MaxCalls

\* A name without a slash means, wherever it is used, the datum of that name in the
\* innermost enclosing name space (VRDataIndex.h: "the most local version of key").
LookUpInnermost ==
    LET around(ns, p) == {k \in 0..Len(ns) : Has(index, SubSeq(ns, 1, k) \o <<p>>)} IN
    \A ns \in Names, i \in DOMAIN Alphabet :
        GetFullKey(index, Relative(<<Alphabet[i]>>), ns) =
            IF around(ns, Alphabet[i]) = {} THEN NoEntry
            ELSE SubSeq(ns, 1, CHOOSE k \in around(ns, Alphabet[i]) :
                                   \A j \in around(ns, Alphabet[i]) : j <= k) \o <<Alphabet[i]>>

\* As many references as names: no datum is leaked, none is freed while in use.
ReferencesCounted ==
    /\ DOMAIN index.data = {index.entries[n] : n \in Names}
    /\ \A d \in DOMAIN index.data :
          index.data[d].refs = Cardinality({n \in Names : index.entries[n] = d})

\* What a container lists is there; what is in it is listed, once.  Otherwise the
\* index cannot be serialized, or is serialized without some of its data.
ContainersComplete ==
    \A n \in Names :
        /\ DatumOf(index, n).type = "container" =>
              LET names == DatumOf(index, n).names IN
              /\ \A i \in DOMAIN names : Append(n, names[i]) \in Names
              /\ \A i, j \in DOMAIN names : names[i] = names[j] => i = j
        /\ Len(n) > 1 =>
              /\ Front(n) \in Names /\ DatumOf(index, Front(n)).type = "container"
              /\ \E i \in DOMAIN DatumOf(index, Front(n)).names :
                    DatumOf(index, Front(n)).names[i] = Last(n)

\* A copy has the same names, values and attributes, and two names of one datum in
\* the index are two names of one datum in the copy, and in a copy of the copy.
SameContents(a, b) ==
    /\ DOMAIN a.entries = DOMAIN b.entries
    /\ \A n \in DOMAIN a.entries : [DatumOf(a, n) EXCEPT !.refs = 0] = [DatumOf(b, n) EXCEPT !.refs = 0]
SameSharing(a, b) ==
    \A n, m \in DOMAIN a.entries : (a.entries[n] = a.entries[m]) <=> (b.entries[n] = b.entries[m])
CopyFaithful ==
    LET copy == Copy(index) IN
    /\ ~copy.failed /\ SameContents(index, copy) /\ SameSharing(index, copy)
    /\ Copy(copy).links = index.links

\* What is written as XML is read again with the same names, types, values and
\* attributes, as an event is that goes to the nodes of a cluster.
RoundTrip ==
    SerializableWhole(index) => LET read == ThroughXML(index) IN
                                ~read.failed /\ SameContents(index, read)
=============================================================================
