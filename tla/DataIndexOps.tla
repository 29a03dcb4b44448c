---------------------------- MODULE DataIndexOps ----------------------------
(***************************************************************************)
(* The operations of VRDataIndex, VRDatum and VRDatumPtr as operators on   *)
(* the contents of an index, a record with the fields                      *)
(*    name, entries   _indexName; _theIndex, from names to data            *)
(*    data            what the smart pointers point to, with their counts  *)
(*    links           _linkRegister                                        *)
(*    overwrite, linkNeeded                                                *)
(*    failed          an exception was thrown, or the program crashed      *)
(* A full name is the sequence of its parts, the root is <<>>.  A key is a *)
(* name and whether it begins with a slash.                                *)
(*                                                                         *)
(* Text is the sequence of its pieces between separators, each an element  *)
(* of the Lexicon or a plain word.  A value is a sequence of elements, each*)
(* a text of its own: one element, except for arrays.  A container has a   *)
(* list of names instead.  pushState and popState are in IndexState.       *)
(***************************************************************************)
EXTENDS Integers, Sequences, FiniteSets
LOCAL INSTANCE SequencesExt
LOCAL INSTANCE FiniteSetsExt
LOCAL INSTANCE TLC

CONSTANTS
    Alphabet,       \* the parts of names, in the order of std::string
    BeginsWith,     \* pairs of them: the first begins with the second, and is longer
    Lexicon         \* of pieces that are not plain words: how they read and print

Root == <<>>
Full(path) == [full |-> TRUE, path |-> path]
Relative(path) == [full |-> FALSE, path |-> path]

\* A loop that carries a state through a list.
Each(Step(_, _), start, list) ==
    FoldLeft(LAMBDA s, e : CHOOSE t \in {Step(u, e) : u \in {s}} : TRUE, start, list)

\* The order of the keys of std::map.
Rank(part) == CHOOSE i \in DOMAIN Alphabet : Alphabet[i] = part
Before(p, q) ==
    \E i \in 1..Len(q) :
        /\ i <= Len(p) + 1 /\ SubSeq(p, 1, i - 1) = SubSeq(q, 1, i - 1)
        /\ i = Len(p) + 1 \/ Rank(p[i]) < Rank(q[i])
Sorted(names) == SortSeq(FoldSet(LAMBDA n, list : Append(list, n), <<>>, names), Before)

Failing(ix) == [ix EXCEPT !.failed = TRUE]

-----------------------------------------------------------------------------
(* Cxml, the parser of src/config/Cxml.  Its input is a sequence of tokens: *)
(* a tag that opens an element or stands for a whole one, a processing      *)
(* instruction, a tag that closes one, and text.  Comments, line ends and   *)
(* tabs are dropped wherever they are; CDATA sections are not modelled.     *)

\* What the parser makes of an element, and the index writes.  A text that is empty
\* or blank is <<>>.
Element(name, type, attrs, text, children) ==
    [name |-> name, type |-> type, attrs |-> attrs, text |-> text, children |-> children]
NoAttributes == [a \in {} |-> ""]
NoType == ""

OpenTag(name, type, attrs)   == [kind |-> "open", name |-> name, type |-> type, attrs |-> attrs]
SingleTag(name, type, attrs) == [kind |-> "single", name |-> name, type |-> type, attrs |-> attrs]
CloseTag   == [kind |-> "close"]
Text(text) == [kind |-> "text", text |-> text]

(* The parser has a stack of open elements, the first of them XML_DOC.     *)

AddChild(stack, child) ==
    [stack EXCEPT ![Len(stack)].children = Append(@, child)]

\* A tag opens an element within the one that is open ...
ReadOpen(stack, token) ==
    Append(stack, Element(token.name, token.type, token.attrs, <<>>, <<>>))

\* ... and any closing tag closes the last one, whatever its name.
\* (Faulty: what was read in it is dropped.)
DropChildren(stack) ==
    AddChild(Front(stack), [Last(stack) EXCEPT !.children = <<>>])
ReadClose(stack) == AddChild(Front(stack), Last(stack))

\* An element has one text: the last run that is not empty, a blank one included.
ReadText(stack, text) == [stack EXCEPT ![Len(stack)].text = text]

Read1(stack, token) ==
    CASE token.kind = "open"   -> ReadOpen(stack, token)
      [] token.kind = "single" -> ReadClose(ReadOpen(stack, token))
      [] token.kind = "close"  -> ReadClose(stack)
      [] token.kind = "text"   -> ReadText(stack, token.text)
      [] token.kind = "comment" -> stack

\* get_node: the top-level elements.  Those left open at the end are as good as closed.
Parse(tokens) ==
    LET read  == FoldLeft(Read1, <<Element("XML_DOC", NoType, NoAttributes, <<>>, <<>>)>>, tokens)
        close[n \in 1..Len(read)] == IF n = Len(read) THEN read[n]
                                     ELSE [read[n] EXCEPT !.children = Append(@, close[n + 1])]
    IN  close[1].children

\* How an index writes an element: a container without names is a single tag, and
\* so read as one without text.
RECURSIVE Written(_)
Written(node) ==
    IF node.type = "container" /\ node.children = <<>>
    THEN <<SingleTag(node.name, node.type, node.attrs)>>
    ELSE <<OpenTag(node.name, node.type, node.attrs)>>
         \o (IF node.text = <<>> THEN <<>> ELSE <<Text(node.text)>>)
         \o FlattenSeq([i \in DOMAIN node.children |-> Written(node.children[i])])
         \o <<CloseTag>>

-----------------------------------------------------------------------------
(* Text and values.                                                        *)

PlainWord(piece) == [kind |-> "word", int |-> "0", float |-> "0.", printed |-> piece,
                     escapes |-> FALSE, body |-> piece]
Read(piece) == IF piece \in DOMAIN Lexicon THEN Lexicon[piece] ELSE PlainWord(piece)

Types == {"int", "float", "string", "intarray", "floatarray", "stringarray", "container"}

\* A value without a type: numbers first, then arrays by their first number.
InferType(text) ==
    LET first == Read(text[1]).kind IN
    CASE first = "int"   -> IF Len(text) = 1 THEN "int" ELSE "intarray"
      [] first = "float" -> IF Len(text) = 1 THEN "float" ELSE "floatarray"
      [] OTHER           -> "string"

\* A separator after a backslash does not separate.
DeserializeStringArray(text) ==
    LET step(s, piece) ==
            IF Read(piece).escapes
            THEN [s EXCEPT !.part = Append(@, Read(piece).body)]
            ELSE [whole |-> Append(s.whole, Append(s.part, piece)), part |-> <<>>]
    IN  FoldLeft(step, [whole |-> <<>>, part |-> <<>>], text).whole

Deserialize(type, text) ==
    CASE type = "int"         -> <<<<Read(text[1]).int>>>>
      [] type = "float"       -> <<<<Read(text[1]).float>>>>
      [] type = "string"      -> <<text>>
      [] type = "intarray"    -> [i \in DOMAIN text |-> <<Read(text[i]).int>>]
      [] type = "floatarray"  -> [i \in DOMAIN text |-> <<Read(text[i]).float>>]
      [] type = "stringarray" -> DeserializeStringArray(text)

\* Separators are written between the elements, and not escaped in them; of a
\* float six decimals are printed.
ValueString(datum) ==
    LET text == FlattenSeq(datum.value)
    IN  IF datum.type \in {"float", "floatarray"}
        THEN [i \in DOMAIN text |-> Read(text[i]).printed] ELSE text

\* What a datum is had as.
Converted(datum, type) ==
    IF type = datum.type THEN datum.value
    ELSE CASE type = "string"     -> <<ValueString(datum)>>
           [] type = "float"      -> <<<<Read(datum.value[1][1]).float>>>>
           [] type = "int"        -> <<<<Read(datum.value[1][1]).int>>>>
           [] OTHER               -> datum.value

-----------------------------------------------------------------------------
(* Data, and the pointers that count their references.                     *)

NewDatum(type, value, names) ==
    [type |-> type, value |-> value, names |-> names, attrs |-> [a \in {} |-> ""], refs |-> 1]

NewId(data) == CHOOSE d \in 1..(Cardinality(DOMAIN data) + 1) : d \notin DOMAIN data

AddRef(data, d)  == [data EXCEPT ![d].refs = @ + 1]
\* (Faulty: deleted at once.)
Delete(data, d) == [e \in DOMAIN data \ {d} |-> data[e]]
Release(data, d) ==
    IF data[d].refs = 1 THEN [e \in DOMAIN data \ {d} |-> data[e]]
    ELSE [data EXCEPT ![d].refs = @ - 1]

\* A new datum under a new name.
InsertNew(ix, name, datum) ==
    LET d == NewId(ix.data) IN
    [ix EXCEPT !.entries = [n \in DOMAIN @ \cup {name} |-> IF n = name THEN d ELSE @[n]],
               !.data = [e \in DOMAIN @ \cup {d} |-> IF e = d THEN datum ELSE @[e]]]

\* A name, new or in use, made to point to the datum of another.
\* (Faulty: the datum pointed to before is kept.)
PointWithoutRelease(ix, name, d) ==
    [ix EXCEPT !.entries = [n \in DOMAIN @ \cup {name} |-> IF n = name THEN d ELSE @[n]],
               !.data = AddRef(@, d)]
Point(ix, name, d) ==
    [ix EXCEPT !.entries = [n \in DOMAIN @ \cup {name} |-> IF n = name THEN d ELSE @[n]],
               !.data = IF name \in DOMAIN ix.entries
                        THEN Release(AddRef(@, d), ix.entries[name]) ELSE AddRef(@, d)]

Erase(ix, name) ==
    [ix EXCEPT !.entries = [n \in DOMAIN @ \ {name} |-> @[n]],
               !.data = Release(@, ix.entries[name])]

DatumOf(ix, name) == ix.data[ix.entries[name]]

\* VRDatumContainer::addToValue: names that are there already are left out.
AddToValue(datum, new) ==
    [datum EXCEPT !.names = @ \o SelectSeq(new, LAMBDA n : ~Contains(datum.names, n))]

Empty(name) ==
    [name |-> name, entries |-> [n \in {} |-> 0], data |-> [d \in {} |-> 0],
     links |-> [n \in {} |-> <<>>], overwrite |-> 1, linkNeeded |-> FALSE, failed |-> FALSE]

-----------------------------------------------------------------------------
(* Looking up.                                                             *)

Has(ix, name) == name \in DOMAIN ix.entries
NoEntry == Root

\* A name space is the root or any name of the index; otherwise it throws.
ValidNameSpace(ix, ns) == ns = Root \/ Has(ix, ns)

\* _getEntry: a full key as it is; another one in the name space, and then, if
\* it may be inherited, in one enclosing name space after the other.
\* (Faulty: outer name spaces first.)
SearchDown(ix, key, ns) ==
    LET search[n \in 0..(Len(ns) + 1)] ==
            IF n > Len(ns) THEN NoEntry
            ELSE IF Has(ix, SubSeq(ns, 1, n) \o key) THEN SubSeq(ns, 1, n) \o key
            ELSE search[n + 1]
    IN  search[0]
Search(ix, key, ns) ==
    LET search[n \in 0..(Len(ns) + 1)] ==
            LET testSpace == SubSeq(ns, 1, n - 1) IN
            IF n = 0 THEN NoEntry
            ELSE IF Has(ix, testSpace \o key) THEN testSpace \o key
            ELSE search[n - 1]
    IN  search[Len(ns) + 1]
GetEntry(ix, key, ns, inherit) ==
    LET exactly(name) == IF Has(ix, name) THEN name ELSE NoEntry IN
    IF key.full THEN exactly(key.path)
    ELSE IF ns = Root \/ ~inherit THEN exactly(ns \o key.path)
    ELSE Search(ix, key.path, ns)

Exists(ix, key, ns, inherit) == GetEntry(ix, key, ns, inherit) # NoEntry
\* Undefined, as the code throws, if there is no such name.
GetFullKey(ix, key, ns) == GetEntry(ix, key, ns, TRUE)
GetDatum(ix, key, ns)   == DatumOf(ix, GetFullKey(ix, key, ns))
GetType(ix, key, ns)    == GetDatum(ix, key, ns).type
GetValue(ix, key, ns)   == GetDatum(ix, key, ns).value
GetValueWithDefault(ix, key, default, ns) ==
    IF Exists(ix, key, ns, TRUE) THEN GetValue(ix, key, ns) ELSE default

\* 0: the same, 1: a child, 2: a grandchild ..., -1: none of them.  Names are
\* compared as strings: "/a/x" counts as lying in "/a" and "/ab" as equal to it.
Descends(parent, child) ==
    Len(parent) <= Len(child) /\ SubSeq(child, 1, Len(parent)) = parent
IsChild(parent, child) ==
    LET k == Len(parent) IN
    IF k = 0 THEN Len(child)
    ELSE IF /\ k <= Len(child) /\ SubSeq(child, 1, k - 1) = SubSeq(parent, 1, k - 1)
            /\ child[k] = parent[k] \/ <<child[k], parent[k]>> \in BeginsWith
         THEN Len(child) - k ELSE -1

FindAllNames(ix) == Sorted(DOMAIN ix.entries)

HasAttr(datum, attr, value) ==
    attr \in DOMAIN datum.attrs /\ (value = "*" \/ datum.attrs[attr] = value)

InScope(ns, name, childOnly) ==
    IF childOnly THEN IsChild(ns, name) = 1 ELSE IsChild(ns, name) >= 1
SelectByAttribute(ix, attr, value, ns, childOnly) ==
    SelectSeq(FindAllNames(ix), LAMBDA n : /\ InScope(ns, n, childOnly)
                                           /\ HasAttr(DatumOf(ix, n), attr, value))
SelectByType(ix, type, ns, childOnly) ==
    SelectSeq(FindAllNames(ix), LAMBDA n : /\ DatumOf(ix, n).type = type
                                           /\ InScope(ns, n, childOnly))

\* The first one found in the innermost enclosing name space that has one.
GetByAttribute(ix, attr, value, ns) ==
    LET step(best, n) ==
            IF /\ Descends(Front(n), ns)
               /\ best = NoEntry \/ Len(n) > Len(best)
               /\ HasAttr(DatumOf(ix, n), attr, value)
            THEN n ELSE best
    IN  Each(step, NoEntry, FindAllNames(ix))

\* A pattern is a key with wild cards.  One that begins with a slash is matched
\* from the start; another one once, from the first part that it matches.
SelectByKey(ix, pattern) ==
    LET matches(part, p) == part = "*" \/ part = p
        p == pattern.path
        from(n, k) == /\ Len(p) <= Len(n) - k
                      /\ \A i \in DOMAIN p : matches(p[i], n[i + k])
        starts(n) == {k \in 0..(Len(n) - 1) : matches(p[1], n[k + 1])}
    IN  SelectSeq(FindAllNames(ix), LAMBDA n :
            IF pattern.full THEN from(n, 0)
            ELSE starts(n) # {} /\ from(n, Min(starts(n))))

\* getName and the names under an item, each with how deep it lies.  Names are
\* compared with the item part by part, as far as both go.
PrintStructure(ix, item) ==
    LET agrees(n) == \A i \in 1..Min({Len(n), Len(item)}) : n[i] = item[i]
        line(n) == [depth |-> Len(n), name |-> Last(n), attrs |-> DatumOf(ix, n).attrs,
                    text |-> IF DatumOf(ix, n).type = "container" THEN <<>>
                             ELSE ValueString(DatumOf(ix, n))]
        shown == SelectSeq(FindAllNames(ix), agrees)
    IN  [title |-> IF item = Root THEN ix.name ELSE "",
         lines |-> [i \in DOMAIN shown |-> line(shown[i])]]

-----------------------------------------------------------------------------
(* Changing the index.                                                     *)

\* Puts names in a container; a new one is made and put in its own container.
\* Nothing is taken back when one of the containers is something else.
RECURSIVE AddContainer(_, _, _)
AddContainer(ix, path, names) ==
    IF ix.failed \/ path = Root THEN Failing(ix)
    ELSE IF ~Has(ix, path)
    THEN LET added == InsertNew(ix, path, NewDatum("container", <<>>, names)) IN
         IF Len(path) = 1 THEN added
         ELSE AddContainer(added, Front(path), <<Last(path)>>)
    ELSE IF DatumOf(ix, path).type = "container"
    THEN [ix EXCEPT !.data[ix.entries[path]] = AddToValue(@, names)]
    ELSE Failing(ix)

SetValue(ix, path, type, value) ==
    IF DatumOf(ix, path).type = type
    THEN [ix EXCEPT !.data[ix.entries[path]].value = value] ELSE Failing(ix)

\* addDataSpecialized: a new datum is listed in its container, an existing one is
\* dealt with as setOverwrite says.
\* (Faulty: not listed in the container.)
AddUnlisted(ix, path, type, value) ==
    IF ix.failed THEN ix
    ELSE IF ~Has(ix, path) THEN InsertNew(ix, path, NewDatum(type, value, <<>>))
    ELSE SetValue(ix, path, type, value)
AddValue(ix, path, type, value) ==
    IF ix.failed THEN ix
    ELSE IF ~Has(ix, path)
    THEN LET added == InsertNew(ix, path, NewDatum(type, value, <<>>)) IN
         IF Len(path) = 1 THEN added
         ELSE AddContainer(added, Front(path), <<Last(path)>>)
    ELSE CASE ix.overwrite > 0 -> SetValue(ix, path, type, value)
           [] ix.overwrite = 0 -> Failing(ix)
           [] OTHER            -> ix

\* _processValue
AddText(ix, path, type, text) ==
    IF type = "none" THEN ix
    ELSE IF type = "container" THEN AddContainer(ix, path, <<>>)
    ELSE AddValue(ix, path, type, Deserialize(type, text))

\* addData("key=value"): the type is the one it has, or inferred.
AddKeyAndValue(ix, path, text) ==
    AddText(ix, path, IF Has(ix, path) THEN DatumOf(ix, path).type ELSE InferType(text), text)

SetOverwrite(ix, overwrite) == [ix EXCEPT !.overwrite = overwrite]

SetAttributeList(ix, path, attrs) == [ix EXCEPT !.data[ix.entries[path]].attrs = attrs]
SetAttributeValue(ix, path, attr, value) ==
    IF ~Has(ix, path) THEN Failing(ix)
    ELSE LET old == DatumOf(ix, path).attrs IN
         SetAttributeList(ix, path, [a \in DOMAIN old \cup {attr} |->
                                        IF a = attr THEN value ELSE old[a]])

-----------------------------------------------------------------------------
(* Links: several names for one datum.                                     *)

DepthLimit == 7

\* linkNode, and with a container everything in it.  The register has the last
\* target of each source.
RECURSIVE LinkTo(_, _, _, _)
LinkTo(ix, source, target, depth) ==
    IF ix.failed \/ depth > DepthLimit \/ ~Has(ix, source) THEN Failing(ix)
    ELSE LET node   == DatumOf(ix, source)
             linked == Point(ix, target, ix.entries[source])
             noted  == [linked EXCEPT !.links = [s \in DOMAIN @ \cup {source} |->
                                        IF s = source THEN target ELSE @[s]]]
             child(i, part) == LinkTo(i, Append(source, part), Append(target, part), depth + 1)
         IN  IF "linkContent" \in DOMAIN node.attrs THEN Failing(linked)
             ELSE IF node.type = "container" THEN Each(child, noted, node.names) ELSE noted
LinkNode(ix, source, target) == LinkTo(ix, source, target, 0)

\* A name that links have made another's: the attribute that had it in the list
\* is gone, and the program reads past the end of the map.
AttributeOf(ix, name, attr) ==
    IF Has(ix, name) /\ attr \in DOMAIN DatumOf(ix, name).attrs
    THEN DatumOf(ix, name).attrs[attr] ELSE Relative(Root)

\* Every name with a linkNode attribute becomes a name of the node it gives.
LinkNodes(ix) ==
    LET link(i, n) ==
            LET key == AttributeOf(i, n, "linkNode")
                source == GetEntry(i, key, Front(n), TRUE)
            IN  IF i.failed \/ key.path = Root \/ source = NoEntry THEN Failing(i)
                ELSE LinkNode(i, source, n)
    IN  Each(link, ix, SelectByAttribute(ix, "linkNode", "*", Root, FALSE))

\* Every name with a linkContent attribute gives way to the names in the container
\* it gives, before those that stand beside it.
ContentOf(ix, n) == GetEntry(ix, AttributeOf(ix, n, "linkContent"), Front(n), TRUE)
PutContent(ix, n, source) ==
    LET put(j, part) == LinkNode(j, Append(source, part), Append(Front(n), part))
    IN  Each(put, ix, DatumOf(ix, source).names)
ListContent(ix, n, names) ==
    IF ix.failed \/ Len(n) = 1 THEN ix
    ELSE [ix EXCEPT !.data[ix.entries[Front(n)]].names = names \o SelectSeq(@, LAMBDA p : p # Last(n))]
LinkOne(ix, n) ==
    LET key == AttributeOf(ix, n, "linkContent") IN
    IF \/ ix.failed \/ key.path = Root \/ ~Exists(ix, key, Root, TRUE)
       \/ \E source \in {ContentOf(ix, n)} : DatumOf(ix, source).type # "container"
    THEN Failing(ix)
    ELSE CHOOSE i \in { Erase(ListContent(PutContent(ix, n, source), n, DatumOf(ix, source).names), n) :
                            source \in {ContentOf(ix, n)} } : TRUE
LinkContent(ix) ==
    Each(LinkOne, ix, SelectByAttribute(ix, "linkContent", "*", Root, FALSE))

ResolveLinks(ix) ==
    IF ix.linkNeeded /\ ~ix.failed
    THEN [LinkContent(LinkNodes(ix)) EXCEPT !.linkNeeded = FALSE]
    ELSE ix

\* The copy constructor: the data cloned name by name, then linked again.
\* (Faulty: without the links.)
Cloned(ix) ==
    LET names == FindAllNames(ix)
        place == [n \in DOMAIN ix.entries |-> CHOOSE i \in DOMAIN names : names[i] = n]
    IN  [ix EXCEPT !.entries = place, !.links = [s \in {} |-> <<>>],
                   !.data = [i \in DOMAIN names |-> [DatumOf(ix, names[i]) EXCEPT !.refs = 1]]]
Copy(ix) ==
    LET relink(i, s) == LinkNode(i, s, ix.links[s])
    IN  Each(relink, Cloned(ix), Sorted(DOMAIN ix.links))

-----------------------------------------------------------------------------
(* XML.                                                                    *)

\* _serialize: a container has its children written by the names it lists; one
\* that is missing throws.
RECURSIVE Serialized(_, _)
Serialized(ix, path) ==
    LET node == DatumOf(ix, path) IN
    IF node.type # "container"
    THEN Element(Last(path), node.type, node.attrs, ValueString(node), <<>>)
    ELSE Element(Last(path), node.type, node.attrs, <<>>,
                 [i \in DOMAIN node.names |-> Serialized(ix, Append(path, node.names[i]))])

\* Whether it throws.
RECURSIVE Serializable(_, _)
Serializable(ix, path) ==
    /\ Has(ix, path)
    /\ DatumOf(ix, path).type = "container" =>
          \A i \in DOMAIN DatumOf(ix, path).names :
              Serializable(ix, Append(path, DatumOf(ix, path).names[i]))

Serialize(ix) ==
    LET top == SelectSeq(FindAllNames(ix), LAMBDA n : Len(n) = 1) IN
    Element(ix.name, "container", NoAttributes, <<>>,
            [i \in DOMAIN top |-> Serialized(ix, top[i])])
SerializableWhole(ix) == \A n \in DOMAIN ix.entries : Len(n) = 1 => Serializable(ix, n)

\* _walkXML: the type given, or a container if there is no text, or inferred; then
\* the value, the attributes and the children.
TypeOfElement(node) ==
    IF node.text = <<>> THEN "container"
    ELSE IF node.type # NoType THEN node.type
    ELSE IF node.children # <<>> THEN "container" ELSE InferType(node.text)

NoteLink(ix, attrs) ==
    [ix EXCEPT !.linkNeeded = @ \/ {"linkNode", "linkContent"} \cap DOMAIN attrs # {}]
PutAttributes(ix, path, attrs) ==
    IF ix.failed \/ attrs = NoAttributes THEN ix ELSE SetAttributeList(ix, path, attrs)

RECURSIVE WalkXML(_, _, _)
WalkXML(ix, node, ns) ==
    LET path == Append(ns, node.name)
        child(i, c) == WalkXML(i, c, path)
        read(type)  == PutAttributes(AddText(NoteLink(ix, node.attrs), path, type, node.text),
                                     path, node.attrs)
    IN  IF ix.failed THEN ix
        ELSE CHOOSE i \in { IF type \in Types \/ (type = "none" /\ node.attrs = NoAttributes)
                            THEN Each(child, read(type), node.children)
                            ELSE Failing(ix) : type \in {TypeOfElement(node)} } : TRUE

\* A document is the list of its top-level elements.
AddSerializedValue(ix, document, ns) ==
    LET walk(i, node) == IF ValidNameSpace(i, ns) THEN WalkXML(i, node, ns) ELSE Failing(i)
    IN  ResolveLinks(Each(walk, ix, document))

\* The constructor reads what is in the first element, under the name of the last.
NewIndex(document) ==
    LET walk(i, node) == WalkXML(i, node, Root)
    IN  ResolveLinks(Each(walk, Empty(Last(document).name), document[1].children))
=============================================================================
