------------------------------ MODULE IndexTests ------------------------------
(***************************************************************************)
(* The tests of tests-batch/config (indextest.cpp, datumtest.cpp) as       *)
(* scripts: calls on an index, and looks at it with what the test expects. *)
(* Names and data that play the same part in a test are represented by one *)
(* or two of them, and numbers by short ones.  testPushPopIndex is left    *)
(* out: what it expects of its second and third look is swapped.           *)
(***************************************************************************)
EXTENDS DataIndex, TLC
LOCAL INSTANCE SequencesExt

D == INSTANCE DatumState

-----------------------------------------------------------------------------
(* Looks.                                                                  *)

Look(what, path, expect) == [op |-> "look", what |-> what, path |-> path, expect |-> expect]
LookFor(what, ns, attr, value, expect) ==
    [op |-> "look", what |-> what, path |-> ns, attr |-> attr, value |-> value, expect |-> expect]

Seen(ix, l) ==
    CASE l.what = "value"   -> GetValue(ix, Full(l.path), Root)
      [] l.what = "names"   -> DatumOf(ix, l.path).names
      [] l.what = "type"    -> GetType(ix, Full(l.path), Root)
      [] l.what = "asType"  -> Converted(GetDatum(ix, Full(l.path), Root), l.attr)
      [] l.what = "default" -> GetValueWithDefault(ix, Full(l.path), l.value, Root)
      [] l.what = "exists"  -> Exists(ix, Full(l.path), Root, TRUE)
      [] l.what = "attrs"   -> DatumOf(ix, l.path).attrs
      [] l.what = "text"    -> ValueString(DatumOf(ix, l.path))
      [] l.what = "xml"     -> Serialized(ix, l.path)
      [] l.what = "whole"   -> Serialize(ix)
      [] l.what = "print"   -> PrintStructure(ix, l.path)
      [] l.what = "child"   -> IsChild(l.path, l.value)
      [] l.what = "byKey"   -> SelectByKey(ix, l.value)
      [] l.what = "byType"  -> SelectByType(ix, l.value, l.path, FALSE)
      [] l.what = "byAttribute" -> SelectByAttribute(ix, l.attr, l.value, l.path, FALSE)
      [] l.what = "first"       -> GetByAttribute(ix, l.attr, l.value, l.path)

AddInt(path, n)    == AddDataCall(path, "int", <<<<n>>>>)
AddFloat(path, x)  == AddDataCall(path, "float", <<<<x>>>>)
AddString(path, s) == AddDataCall(path, "string", <<<<s>>>>)
Array(type, pieces) == [type |-> type, value |-> [i \in DOMAIN pieces |-> <<pieces[i]>>]]
AddArray(path, type, pieces) == AddDataCall(path, type, Array(type, pieces).value)

Leaf(name, attrs, text)      == Element(name, NoType, attrs, <<text>>, <<>>)
Typed(name, type, text)      == Element(name, type, NoAttributes, text, <<>>)
Node(name, attrs, children)  == Element(name, NoType, attrs, <<>>, children)
Plain(name, children)        == Node(name, NoAttributes, children)
Attr(a, v) == a :> v

\* The same tree as the index writes it, with all types.
Out(name, type, attrs, text) == Element(name, type, attrs, text, <<>>)
OutBox(name, attrs, children) == Element(name, "container", attrs, <<>>, children)

-----------------------------------------------------------------------------
(* indextest.cpp                                                           *)

TestXML == << Element("xml", NoType, Attr("version", "1.0"), <<>>, <<>>),
    Plain("MVR", << Plain("Server", << Typed("Port", "string", <<"3490">>),
                                       Typed("NumClients", "int", <<"1">>) >>),
                    Plain("Plugins", << Element("Names", "stringarray", Attr("separator", "@"),
                                                <<"GLFW", "OpenGL">>, <<>>) >>),
                    Plain("Displays", << Plain("D1", << Element("kind", "string", Attr("val", "heavy"),
                                                                 <<"glfw">>, <<>>) >>) >>),
                    Plain("Displays", << Leaf("radius", NoAttributes, "20.") >>) >>) >>

setupIndex ==
    << AddInt(<<"george", "a0">>, "4"), AddInt(<<"george", "a5">>, "9"),
       AddFloat(<<"martha", "b0">>, "3.14"), AddFloat(<<"martha", "b7">>, "21.99"),
       AddString(<<"john", "c3">>, "abigail3"), AddString(<<"john", "c5">>, "abigail5"),
       AddArray(<<"donna", "d0">>, "floatarray", <<"1.2", "2.3", "3.4">>),
       XMLCall(TestXML, Root) >>

JohnsChildren == << Plain("MVR", << Node("John", Attr("name", "Lackland"), <<
    Node("Isabella", Attr("name", "Angouleme"), <<
        Leaf("Henry", ("seq" :> "III" @@ "title" :> "King"), "1"),
        Leaf("Isabella", Attr("title", "Queen Consort"), "4"),
        Typed("Eleanor", "string", <<"5">>) >>),
    Node("Joan", Attr("title", "Lady of Wales"), <<
        Leaf("Richard", Attr("name", "FitzRoy"), "6"),
        Leaf("Oliver", Attr("name", "FitzRoy"), "7") >>),
    Plain("Unknown", <<
        Element("Geoffrey", "string", Attr("name", "FitzRoy"), <<"8">>, <<>>),
        Leaf("Isabella", Attr("name", "FitzRoy"), "15"),
        Leaf("Osbert", Attr("name", "Gifford"), "11") >>) >>) >>) >>

J(rest) == <<"MVR", "John">> \o rest
testSelections ==
    << XMLCall(JohnsChildren, Root),
       LookFor("byAttribute", Root, "name", "*",
               << J(<<>>), J(<<"Isabella">>), J(<<"Joan", "Oliver">>), J(<<"Joan", "Richard">>),
                  J(<<"Unknown", "Geoffrey">>), J(<<"Unknown", "Isabella">>),
                  J(<<"Unknown", "Osbert">>) >>),
       LookFor("byAttribute", Root, "name", "FitzRoy",
               << J(<<"Joan", "Oliver">>), J(<<"Joan", "Richard">>),
                  J(<<"Unknown", "Geoffrey">>), J(<<"Unknown", "Isabella">>) >>),
       LookFor("byType", Root, "", "string",
               << J(<<"Isabella", "Eleanor">>), J(<<"Unknown", "Geoffrey">>) >>),
       LookFor("byKey", Root, "", Full(J(<<"Isabella", "Eleanor">>)),
               << J(<<"Isabella", "Eleanor">>) >>),
       LookFor("byKey", Root, "", Relative(<<"John", "Isabella">>),
               << J(<<"Isabella">>), J(<<"Isabella", "Eleanor">>), J(<<"Isabella", "Henry">>),
                  J(<<"Isabella", "Isabella">>) >>),
       LookFor("byKey", Root, "", Relative(<<"John", "*", "Isabella">>),
               << J(<<"Isabella", "Isabella">>), J(<<"Unknown", "Isabella">>) >>),
       LookFor("byAttribute", J(<<"Joan">>), "name", "FitzRoy",
               << J(<<"Joan", "Oliver">>), J(<<"Joan", "Richard">>) >>) >>

testSelectionFirst ==
    LET duke(ns, expect) == LookFor("first", ns, "title", "Duke", expect)
        weapon(a) == Attr("weapon", a)
    IN  << ConstructorCall(<<Plain("example", << Plain("A", <<
               Node("B", weapon("BlueMace"), <<
                   Leaf("C", Attr("title", "Duke"), "1"),
                   Plain("E", << Leaf("F", Attr("title", "Duke"), "3"),
                                 Leaf("G", weapon("GreenGun"), "4") >>),
                   Plain("J", << Leaf("K", NoAttributes, "6") >>) >>),
               Leaf("Q", ("title" :> "Duke" @@ "weapon" :> "RedSword"), "9") >>) >>)>>),
           duke(<<"A", "B", "E">>, <<"A", "B", "E", "F">>), duke(<<"A", "B">>, <<"A", "B", "C">>),
           duke(<<"A">>, <<"A", "Q">>), duke(<<"A", "B", "J">>, <<"A", "B", "C">>),
           LookFor("first", <<"A", "B", "J">>, "weapon", "*", <<"A", "B">>),
           LookFor("first", <<"A">>, "title", "Earl", NoEntry) >>

testIndexSerializeIntArray ==
    setupIndex \o
    << AddArray(<<"george", "array">>, "intarray", <<"0", "1", "2">>),
       Look("xml", <<"george", "array">>,
            Out("array", "intarray", NoAttributes, <<"0", "1", "2">>)) >>

testIndexSerializeIntArraySep ==
    setupIndex \o
    << AddArray(<<"george", "array">>, "intarray", <<"0", "1", "2">>),
       SetAttributeCall(<<"george", "array">>, "separator", "@"),
       Look("xml", <<"george", "array">>,
            Out("array", "intarray", Attr("separator", "@"), <<"0", "1", "2">>)) >>

ServerOut == OutBox("Server", NoAttributes,
    << Out("Port", "string", NoAttributes, <<"3490">>), Out("NumClients", "int", NoAttributes, <<"1">>) >>)
PluginsOut == OutBox("Plugins", NoAttributes,
    << Out("Names", "stringarray", Attr("separator", "@"), <<"GLFW", "OpenGL">>) >>)
DisplaysOut == OutBox("Displays", NoAttributes,
    << OutBox("D1", NoAttributes, << Out("kind", "string", Attr("val", "heavy"), <<"glfw">>) >>),
       Out("radius", "float", NoAttributes, <<"20.0">>) >>)
MVROut == OutBox("MVR", NoAttributes, << ServerOut, PluginsOut, DisplaysOut >>)

testIndexSerialize ==
    setupIndex \o
    << Look("xml", <<"MVR">>, MVROut),
       ConstructorCall(<<MVROut>>),
       Look("xml", <<"Server">>, ServerOut),
       Look("whole", Root, OutBox("MVR", NoAttributes, << DisplaysOut, PluginsOut, ServerOut >>)) >>

testIndexSerializeEntire ==
    << ConstructorCall(<<MVROut>>),
       Look("value", <<"Displays", "D1", "kind">>, <<<<"glfw">>>>),
       Look("attrs", <<"Displays", "D1", "kind">>, Attr("val", "heavy")),
       Look("whole", Root, OutBox("MVR", NoAttributes, << DisplaysOut, PluginsOut, ServerOut >>)) >>

testIndexPrintFloatArray ==
    setupIndex \o
    << Look("print", <<"donna">>,
            [title |-> "", lines |->
             << [depth |-> 1, name |-> "donna", attrs |-> NoAttributes, text |-> <<>>],
                [depth |-> 2, name |-> "d0", attrs |-> NoAttributes,
                 text |-> <<"1.2", "2.3", "3.4">>] >>]) >>

testIndexLotsaEntries ==
    LET entries == <<"A", "B", "C", "D", "E", "F", "G">> IN
    setupIndex
    \o [i \in DOMAIN entries |-> AddInt(<<"henry", entries[i]>>, entries[i])]
    \o [i \in DOMAIN entries |-> Look("value", <<"henry", entries[i]>>, <<<<entries[i]>>>>)]

testIndexGetDefaultValues ==
    LET default(path, value, expect) == LookFor("default", path, "", <<<<value>>>>, <<<<expect>>>>) IN
    setupIndex \o
    << default(<<"martha", "b0">>, "3.0", "3.14"), default(<<"martha", "b9">>, "3.0", "3.0"),
       default(<<"george", "a5">>, "6", "9"), default(<<"george", "a15">>, "6", "6"),
       default(<<"john", "c5">>, "hello", "abigail5"), default(<<"john", "c15">>, "hello", "hello") >>

testGetPointers ==
    setupIndex \o
    << Look("value", <<"martha", "b0">>, <<<<"3.14">>>>), Look("exists", <<"martha", "b9">>, FALSE),
       Look("exists", <<"martha", "b7">>, TRUE), Look("value", <<"martha", "b7">>, <<<<"21.99">>>>),
       Look("value", <<"john", "c3">>, <<<<"abigail3">>>>),
       Look("value", <<"donna", "d0">>, <<<<"1.2">>, <<"2.3">>, <<"3.4">>>>) >>

testEscapedChars ==
    setupIndex \o
    << XMLCall(<<Element("mimi", "stringarray", Attr("separator", ","),
                         <<"Alpha", "Beta", "Gamma\\", "Delta", "Epsilon">>, <<>>)>>, Root),
       Look("value", <<"mimi">>, <<<<"Alpha">>, <<"Beta">>, <<"Gamma", "Delta">>, <<"Epsilon">>>>) >>

\* With linkNode attributes, one full and two that mean different nodes by their place.
LinkedXML == << Plain("MVR", << Plain("John", <<
    Node("Isabella", Attr("name", "Angouleme"), <<
        Leaf("Henry", Attr("title", "King"), "1"),
        Node("Izzie", Attr("linkNode", Relative(<<"Isabella">>)), <<>>),
        Leaf("Isabella", Attr("title", "Queen Consort"), "4") >>),
    Node("Joan", Attr("title", "Lady of Wales"), <<
        Node("Izzie", Attr("linkNode", Relative(<<"Isabella">>)), <<>>),
        Leaf("Oliver", Attr("name", "FitzRoy"), "7") >>),
    Plain("Unknown", <<
        Node("Thomas", Attr("linkNode", Full(J(<<"Joan">>))), <<>>),
        Leaf("Eudes", Attr("name", "FitzRoy"), "12") >>) >>) >>) >>

LinkedOut(letter) ==
    LET queen(name) == Out(name, "int", Attr("title", "Queen Consort"), <<"4">>)
        isabella(name) == OutBox(name, Attr("name", "Angouleme"),
            << Out("Henry", "int", Attr("title", "King"), <<"1">>), queen("Izzie"), queen("Isabella") >>)
        joan(name) == OutBox(name, "letter" :> letter @@ "title" :> "Lady of Wales",
            << isabella("Izzie"), Out("Oliver", "int", Attr("name", "FitzRoy"), <<"7">>) >>)
    IN  OutBox("MVR", NoAttributes, << OutBox("John", NoAttributes,
            << isabella("Isabella"), joan("Joan"),
               OutBox("Unknown", NoAttributes,
                   << joan("Thomas"), Out("Eudes", "int", Attr("name", "FitzRoy"), <<"12">>) >>) >>) >>)

\* Only the copies are looked at: that a copy has no datum of the original is how it
\* is made.
testDepthOfCopy ==
    << XMLCall(LinkedXML, Root), CopyCall,
       SetAttributeCall(J(<<"Unknown", "Thomas">>), "letter", "alpha"),
       Look("xml", <<"MVR">>, LinkedOut("alpha")),
       CopyCall, SetAttributeCall(J(<<"Unknown", "Thomas">>), "letter", "beta"),
       Look("xml", <<"MVR">>, LinkedOut("beta")) >>

testLinkNode ==
    << XMLCall(LinkedXML, Root),
       SetAttributeCall(J(<<"Unknown", "Thomas">>), "letter", "alpha"),
       Look("xml", <<"MVR">>, LinkedOut("alpha")) >>

testLinkContent ==
    LET fitzRoy(name, n) == Out(name, "int", "letter" :> "alpha" @@ "name" :> "FitzRoy", <<n>>)
        richard == fitzRoy("Richard", "6")
    IN  << ConstructorCall(<<Plain("MVR", << Plain("John", <<
               Plain("Joan", << Leaf("Richard", Attr("name", "FitzRoy"), "6") >>),
               Plain("Unknown", << Typed("Geoffrey", "string", <<"8">>),
                                   Node("Thomas", Attr("linkContent", Full(<<"John", "Joan">>)), <<>>),
                                   Typed("Eudes", "int", <<"12">>) >>) >>) >>)>>),
           SetAttributeCall(<<"John", "Joan", "Richard">>, "letter", "alpha"),
           Look("whole", Root, OutBox("MVR", NoAttributes, << OutBox("John", NoAttributes,
               << OutBox("Joan", NoAttributes, <<richard>>),
                  OutBox("Unknown", NoAttributes,
                      << richard, Out("Geoffrey", "string", NoAttributes, <<"8">>),
                         Out("Eudes", "int", NoAttributes, <<"12">>) >>) >>) >>)) >>

testIsChild ==
    LET child(parent, name, expect) == LookFor("child", parent, "", name, expect)
        bird(rest) == <<"Norman", "Bird">> \o rest
    IN  << child(bird(<<"Sanctuary">>), bird(<<"Sanctuary">>), 0),
           child(bird(<<"Sanctuary">>), bird(<<"Sanctuary", "Egret">>), 1),
           child(bird(<<"Sanctuary">>), bird(<<"Sanctuary", "Egret", "Baby">>), 2),
           child(bird(<<"Sanctuary">>), bird(<<"Egret">>), -1),
           child(bird(<<"Sanctuary">>), <<"hello">>, -1) >>

-----------------------------------------------------------------------------
(* datumtest.cpp.  A datum that is read in several ways is an index with   *)
(* that datum; one that is pushed and popped is in `datum'.                *)

As(type, expect) == LookFor("asType", <<"a">>, type, "", expect)

testDatumAttributes ==
    << AddInt(<<"a">>, "37"), SetAttributeCall(<<"a">>, "one", "11"),
       SetAttributeCall(<<"a">>, "one", "1"), SetAttributeCall(<<"a">>, "four", "4"),
       Look("attrs", <<"a">>, "one" :> "1" @@ "four" :> "4") >>

testDatumInt ==
    << AddInt(<<"a">>, "37"), Look("type", <<"a">>, "int"), As("int", <<<<"37">>>>),
       As("float", <<<<"37.">>>>), Look("text", <<"a">>, <<"37">>) >>

testDatumFloat ==
    << AddFloat(<<"a">>, "37.123f"), Look("type", <<"a">>, "float"), As("float", <<<<"37.123f">>>>),
       Look("text", <<"a">>, <<"37.123001">>), As("int", <<<<"37">>>>) >>

testDatumString ==
    << AddDataCall(<<"a">>, "string", <<<<"this", "is">>>>), Look("type", <<"a">>, "string"),
       As("string", <<<<"this", "is">>>>), Look("text", <<"a">>, <<"this", "is">>) >>

ArrayTest(type, pieces, printed) ==
    << AddArray(<<"a">>, type, pieces), Look("type", <<"a">>, type),
       As(type, Array(type, pieces).value), Look("text", <<"a">>, printed) >>
testDatumIntArray   == ArrayTest("intarray", <<"16", "2">>, <<"16", "2">>)
testDatumFloatArray == ArrayTest("floatarray", <<"16.2f", "77.3f">>, <<"16.200001", "77.300003">>)
testDatumStringArray == ArrayTest("stringarray", <<"one", "two">>, <<"one", "two">>)

testDatumArrayConversions ==
    << AddDataCall(<<"a">>, "string", <<<<"this">>>>), As("stringarray", <<<<"this">>>>),
       AddInt(<<"b">>, "37"), LookFor("asType", <<"b">>, "intarray", "", <<<<"37">>>>),
       AddFloat(<<"c">>, "37.123f"), LookFor("asType", <<"c">>, "floatarray", "", <<<<"37.123f">>>>) >>

testDatumContainer ==
    << AddContainerCall(<<"a">>, <<"one", "two", "three">>), Look("type", <<"a">>, "container"),
       Look("names", <<"a">>, <<"one", "two", "three">>) >>

\* Steps on `datum'; its value has attributes.
Make(v)  == [op |-> "make", value |-> [value |-> v, attrs |-> NoAttributes]]
PushStep == [op |-> "push"]
PopStep  == [op |-> "pop"]
Set(v)   == [op |-> "setValue", value |-> v]
Join(names) == [op |-> "addToValue", names |-> names]
SetAttr(a, v) == [op |-> "setAttr", attr |-> a, value |-> v]
Holds(v)      == [op |-> "holds", value |-> v]
HasAttrs(attrs) == [op |-> "attrs", attrs |-> attrs]

PerformOnDatum(d, step) ==
    LET front == Head(d.value) IN
    CASE step.op = "make" -> D!New(step.value)
      [] step.op = "push" -> D!DatumPush(d)
      [] step.op = "pop"  -> D!DatumPop(d)
      [] step.op = "setValue"   -> D!SetValue(d, [front EXCEPT !.value = step.value])
      [] step.op = "addToValue" -> D!SetValue(d, [front EXCEPT !.value = @ \cup step.names])
      [] step.op = "setAttr"    -> D!SetAttribute(d, step.attr, step.value)
      [] OTHER -> d

testDatumPushPopInt ==
    << Make("5"), SetAttr("one", "11"), SetAttr("one", "1"), SetAttr("four", "4"),
       PushStep, Set("37"), Holds("37"), SetAttr("one", "01"),
       HasAttrs("one" :> "01" @@ "four" :> "4"),
       PopStep, Holds("5"), HasAttrs("one" :> "1" @@ "four" :> "4") >>
PushPop(old, new) == << Make(old), PushStep, Set(new), Holds(new), PopStep, Holds(old) >>
testDatumPushPopFloat      == PushPop("3.14", "2.72")
testDatumPushPopString     == PushPop("hello", "good-bye")
testDatumPushPopIntArray   == PushPop(<<"16", "25">>, <<"11", "22">>)
testDatumPushPopFloatArray == PushPop(<<"3.14", "2.72">>, <<"1.23", "2.35">>)
testDatumPushPopStringArray == PushPop(<<"one", "two">>, <<"six", "seven">>)
testDatumPushPopContainer ==
    << Make({"one", "three"}), PushStep, Join({"three", "six"}), Holds({"one", "three", "six"}),
       PopStep, Holds({"one", "three"}) >>
=============================================================================
