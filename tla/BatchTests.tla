------------------------------ MODULE BatchTests ------------------------------
(***************************************************************************)
(* The repository's own tests (tests-batch) run on the model: one of them  *)
(* is chosen, and its script is performed step by step.  The tests of the  *)
(* index are in IndexTests; those of search paths, of the command line and *)
(* of the queue are here.                                                  *)
(***************************************************************************)
EXTENDS IndexTests, CommandLine, TLC
LOCAL INSTANCE SequencesExt

-----------------------------------------------------------------------------
(* The tests of utilitytest.cpp: checks, command lines to parse, and what is *)
(* seen of what was read.  The test's own subclass counts what it is told to *)
(* load and to set: here the file and the setting leave a value in the index.*)

Check(seen, expect) == [op |-> "check", seen |-> seen, expect |-> expect]

Test3  == "testSearch/test2/test3"
Test4  == "testSearch/test2/test4"
LibDir == "testSearch/test2/test3/lib"
SearchTree ==
    { InDirectory(Test4, "target", ".txt"), InDirectory(Test3, "target", ".txt"),
      InDirectory(LibDir, "libHenry", ".so"),
      InDirectory(Test3, "Chester", ".minvr"), InDirectory(Test3, "Chester", ".xml") }

testSearchPath ==
    LET added == << "testSearch", "testSearch/test1", "testSearch/test2", Test3, Test4,
                    "testSearch/test2/test4/test5" >>
        noVariables == [v \in {} |-> ""]
        adding(path, dir) == AddPathEntry(path, Directory(dir), TRUE, noVariables)
        sp  == FoldLeft(adding, <<>>, added)
        sp2 == DigestPathString(<<>>, sp)
        spp == DigestPathString(SearchPlugin(noVariables), adding(sp, LibDir))
        spc == DigestPathString(SearchConfig(noVariables), adding(sp, LibDir))
        find(path, name) ==
            FindFile(name, [i \in DOMAIN path |-> InDirectory(path[i], name.base, name.suffix)], SearchTree)
        target == FileName("target", ".txt")
    IN  << Check(find(sp, target), InDirectory(Test4, "target", ".txt")),
           Check(find(sp, AbsoluteName(Test3, "target", ".txt")), InDirectory(Test3, "target", ".txt")),
           Check(find(sp, AbsoluteName(Test3, "target", ".txtd")), NotFound),
           Check(sp, Reverse(added)),
           Check(find(sp2, target), InDirectory(Test4, "target", ".txt")),
           Check(sp2, sp),
           Check(FindLibrary(spp, FileName("Henry", ""), SearchTree), InDirectory(LibDir, "libHenry", ".so")),
           Check(FindConfig(spc, FileName("Chester", ""), SearchTree), InDirectory(Test3, "Chester", ".minvr")),
           Check(FindConfig(spc, FileName("Chester", ".xml"), SearchTree), InDirectory(Test3, "Chester", ".xml")) >>

\* Files that can be loaded: each says which it is.
testParse == [path |-> <<"config">>, files |-> DOMAIN Documents]
ParseLine(argv, options)  == [op |-> "parse", argv |-> argv, options |-> options]
Parsed(step) ==
    ParseCommandLine(NothingRead(Empty("MVR"), step.options), step.argv, FALSE, testParse)

WasRead(what, expect) == [op |-> "read", what |-> what, expect |-> expect]
WordsOf(argv) == [i \in DOMAIN argv |-> argv[i].item.word]
SeenOfRead(read, l) ==
    CASE l.what = "names"     -> {n \in DOMAIN read.index.entries : Len(n) = 1}
      [] l.what = "leftovers" -> read.leftovers
      [] l.what = "words"     -> WordsOf(read.leftovers)
      [] l.what = "original"  -> read.original
      [] l.what = "execute"   -> read.execute
      [] l.what = "failed"    -> read.failed

Arg(word)     == Word(Other(word))
FileArg(name) == File(FileName(name, ""))
Typical == << Arg("program"), Arg("argument1"), Arg("argument2"), Option("-k"), Arg("2") >>
Encoded == << Arg("command"), Arg("arg1"), Arg("arg2"),
              OptionWith("--MINVR_DATA", Arguments(
                  << Option("-s"), Word(Setting(<<"SetupsToStart">>, "doThisOne")),
                     Option("-c"), Word(FileArg("Wonderful")) >>)) >>

parseTypical ==
    LET argv == Typical \o << Option("--load-config"), Word(FileArg("default")) >>
    IN  << ParseLine(argv, AllOptions), WasRead("names", {<<"default">>}),
           WasRead("original", argv), WasRead("leftovers", Typical) >>

parseEqualSign ==
    LET argv == Typical \o << OptionWith("--load-config", FileArg("default")) >>
    IN  << ParseLine(argv, AllOptions), WasRead("names", {<<"default">>}),
           WasRead("leftovers", Typical), WasRead("original", argv) >>

parseNoExecution ==
    LET set(name, value) == << Option("--set-value"), Word(Setting(<<name>>, value)) >>
        argv == << Arg("program"), Arg("argument1"), Option("--no-execute"), Arg("argument2") >>
                \o set("name", "Tom") \o set("lesson", "first")
                \o << OptionWith("--load-config", FileArg("default")) >>
    IN  << ParseLine(argv, AllOptions), WasRead("execute", FALSE),
           WasRead("names", {<<"default">>, <<"name">>, <<"lesson">>}),
           WasRead("words", <<"program", "argument1", "argument2">>) >>

\* The default configuration is loaded after what was encoded: the test's subclass
\* counts nothing for it.
parseEncoded ==
    << ParseLine(Encoded, AllOptions), WasRead("names", {<<"SetupsToStart">>, <<"Wonderful">>, <<"default">>}),
       WasRead("words", <<"command", "arg1", "arg2">>) >>

parseErrors ==
    << ParseLine(<< Arg("program"), Arg("argument1"), Option("-c") >>, AllOptions), WasRead("failed", TRUE) >>

parseNothing ==
    LET argv == << Arg("program"), Arg("argument1"), Option("-s"), Word(Setting(<<"hello">>, "34")) >>
    IN  << Check("-s" \in NoParsing, FALSE), ParseLine(argv, NoParsing),
           WasRead("names", {<<"default">>}), WasRead("leftovers", argv) >>

\* As long as the original, with what was encoded as single arguments.
parseOnlyEncoded ==
    << ParseLine(Encoded, NoParsing), WasRead("names", {<<"default">>}),
       WasRead("leftovers", SubSeq(Encoded, 1, 3) \o Encoded[4].item.argv) >>

-----------------------------------------------------------------------------
(* The tests of queuetest.cpp: items pushed to one of two queues, and looks *)
(* at the first one.  An item is an index, or the XML of one; times are     *)
(* small numbers.                                                           *)

Q == INSTANCE DataQueueOps

AsIndex(ix) == [form |-> "raw", index |-> ix]
AsXML(xml)  == [form |-> "text", xml |-> xml]

NoQueues == [q1 |-> Q!EmptyQueue, q2 |-> Q!EmptyQueue]

\* push() of an index with an integer, or of its XML; of the XML of a part of the
\* test's index; addQueue() of the second queue to the first; and pop().
PushEvent(queue, time, form, n) ==
    [op |-> "pushEvent", queue |-> queue, time |-> time, form |-> form, value |-> ToString(n)]
PushPart(time, path) == [op |-> "pushPart", queue |-> "q1", time |-> time, path |-> path]
AddQueueStep == [op |-> "addQueue"]
PopItem      == [op |-> "popItem"]
QueueSteps   == {"pushEvent", "pushPart", "addQueue", "popItem"}

Event(value) == AddValue(Empty("event"), <<"testInt">>, "int", <<<<value>>>>)
ItemFor(ix, step) ==
    CASE step.op = "pushPart" -> AsXML(Serialized(ix, step.path))
      [] step.op = "pushEvent" /\ step.form = "raw"    -> AsIndex(Event(step.value))
      [] step.op = "pushEvent" /\ step.form = "text"   -> AsXML(Serialize(Event(step.value)))

PerformOnQueues(queues, ix, step) ==
    CASE step.op = "addQueue" -> [queues EXCEPT !.q1 = Q!AddQueue(@, queues.q2)]
      [] step.op = "popItem"  -> [queues EXCEPT !.q1 = Q!Pop(@)]
      [] OTHER -> [queues EXCEPT ![step.queue] = Q!Push(@, step.time, ItemFor(ix, step))]

First(q)    == Q!InOrder(q)[1].item
GetFirst(q) == LET item == First(q) IN IF item.form = "raw" THEN item.index ELSE NewIndex(<<item.xml>>)

\* The serialized queue, but for the times.
Items(data) == [i \in DOMAIN data |-> data[i].item]

InQueue(what, expect)    == [op |-> "queued", what |-> what, expect |-> expect]
FirstItem(what, expect)  == [op |-> "first", what |-> what, path |-> <<>>, expect |-> expect]
FirstPart(path, expect)  == [op |-> "first", what |-> "part", path |-> path, expect |-> expect]
SeenOfQueue(q, l) ==
    CASE l.what = "keys"  -> DOMAIN q
      [] l.what = "items" -> Items(Q!Serialize(q))
      [] l.what = "empty" -> DOMAIN q = {}
SeenOfFirst(ix, l) ==
    CASE l.what = "name" -> ix.name
      [] l.what = "int"  -> GetValue(ix, Relative(<<"testInt">>), Root)[1][1]
      [] l.what = "part" -> Serialized(ix, l.path)

Numbers(list) == [i \in DOMAIN list |-> ToString(list[i])]
Looked(what, list) ==
    FlattenSeq([i \in DOMAIN list |-> << FirstItem(what, list[i]), PopItem >>]) \o << InQueue("empty", TRUE) >>

-----------------------------------------------------------------------------
\* Pushed in turn to two queues: i to the one, and 10 - i to the other.
Alternating(form) ==
    FlattenSeq([n \in 1..10 |-> << PushEvent("q1", 2 * n, form, n - 1),
                                   PushEvent("q2", 2 * n + 1, "raw", 11 - n) >>])
    \o << AddQueueStep >>
    \o Looked("int", Numbers(<<0, 10, 1, 9, 2, 8, 3, 7, 4, 6, 5, 5, 6, 4, 7, 3, 8, 2, 9, 1>>))

TestAddQueue           == Alternating("raw")
TestAddQueueSerialized == Alternating("text")

\* Times are inverted, and one of them is used twice.
TestQueueIterator ==
    [i \in 1..10 |-> PushEvent("q1", 11 - i, "raw", i - 1)] \o << PushEvent("q1", 5, "raw", 100) >>
    \o Looked("int", Numbers(<<9, 8, 7, 6, 5, 100, 4, 3, 2, 1, 0>>))

setupQIndex == setupIndex
ArrayOf(first) == Numbers(<<first, first + 1, first + 2>>)

TestQueueArray ==
    LET path == <<"george", "atestarray">> IN
    setupQIndex
    \o << AddArray(path, "intarray", ArrayOf(0)), SetAttributeCall(path, "separator", "@"),
          PushPart(1, path), PushPart(2, <<"donna", "d0">>),
          InQueue("items",
                  << AsXML(Out("atestarray", "intarray", Attr("separator", "@"), ArrayOf(0))),
                     AsXML(Out("d0", "floatarray", NoAttributes, <<"1.2", "2.3", "3.4">>)) >>) >>

\* The index that comes out has the name of the container that was put in.
TestQueueUnpack ==
    setupQIndex
    \o << AddArray(<<"george", "atestarray">>, "intarray", ArrayOf(0)),
          PushPart(1, <<"george">>),
          FirstPart(<<"atestarray">>, Out("atestarray", "intarray", NoAttributes, ArrayOf(0))),
          FirstItem("name", "george") >>

TestQueueMultipleTimeStamps ==
    LET names == <<"vladimir", "estragon", "pozzo", "lucky">>
        array(i) == Out("array", "intarray", NoAttributes, ArrayOf(i))
    IN  [i \in 1..4 |-> AddArray(<<names[i], "array">>, "intarray", ArrayOf(i))]
        \o [i \in 1..4 |-> PushPart(7, <<names[i]>>)]
        \o << InQueue("keys", {<<7, d>> : d \in 0..3}),
              InQueue("items", [i \in 1..4 |-> AsXML(OutBox(names[i], NoAttributes, <<array(i)>>))]) >>
        \o Looked("name", names)

VARIABLES
    test, done,     \* the test being run, how many of its steps are done
    datum,          \* of datumtest.cpp: one datum, with its saved states
    queues, read    \* of queuetest.cpp and utilitytest.cpp: what a command line gave

-----------------------------------------------------------------------------
Tests ==
    [selections |-> testSelections, selectionFirst |-> testSelectionFirst,
     serializeIntArray |-> testIndexSerializeIntArray,
     serializeIntArraySep |-> testIndexSerializeIntArraySep,
     serialize |-> testIndexSerialize, serializeEntire |-> testIndexSerializeEntire,
     printFloatArray |-> testIndexPrintFloatArray, lotsaEntries |-> testIndexLotsaEntries,
     defaultValues |-> testIndexGetDefaultValues, pointers |-> testGetPointers,
     escapedChars |-> testEscapedChars, depthOfCopy |-> testDepthOfCopy,
     linkNode |-> testLinkNode, linkContent |-> testLinkContent, isChild |-> testIsChild,
     datumAttributes |-> testDatumAttributes, datumInt |-> testDatumInt,
     datumFloat |-> testDatumFloat, datumString |-> testDatumString,
     datumIntArray |-> testDatumIntArray, datumFloatArray |-> testDatumFloatArray,
     datumStringArray |-> testDatumStringArray, conversions |-> testDatumArrayConversions,
     datumContainer |-> testDatumContainer, pushPopInt |-> testDatumPushPopInt,
     pushPopFloat |-> testDatumPushPopFloat, pushPopString |-> testDatumPushPopString,
     pushPopIntArray |-> testDatumPushPopIntArray,
     pushPopFloatArray |-> testDatumPushPopFloatArray,
     pushPopStringArray |-> testDatumPushPopStringArray,
     pushPopContainer |-> testDatumPushPopContainer,
     addQueue |-> TestAddQueue, addQueueSerialized |-> TestAddQueueSerialized,
     queueIterator |-> TestQueueIterator, queueArray |-> TestQueueArray,
     queueUnpack |-> TestQueueUnpack, queueMultipleTimeStamps |-> TestQueueMultipleTimeStamps,
     searchPath |-> testSearchPath, parseTypical |-> parseTypical,
     parseEqualSign |-> parseEqualSign, parseNoExecution |-> parseNoExecution,
     parseEncoded |-> parseEncoded, parseErrors |-> parseErrors,
     parseNothing |-> parseNothing, parseOnlyEncoded |-> parseOnlyEncoded]

DatumSteps == {"make", "push", "pop", "setValue", "addToValue", "setAttr", "holds", "attrs"}
Looks      == {"look", "check", "read", "queued", "first"}

TestInit ==
    /\ test \in DOMAIN Tests /\ done = 0
    /\ index = Empty("MVR") /\ called = 0 /\ datum = D!New([value |-> "", attrs |-> NoAttributes])
    /\ queues = NoQueues /\ read = NothingRead(index, {})

\* A step is a call on one of the test's objects, or a look at what they show.
TestStep ==
    /\ done < Len(Tests[test]) /\ done' = done + 1
    /\ LET step == Tests[test][done + 1] IN
       CASE step.op \in DatumSteps ->
                datum' = PerformOnDatum(datum, step) /\ UNCHANGED <<index, queues, read>>
         [] step.op \in QueueSteps ->
                queues' = PerformOnQueues(queues, index, step) /\ UNCHANGED <<index, datum, read>>
         [] step.op = "parse" -> read' = Parsed(step) /\ UNCHANGED <<index, datum, queues>>
         [] step.op \in Looks -> UNCHANGED <<index, datum, queues, read>>
         [] OTHER -> index' = Perform(index, step) /\ UNCHANGED <<datum, queues, read>>
    /\ UNCHANGED <<test, called>>

TestSpec == TestInit /\ [][TestStep]_<<vars, test, done, datum, queues, read>>

\* Every look of every test shows what the test expects, and no call throws: the
\* model computes what the developers of the index wrote down for these cases.
AsTested ==
    /\ ~index.failed
    /\ done > 0 => LET step == Tests[test][done] IN
          CASE step.op = "look"   -> Seen(index, step) = step.expect
            [] step.op = "check"  -> step.seen = step.expect
            [] step.op = "read"   -> SeenOfRead(read, step) = step.expect
            [] step.op = "queued" -> SeenOfQueue(queues.q1, step) = step.expect
            [] step.op = "first"  -> SeenOfFirst(GetFirst(queues.q1), step) = step.expect
            [] step.op = "holds"  -> Head(datum.value).value = step.value
            [] step.op = "attrs"  -> Head(datum.value).attrs = step.attrs
            [] OTHER -> TRUE

-----------------------------------------------------------------------------
(* For TLC: the names, the pieces of text and the files in the tests.       *)

\* In the order of their characters.
MCAlphabet ==
    <<"A", "B", "Bird", "C", "D", "D1", "Displays", "E", "Egret", "Eleanor", "Eudes", "F", "G",
      "Geoffrey", "Henry", "Isabella", "Izzie", "J", "Joan", "John", "K", "MVR", "Names",
      "Norman", "NumClients", "Oliver", "Osbert", "Plugins", "Port", "Q", "Richard",
      "Sanctuary", "Server", "SetupsToStart", "Thomas", "Unknown", "Wonderful", "a", "a0",
      "a15", "a5", "array", "atestarray", "b", "b0", "b7", "b9", "c", "c15", "c3", "c5", "d0",
      "default", "donna", "estragon", "george", "hello", "henry", "john", "kind", "lesson",
      "lucky", "martha", "mimi", "name", "pozzo", "radius", "testInt", "vladimir", "xml">>
MCBeginsWith == {}

Number(kind, int, float, printed) ==
    [kind |-> kind, int |-> int, float |-> float, printed |-> printed, escapes |-> FALSE, body |-> float]
Whole(n) == Number("int", n, n, n)
MCLexicon ==
    [t \in {"0", "1", "2", "3", "4", "5", "6", "7", "8", "9", "10", "11", "12", "15", "16", "100", "3490", "34",
            "3.14", "21.99", "1.2", "2.3", "3.4"} |-> Whole(t)]
    @@ "37" :> Number("int", "37", "37.", "37")
    @@ "20." :> Number("float", "20", "20.", "20.0")
    @@ "20.0" :> Number("float", "20", "20.0", "20.0")
    @@ "37.123f" :> Number("float", "37", "37.123f", "37.123001")
    @@ "16.2f" :> Number("float", "16", "16.2f", "16.200001")
    @@ "77.3f" :> Number("float", "77", "77.3f", "77.300003")
    @@ "Gamma\\" :> [PlainWord("Gamma\\") EXCEPT !.escapes = TRUE, !.body = "Gamma"]

\* Each configuration file says which it is.
MCDocuments ==
    [f \in {InDirectory("config", name, ".minvr") : name \in {"default", "Wonderful"}} |->
        << Leaf(f.base, NoAttributes, "1") >>]
MCSpaced == [a \in {} |-> <<>>]
=============================================================================
