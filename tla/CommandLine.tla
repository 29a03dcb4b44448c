----------------------------- MODULE CommandLine -----------------------------
(***************************************************************************)
(* VRParseCommandLine and the configuration that VRMain loads by it.  An   *)
(* argument is a record: its head, which is "" if it does not begin with a *)
(* dash, whether something is attached to the head with an equals sign, and*)
(* its item: a setting, the name of a file, the arguments encoded in       *)
(* --MINVR_DATA, or anything else.  What the program has read is a record  *)
(* with the index, the leftovers, the original line, and whether to execute*)
(***************************************************************************)
EXTENDS DataIndexOps, SearchPath
LOCAL INSTANCE SequencesExt

CONSTANTS
    Spaced,         \* arguments with spaces in them, and what they are split into
    Documents       \* the XML in the configuration files

Setting(path, piece) == [kind |-> "setting", path |-> path, text |-> <<piece>>]
File(name)           == [kind |-> "file", name |-> name]
Arguments(argv)      == [kind |-> "arguments", argv |-> argv]
Other(word)          == [kind |-> "other", word |-> word]

Word(item)           == [head |-> "", attached |-> FALSE, item |-> item]
Option(head)         == [head |-> head, attached |-> FALSE, item |-> Other("")]
OptionWith(head, item) == [head |-> head, attached |-> TRUE, item |-> item]

SetOptions  == {"-s", "--set-value"}
LoadOptions == {"-c", "--load-config"}
HelpOptions == {"-h", "--help"}
AllOptions  == SetOptions \cup LoadOptions \cup HelpOptions \cup {"--no-execute", "--MINVR_DATA"}
\* noParsing() leaves only this one.
NoParsing == {"--MINVR_DATA"}

\* TESTARG: a longer argument counts as the option that it begins with.
IsOption(arg, options) ==
    arg.head \in options \/ \E o \in options : <<arg.head, o>> \in BeginsWith
\* What is attached: all after the character that follows the option.
Attached(arg) == arg.attached \/ arg.head \notin AllOptions
ItemOf(arg) == IF arg.head \in AllOptions THEN arg.item ELSE Other("the rest of it")

NothingRead(index, options) ==
    [index |-> index, options |-> options, execute |-> TRUE, original |-> <<>>,
     leftovers |-> <<>>, failed |-> FALSE]

Having(read, index) == [read EXCEPT !.index = index, !.failed = index.failed]
Refused(read) == [read EXCEPT !.failed = TRUE]

LoadConfig(read, item, host) ==
    LET file == FindConfig(host.path, item.name, host.files)
    IN  IF read.failed \/ item.kind # "file" \/ file = NotFound THEN Refused(read)
        ELSE Having(read, AddSerializedValue(read.index, Documents[file], Root))
DefaultConfig == File(FileName("default", ""))

SetConfigValue(read, setting) ==
    IF read.failed \/ setting.kind # "setting" THEN Refused(read)
    ELSE Having(read, AddKeyAndValue(read.index, setting.path, setting.text))

\* The original line, split at its spaces, as it is when it is used again.
SplitAgain(argv) ==
    FlattenSeq([i \in DOMAIN argv |->
        IF argv[i] \in DOMAIN Spaced THEN Spaced[argv[i]] ELSE <<argv[i]>>])

\* A scan is what was read so far, what the options ask for, and the option that
\* waits for its argument; it stops at --MINVR_DATA.
Scan(read) == [read |-> read, sets |-> <<>>, loads |-> <<>>, waits |-> "no", stop |-> FALSE]
FirstScan(read, recursing) ==
    Scan(IF recursing THEN [read EXCEPT !.execute = TRUE]
         ELSE [read EXCEPT !.execute = TRUE, !.original = <<>>, !.leftovers = <<>>])
Note(scan, arg, recursing) == IF recursing THEN scan ELSE [scan EXCEPT !.read.original = Append(@, arg)]
Leftover(scan, arg) == [scan EXCEPT !.read.leftovers = Append(@, arg)]
Take(scan, kind, item) ==
    IF kind = "set" THEN [scan EXCEPT !.sets = Append(@, item), !.waits = "no"]
    ELSE [scan EXCEPT !.loads = Append(@, item), !.waits = "no"]
TakeOption(scan, kind, arg) ==
    IF Attached(arg) THEN Take(scan, kind, ItemOf(arg)) ELSE [scan EXCEPT !.waits = kind]
Is(scan, arg, options) == IsOption(arg, options \cap scan.read.options)

\* What the options ask for: the files, then the settings, or the default file.
Carried(scan, host) ==
    LET load(r, item)   == LoadConfig(r, item, host)
        files == IF scan.sets = <<>> /\ scan.loads = <<>> THEN <<DefaultConfig>> ELSE scan.loads
    IN  IF scan.waits # "no" THEN Refused(scan.read)
        ELSE Each(SetConfigValue, Each(load, scan.read, files), scan.sets)

\* All arguments first, with an option that waits for its own; then the files and
\* then the settings, in whatever order they were given.  After --MINVR_DATA no
\* argument is looked at; what it holds is read at once, and the default
\* configuration is loaded over it if nothing came before it.
RECURSIVE ParseCommandLine(_, _, _, _)
ParseCommandLine(before, argv, recursing, host) ==
    LET decoded(s, arg) ==
            [s EXCEPT !.stop = TRUE,
                      !.read = IF ~Attached(arg) THEN Refused(s.read)
                               ELSE ParseCommandLine(s.read, SplitAgain(ItemOf(arg).argv),
                                                     s.read.leftovers # <<>>, host)]
        look(s, arg) ==
            CASE arg.head = ""                 -> Leftover(s, arg)
              [] Is(s, arg, SetOptions)        -> TakeOption(s, "set", arg)
              [] Is(s, arg, LoadOptions)       -> TakeOption(s, "load", arg)
              [] Is(s, arg, {"--MINVR_DATA"})  -> decoded(s, arg)
              [] Is(s, arg, HelpOptions)       -> s
              [] Is(s, arg, {"--no-execute"})  -> [s EXCEPT !.read.execute = FALSE]
              [] OTHER                         -> Leftover(s, arg)
        step(s, arg) ==
            IF s.stop THEN s
            ELSE IF s.waits # "no"
            THEN Take(Note(s, arg, recursing), s.waits, IF arg.head = "" THEN arg.item ELSE Other(arg.head))
            ELSE look(Note(s, arg, recursing), arg)
    IN  CHOOSE r \in { Carried(s, host) : s \in {Each(step, FirstScan(before, recursing), argv)} } : TRUE
=============================================================================
