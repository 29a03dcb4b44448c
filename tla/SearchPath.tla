----------------------------- MODULE SearchPath -----------------------------
(***************************************************************************)
(* VRSearchPath and its subclasses for plugins and configuration files.  A *)
(* path is a list of directories.  An entry is a directory that may depend *)
(* on an environment variable; a file name has a base and a suffix, or is  *)
(* absolute; a file is a directory and the file's name in it.              *)
(***************************************************************************)
EXTENDS Integers, Sequences
LOCAL INSTANCE SequencesExt
LOCAL INSTANCE FiniteSetsExt

Directory(dir)       == [var |-> "", dir |-> dir]
Under(variable, dir) == [var |-> variable, dir |-> dir]
FileName(base, suffix) == [absolute |-> FALSE, dir |-> "", base |-> base, suffix |-> suffix]
AbsoluteName(dir, base, suffix) ==
    [absolute |-> TRUE, dir |-> dir, base |-> base, suffix |-> suffix]
InDirectory(dir, base, suffix) == [dir |-> dir, base |-> base, suffix |-> suffix]
NotFound == InDirectory("", "", "")

\* An entry with a variable that is not in the environment is left out.
AddPathEntry(path, entry, start, environment) ==
    IF entry.var # "" /\ entry.var \notin DOMAIN environment THEN path
    ELSE LET dir == IF entry.var = "" THEN entry.dir ELSE environment[entry.var] \o entry.dir
         IN  IF start THEN <<dir>> \o path ELSE Append(path, dir)

\* The directories of a list go before the path; variables in them stay as they are.
DigestPathString(path, list) == list \o path

\* What _selectFile looks for in a directory.
Library(name, dir) == InDirectory(dir, "lib" \o name.base, ".so")
Config(name, dir) ==
    InDirectory(dir, name.base, IF name.suffix = "" THEN ".minvr" ELSE name.suffix)

\* An absolute name as it is; otherwise the first of the candidates that is there,
\* which come in the order of the path.
FindFile(name, candidates, files) ==
    LET itself == InDirectory(name.dir, name.base, name.suffix)
        found  == {i \in DOMAIN candidates : candidates[i] \in files}
    IN  IF name.absolute /\ itself \in files THEN itself
        ELSE IF found = {} THEN NotFound ELSE candidates[Min(found)]
FindLibrary(path, name, files) ==
    FindFile(name, [i \in DOMAIN path |-> Library(name, path[i])], files)
FindConfig(path, name, files) ==
    FindFile(name, [i \in DOMAIN path |-> Config(name, path[i])], files)

Entries(path, entries, environment) ==
    FoldLeft(LAMBDA p, e : AddPathEntry(p, e, FALSE, environment), path, entries)

SearchPlugin(environment) ==
    Entries(<<>>, <<Directory("./"), Under("MINVR_ROOT", "/lib/"), Under("MINVR_ROOT", "/bin/"),
                    Directory("install/"), Directory("build/")>>, environment)
SearchConfig(environment) ==
    Entries(<<>>, <<Directory("./"), Directory("./config/"), Directory("./Config/"),
                    Directory("./minvr/"), Directory("./MinVR/"),
                    Under("MINVR_ROOT", "/share/"), Directory("install/"), Directory("build/")>>,
            environment)
=============================================================================
