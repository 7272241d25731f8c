----------------------------- MODULE ClassPath -----------------------------
(***************************************************************************)
(* The command line (command.cpp, main.cpp) and the class path it gives    *)
(* (class_path_parser.cpp, class_reader.cpp), read from a file system that *)
(* others may change while the JVM runs.                                   *)
(*                                                                         *)
(* A reader is a directory or an archive; composite and wildcard readers   *)
(* only put readers one behind another, so a class path is the sequence of *)
(* its directories and archives.  Of a file its size is kept, of a class   *)
(* file that was read how many bytes were taken.                           *)
(***************************************************************************)
EXTENDS Integers, Sequences, SequencesExt

CONSTANTS
  CommandLines,   \* sequences of tokens [kind, value]
  ClassPaths,     \* the class path that each text spells as value of -cp: a sequence
                  \* of entries [kind, path], kind "dir", "zip", "star", "empty"
  WorkingDir,     \* the current directory
  Systems,        \* file systems: the sizes of class files by <<directory, class>>,
                  \* links, the ones that are links, archives by path, each with
                  \* the classes it lists, the ones whose entry is broken and
                  \* the ones it is locked for, makeable, the paths a file can be
                  \* made at, listing, the archives of each directory, jres, the
                  \* directories that can be a jre, javaHome, and lib and ext,
                  \* the paths below a jre
  LinkSize,       \* the size lstat gives of a link
  Sizes,          \* sizes that a class file can change to
  Queries         \* class files asked for: [class, via, suffix], via a reader
                  \* or "parser", which is ClassPathParser::ReadClass

TokenKinds == {"word", "cp", "jre", "memory", "version", "help", "unknown", "end"}
EntryKinds == {"dir", "zip", "star", "empty"}
Vias == {"boot", "ext", "app", "parser"}

(* Every text that stands on a command line spells some class path. *)
ASSUME LinesAssumption ==
  \A l \in CommandLines : l \in Seq([kind : TokenKinds, value : DOMAIN ClassPaths])

ASSUME ClassPathsAssumption ==
  /\ \A text \in DOMAIN ClassPaths : ClassPaths[text] \in Seq([kind : EntryKinds, path : STRING])
  /\ WorkingDir \in STRING

(* lstat fails for an empty path, so it has no listing. *)
ASSUME SystemsAssumption ==
  /\ \A s \in Systems :
       /\ DOMAIN s = {"files", "links", "archives", "makeable", "listing", "jres", "javaHome",
                      "lib", "ext"}
       /\ \A f \in DOMAIN s.files : s.files[f] \in Nat
       /\ "" \notin DOMAIN s.listing
       /\ \A path \in DOMAIN s.listing : s.listing[path] \in Seq(STRING)
       /\ \A jre \in (s.jres \cup {s.javaHome}) \ {""} : s.lib[jre] \in STRING /\ s.ext[jre] \in STRING
  /\ LinkSize \in Nat /\ Sizes \subseteq Nat

ASSUME QueriesAssumption == \A q \in Queries : q.via \in Vias

VARIABLES
  line,     \* the command line; never changes
  system,   \* the file system
  command,  \* what ParseCommand made of the line
  readers,  \* boot_class_reader_, ext_class_reader_ and app_class_reader_
  query,    \* the class that is read
  left,     \* the readers that have not been asked yet
  size,     \* the size DirClassReader has from lstat, None or Garbage
  changed,  \* when others changed the file system, which they do once: "not",
            \* "within", between lstat and the read of a file, or "apart"
  answer,   \* what was found: [reader, file, taken]
  status    \* "command", "paths", "ready", "reading", "found", "missing",
            \* "printed", "fatal", "thrown", "crashed", "undefined"

vars == <<line, system, command, readers, query, left, size, changed, answer, status>>

None == -1
Garbage == -2     \* a struct stat that lstat did not fill
NoAnswer == [reader |-> [kind |-> "none", path |-> ""], file |-> None, taken |-> None]
NoCommand == [cp |-> "", jre |-> "", version |-> FALSE, help |-> FALSE, words |-> << >>,
              wants |-> "", ended |-> FALSE]

Init ==
  /\ line \in CommandLines
  /\ system \in Systems
  /\ command = NoCommand
  /\ readers = [r \in {"boot", "ext", "app"} |-> << >>]
  /\ query \in Queries
  /\ left = << >>
  /\ size = None
  /\ changed = "not"
  /\ answer = NoAnswer
  /\ status = "command"

-----------------------------------------------------------------------------
(* The command line *)

(* getopt_long_only takes options from anywhere before "--", the argument  *)
(* of an option being the next token whatever it is, and keeps the rest in *)
(* order.  Options it does not know, -Xmx512m among them, ask for help.    *)
Taken(cmd, token) ==
  CASE cmd.wants = "cp" -> [cmd EXCEPT !.cp = token.value, !.wants = ""]
    [] cmd.wants = "jre" -> [cmd EXCEPT !.jre = token.value, !.wants = ""]
    [] cmd.wants = "memory" -> [cmd EXCEPT !.wants = ""]
    [] cmd.wants = "" /\ (cmd.ended \/ token.kind = "word") ->
         [cmd EXCEPT !.words = Append(@, token.value)]
    [] cmd.wants = "" /\ ~cmd.ended /\ token.kind \in {"cp", "jre", "memory"} ->
         [cmd EXCEPT !.wants = token.kind]
    [] cmd.wants = "" /\ ~cmd.ended /\ token.kind = "version" -> [cmd EXCEPT !.version = TRUE]
    [] cmd.wants = "" /\ ~cmd.ended /\ token.kind \in {"help", "unknown"} ->
         [cmd EXCEPT !.help = TRUE]
    [] cmd.wants = "" /\ ~cmd.ended /\ token.kind = "end" -> [cmd EXCEPT !.ended = TRUE]

Parsed(tokens) ==
  LET scan[i \in 0 .. Len(tokens)] ==
        IF i = 0 THEN NoCommand ELSE Taken(scan[i - 1], tokens[i])
      cmd == scan[Len(tokens)]
  IN IF cmd.wants /= "" THEN [cmd EXCEPT !.help = TRUE] ELSE cmd

(* Mutant: the JVM is started without a class. *)
ParseCommandNoClass ==
  /\ status = "command"
  /\ command' = Parsed(line)
  /\ status' = IF command'.version \/ command'.help THEN "printed" ELSE "paths"
  /\ UNCHANGED <<line, system, readers, query, left, size, changed, answer>>

(* ParseCommand, and main, which starts the JVM for a class only, whose    *)
(* name is not empty                                                       *)
ParseCommand ==
  /\ status = "command"
  /\ command' = Parsed(line)
  /\ status' = IF \/ command'.version \/ command'.help
                  \/ command'.words = << >> \/ command'.words[1] = ""
               THEN "printed" ELSE "paths"
  /\ UNCHANGED <<line, system, readers, query, left, size, changed, answer>>

-----------------------------------------------------------------------------
(* Class paths *)

DirReader(path) == [kind |-> "dir", path |-> path]
ZipReader(path) == [kind |-> "zip", path |-> path]

(* GetFiles: the archives of a directory in its own order; what is no      *)
(* directory has none.                                                     *)
GetFiles(path) == IF path \in DOMAIN system.listing THEN system.listing[path] ELSE << >>

(* WildcardClassReader: the directory itself, then its archives *)
Wildcard(path) ==
  <<DirReader(path)>> \o [i \in DOMAIN GetFiles(path) |-> ZipReader(GetFiles(path)[i])]

(* The readers made for one entry: the search for "*" at the end takes an  *)
(* empty entry for a wildcard, whose directory is the root.                *)
EntryReaders(e) ==
  CASE e.kind = "dir" -> <<DirReader(e.path)>>
    [] e.kind = "zip" -> <<ZipReader(e.path)>>
    [] e.kind = "star" -> Wildcard(e.path)
    [] e.kind = "empty" -> Wildcard("")

(* Mutant: archives before directories. *)
CreateClassReaderArchivesFirst(entries) ==
  LET all == FlattenSeq([i \in DOMAIN entries |-> EntryReaders(entries[i])])
  IN SelectSeq(all, LAMBDA r : r.kind = "zip") \o SelectSeq(all, LAMBDA r : r.kind = "dir")

(* A list of entries is split, and each has its reader behind the ones     *)
(* before.                                                                 *)
CreateClassReader(entries) ==
  FlattenSeq([i \in DOMAIN entries |-> EntryReaders(entries[i])])

(* GetJreDir: -Xjre and ./jre if they are directories and no links to      *)
(* some, then JAVA_HOME unseen                                             *)
GetJreDir ==
  IF command.jre \in system.jres THEN command.jre
  ELSE IF "./jre" \in system.jres THEN "./jre"
  ELSE system.javaHome

AppEntries == IF command.cp = "" THEN <<DirReader(WorkingDir)>> ELSE ClassPaths[command.cp]

(* ClassPathParser::Parse *)
ParseClassPaths ==
  /\ status = "paths"
  /\ IF GetJreDir = ""
     THEN status' = "fatal" /\ UNCHANGED readers
     ELSE /\ readers' =
               [boot |-> Wildcard(system.lib[GetJreDir]),
                ext |-> Wildcard(system.ext[GetJreDir]),
                app |-> CreateClassReader(AppEntries)]
          /\ status' = "ready"
  /\ UNCHANGED <<line, system, command, query, left, size, changed, answer>>

-----------------------------------------------------------------------------
(* Reading a class file *)

(* ReadClass is called.  CheckClassPathValid turns down a name without     *)
(* ".class"; ClassPathParser::ReadClass appends it and asks all readers.   *)
ReadClass ==
  /\ status = "ready"
  /\ IF query.via = "parser" \/ query.suffix
     THEN /\ left' = IF query.via = "parser" THEN readers.boot \o readers.ext \o readers.app
                     ELSE readers[query.via]
          /\ status' = "reading"
     ELSE status' = "missing" /\ UNCHANGED left
  /\ UNCHANGED <<line, system, command, readers, query, size, changed, answer>>

Asked == left[1]
File == <<Asked.path, query.class>>
Asking(kind) == status = "reading" /\ left /= << >> /\ Asked.kind = kind

NextReader == left' = Tail(left)

Found(file, taken) ==
  /\ answer' = [reader |-> Asked, file |-> file, taken |-> taken]
  /\ status' = "found"
  /\ UNCHANGED left

(* DirClassReader::ReadClass up to lstat *)
Lstat ==
  /\ Asking("dir") /\ size = None
  /\ size' = IF File \in system.links THEN LinkSize
             ELSE IF File \in DOMAIN system.files THEN system.files[File] ELSE Garbage
  /\ UNCHANGED <<line, system, command, readers, query, left, changed, answer, status>>

(* Mutant: that the read fell short is not noticed. *)
ReadFileUnchecked ==
  /\ Asking("dir") /\ size /= None
  /\ size' = None
  /\ IF File \notin DOMAIN system.files
     THEN NextReader /\ UNCHANGED <<answer, status>>
     ELSE IF size = Garbage THEN status' = "undefined" /\ UNCHANGED <<left, answer>>
     ELSE Found(system.files[File], size)
  /\ UNCHANGED <<line, system, command, readers, query, changed>>

(* The rest of it: the file is opened and as many bytes read *)
ReadFile ==
  /\ Asking("dir") /\ size /= None
  /\ size' = None
  /\ IF File \notin DOMAIN system.files
     THEN NextReader /\ UNCHANGED <<answer, status>>
     ELSE IF size = Garbage THEN status' = "undefined" /\ UNCHANGED <<left, answer>>
     ELSE IF size > system.files[File] THEN NextReader /\ UNCHANGED <<answer, status>>
     ELSE Found(system.files[File], size)
  /\ UNCHANGED <<line, system, command, readers, query, changed>>

(* ZipClassReader::ReadClass for an archive that opens; of a damaged one   *)
(* fewer classes are listed.  An entry that needs a password has no        *)
(* stream, which is used all the same.                                     *)
ReadArchive ==
  /\ Asking("zip") /\ Asked.path \in DOMAIN system.archives
  /\ LET archive == system.archives[Asked.path] IN
     IF query.class \in archive.classes \cap archive.locked
     THEN status' = "crashed" /\ UNCHANGED <<left, answer>>
     ELSE IF query.class \in archive.classes \ archive.broken THEN Found(0, 0)
     ELSE NextReader /\ UNCHANGED <<answer, status>>
  /\ UNCHANGED <<line, system, command, readers, query, size, changed>>

(* For an archive that does not: ZipFile::Open makes an empty file in its  *)
(* place, and throws if it cannot, which nothing catches.                  *)
EmptyArchive == [classes |-> {}, broken |-> {}, locked |-> {}]
OpenMissing ==
  /\ Asking("zip") /\ Asked.path \notin DOMAIN system.archives
  /\ IF Asked.path \in system.makeable
     THEN /\ system' = [system EXCEPT !.archives =
                          [a \in DOMAIN @ \cup {Asked.path} |->
                             IF a = Asked.path THEN EmptyArchive ELSE @[a]]]
          /\ NextReader
          /\ UNCHANGED status
     ELSE status' = "thrown" /\ UNCHANGED <<system, left>>
  /\ UNCHANGED <<line, command, readers, query, size, changed, answer>>

(* No reader is left *)
NotFound ==
  /\ status = "reading" /\ left = << >>
  /\ status' = IF query.via = "parser" THEN "fatal" ELSE "missing"
  /\ UNCHANGED <<line, system, command, readers, query, left, size, changed, answer>>

-----------------------------------------------------------------------------
(* Others write, make or remove a class file, or remove or damage an       *)
(* archive, while a class is read.                                         *)
Disturb(fs) ==
  /\ status = "reading" /\ changed = "not"
  /\ system' = fs
  /\ changed' = IF size = None THEN "apart" ELSE "within"
  /\ UNCHANGED <<line, command, readers, query, left, size, answer, status>>

WriteFile ==
  \E r \in ToSet(left), n \in Sizes :
    /\ r.kind = "dir"
    /\ LET f == <<r.path, query.class>> IN
       Disturb([system EXCEPT !.files =
                  [g \in DOMAIN @ \cup {f} |-> IF g = f THEN n ELSE @[g]]])

RemoveFile ==
  \E f \in DOMAIN system.files :
    Disturb([system EXCEPT !.files = [g \in DOMAIN @ \ {f} |-> @[g]], !.links = @ \ {f}])

RemoveArchive ==
  \E a \in DOMAIN system.archives :
    Disturb([system EXCEPT !.archives = [b \in DOMAIN @ \ {a} |-> @[b]]])

DamageArchive ==
  \E a \in DOMAIN system.archives : Disturb([system EXCEPT !.archives[a] = EmptyArchive])

Next ==
  \/ ParseCommand \/ ParseClassPaths \/ ReadClass
  \/ Lstat \/ ReadFile \/ ReadArchive \/ OpenMissing \/ NotFound
  \/ WriteFile \/ RemoveFile \/ RemoveArchive \/ DamageArchive

Spec == Init /\ [][Next]_vars

-----------------------------------------------------------------------------
(* Properties *)

Words(tokens) == \A i \in DOMAIN tokens : tokens[i].kind = "word"

(* The last argument of option kind before position k, if there is one *)
LastOption(kind, k) ==
  LET at == {i \in 1 .. k - 1 : line[i].kind = kind /\ (i = 1 \/ line[i - 1].kind \notin
                                                          {"cp", "jre", "memory"})}
  IN IF at = {} THEN "" ELSE line[(CHOOSE i \in at : \A j \in at : j <= i) + 1].value

(* Position k holds the class: options with their arguments stand before   *)
(* it, only words behind it                                                *)
Plain(k) ==
  /\ Words(SubSeq(line, k, Len(line)))
  /\ \A i \in 1 .. k - 1 :
       \/ line[i].kind \in {"cp", "jre", "memory"} /\ line[i + 1].kind = "word" /\ i + 1 < k
       \/ line[i].kind = "word" /\ i > 1 /\ line[i - 1].kind \in {"cp", "jre", "memory"}

(* A command line of options, a class and words runs that class with those *)
(* words and the last -cp and -Xjre, unless the name is empty; without a   *)
(* word, and without anything behind "--", there is no class and nothing   *)
(* runs.                                                                   *)
CommandMeant ==
  status \notin {"command"} =>
    /\ \A k \in DOMAIN line :
         Plain(k) => /\ status = "printed" <=> line[k].value = ""
                     /\ command.words = [i \in 1 .. Len(line) - k + 1 |-> line[k + i - 1].value]
                     /\ command.cp = LastOption("cp", k) /\ command.jre = LastOption("jre", k)
    /\ (\A i \in DOMAIN line : /\ line[i].kind /= "word"
                               /\ line[i].kind = "end" => i = Len(line))
         => status = "printed"

(* The entries that are searched, and the readers of one *)
Entries ==
  LET star(path) == [kind |-> "star", path |-> path]
      boot == <<star(system.lib[GetJreDir])>>
      ext == <<star(system.ext[GetJreDir])>>
  IN CASE query.via = "boot" -> boot
       [] query.via = "ext" -> ext
       [] query.via = "app" -> AppEntries
       [] query.via = "parser" -> boot \o ext \o AppEntries
ReadersOf(e) ==
  CASE e.kind = "dir" -> {DirReader(e.path)}
    [] e.kind = "zip" -> {ZipReader(e.path)}
    [] e.kind = "star" -> {DirReader(e.path)} \cup {ZipReader(a) : a \in ToSet(GetFiles(e.path))}
    [] e.kind = "empty" -> {DirReader("")}

Listed(r) == r.path \in DOMAIN system.archives /\ query.class \in system.archives[r.path].classes
Locked(r) == r.kind = "zip" /\ Listed(r) /\ query.class \in system.archives[r.path].locked
Unopenable(r) == r.kind = "zip" /\ r.path \notin DOMAIN system.archives \cup system.makeable
Holds(r) ==
  IF r.kind = "dir"
  THEN LET f == <<r.path, query.class>> IN
       f \in DOMAIN system.files /\ (f \in system.links => LinkSize <= system.files[f])
  ELSE Listed(r) /\ ~Locked(r) /\ query.class \notin system.archives[r.path].broken
Breaks(r) == IF status = "thrown" THEN Unopenable(r) ELSE Locked(r)

(* In a file system that others leave alone the class comes from the first *)
(* entry of the class path that has it, whatever archives before it are    *)
(* missing, damaged or made anew by the search itself; the search ends     *)
(* without it only if no entry has it.  It breaks off only at an archive   *)
(* that can be neither opened nor made, or at an entry that is locked, in  *)
(* an entry of the class path before which none has the class.             *)
FirstEntryWins ==
  status \in {"found", "thrown", "crashed", "missing", "fatal"} /\ changed = "not"
     /\ GetJreDir /= "" /\ (query.via = "parser" \/ query.suffix) =>
    LET some == {i \in DOMAIN Entries : \E r \in ReadersOf(Entries[i]) : Holds(r)}
    IN CASE status = "found" ->
              \E i \in some : /\ answer.reader \in ReadersOf(Entries[i]) /\ Holds(answer.reader)
                              /\ \A j \in some : i <= j
         [] status \in {"thrown", "crashed"} ->
              \E i \in DOMAIN Entries : /\ \E r \in ReadersOf(Entries[i]) : Breaks(r)
                                       /\ \A j \in some : i <= j
         [] OTHER -> some = {}

(* A class file that was read is whole, unless it is a link, of which only *)
(* as many bytes are read as the link is long, or was written to between   *)
(* lstat and the read, and never more is taken than the file has; a stat   *)
(* that was not filled is used only for a file made in between.            *)
WholeFile ==
  /\ status = "found" =>
       /\ answer.taken <= answer.file
       /\ \/ answer.taken = answer.file
          \/ <<answer.reader.path, query.class>> \in system.links
          \/ changed = "within"
  /\ status = "undefined" => changed = "within"
=============================================================================
