---------------------------- MODULE MCClassPath ----------------------------
(***************************************************************************)
(* Command lines and file systems for ClassPath: class Lib in the jre,     *)
(* class App in a directory, an archive, both or neither, whole, linked or *)
(* damaged, in archives that are there, missing or locked.                 *)
(***************************************************************************)
EXTENDS ClassPath

Option(kind) == [kind |-> kind, value |-> "-" \o kind]
Word(text) == [kind |-> "word", value |-> text]
Xjre == <<Option("jre"), Word("jdk")>>

(* Lines about the command, and lines about the class path *)
Starts == {<< >>, Xjre, <<Option("cp"), Word("dir:jar"), Option("cp"), Word("jar:dir")>>,
           <<Option("memory"), Word("64m")>>, <<Option("unknown")>>, <<Option("version")>>,
           <<Option("cp"), Option("help")>>, <<Option("cp")>>, <<Option("end")>>,
           <<Option("end"), Option("version")>>}
Ends == {<< >>, <<Word("")>>, <<Word("Main")>>, <<Word("Main"), Word("arg")>>,
         <<Word("Main"), Option("unknown")>>, <<Word("Main"), Option("cp"), Word("dir:jar")>>}
Searches == {Xjre \o <<Option("cp"), Word(cp), Word("Main")>> :
               cp \in {"dir:jar", "jar:dir", "dir/*", ":jar"}}
MCCommandLines == {start \o end : start \in Starts, end \in Ends} \cup Searches

Entry(kind, path) == [kind |-> kind, path |-> path]
Lists ==
  ("dir:jar" :> <<Entry("dir", "dir"), Entry("zip", "jar")>>)
    @@ ("jar:dir" :> <<Entry("zip", "jar"), Entry("dir", "dir")>>)
    @@ ("dir/*" :> <<Entry("star", "dir")>>)
    @@ (":jar" :> <<Entry("empty", ""), Entry("zip", "jar")>>)
MCClassPaths ==
  [text \in UNION {{l[i].value : i \in DOMAIN l} : l \in MCCommandLines} |->
     IF text \in DOMAIN Lists THEN Lists[text] ELSE <<Entry("dir", text)>>]

Archive(classes, broken, locked) == [classes |-> classes, broken |-> broken, locked |-> locked]
Missing == << >>
Jar(archive) == "jar" :> archive
System(files, links, jar, makeable, jres, javaHome) ==
  [files |-> [f \in files |-> 2], links |-> links,
   archives |-> jar @@ ("rt" :> Archive({"Lib"}, {}, {})), makeable |-> makeable,
   listing |-> ("dir" :> <<"jar">>) @@ ("jdk/lib" :> <<"rt">>),
   jres |-> jres, javaHome |-> javaHome,
   lib |-> [j \in {"jdk", "./jre", "home/jre"} |-> j \o "/lib"],
   ext |-> [j \in {"jdk", "./jre", "home/jre"} |-> j \o "/lib/ext"]]

App == <<"dir", "App">>
MCSystems ==
  {System(files, links, jar, makeable, {"jdk"}, "") :
     files \in {{}, {App}, {<<"", "App">>}}, links \in {{}, {App}}, makeable \in {{}, {"jar"}},
     jar \in {Jar(Archive({"App"}, {}, {})), Jar(Archive({}, {}, {})), Missing,
              Jar(Archive({"App"}, {"App"}, {})), Jar(Archive({"App"}, {}, {"App"}))}}
  \cup {System({}, {}, Missing, {"jar"}, jres, home) :
          jres \in {{}, {"./jre"}}, home \in {"", "home/jre"}}

MCQueries == [class : {"Lib", "App"}, via : {"boot", "app", "parser"}, suffix : {TRUE}]
               \cup [class : {"App"}, via : {"app", "ext"}, suffix : {FALSE}]
MCSizes == {1, 2, 3}
=============================================================================
