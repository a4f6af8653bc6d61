------------------------------ MODULE Installer ------------------------------
(***************************************************************************)
(* The installer library (iodbcinst/): processes that read and change the  *)
(* user's and the system's configuration files, each call loading whole    *)
(* files, changing them in memory and writing them out again.  No file is  *)
(* locked: the calls of two processes interleave between a load and a      *)
(* write.  A file is emptied when it is opened and written from its first  *)
(* byte: two processes that both have it open write over each other's text,*)
(* and a reader may find the first lines only.  A process has a            *)
(* configuration mode for its next call, and a setup library, which        *)
(* SQLConfigDataSource calls, makes calls of its own inside that call.     *)
(***************************************************************************)
EXTENDS IniFile, FiniteSets

CONSTANTS
  Procs,       \* processes, each with its own configuration mode
  MaxCalls     \* calls begun, those of setup libraries included

VARIABLES
  disk,        \* the lines of each file
  present,     \* files that exist
  readonly,    \* files that can be neither created nor written
  mode,        \* configMode of each process
  call,        \* the call of each process
  outer,       \* the call whose setup library a process is in
  made,        \* calls begun
  version,     \* how often a file has been opened for writing
  due,         \* what the changes asked for make of each file
  raced,       \* files written by a call that had not read what another wrote
  mixed,       \* of those, the files opened for writing while another process was writing
               \* them, or by a call that read them while they were written
  broken,      \* files a crash cut short, or written from a damaged table
  odd,         \* files where CreateDSN listed a data source without a section
  asked        \* the mode asked for the next call

vars == <<disk, present, readonly, mode, call, outer, made, version, due, raced, mixed, broken, odd, asked>>

Files == ({"user", "system"} \X {"odbc", "inst"}) \cup {<<"own", "dsn">>}
Cells ==
  {<<"sources", "d">>, <<"d", "Driver">>, <<"Default", "Driver">>, <<"drivers", "r">>,
   <<"r", "Driver">>, <<"r", "Setup">>, <<"translators", "t">>, <<"t", "Translator">>,
   <<"t", "Setup">>, <<"a", "k">>}

(* Contents of the files at first: a driver installed for the user or for  *)
(* the system, a data source of it, and comments of both kinds.            *)
Sources == <<SectionLine("sources"), Define("d", "r")>>
Source == <<Comment("block"), SectionLine("d"), Define("Driver", "lib")>>
Driver ==
  <<SectionLine("drivers"), Define("r", "Installed"), Comment("aside"), Comment("block"),
    SectionLine("r"), Define("Driver", "lib"), Define("Setup", "setup")>>
Beginnings ==
  {[f \in {<<"system", "inst">>} |-> Driver],
   [f \in {<<"user", "odbc">>, <<"system", "odbc">>, <<"user", "inst">>} |->
      IF f[2] = "inst" THEN Driver \o <<SectionLine("d")>>
      ELSE Source \o Sources \o <<SectionLine("a"), Define("k", "v"), Continue("v")>>]}

NoFile == <<Null, Null>>
NoCall == [fn |-> Null, s |-> Null, k |-> Null, v |-> Null, todo |-> <<>>, open |-> <<>>,
           at |-> 0, writing |-> FALSE, asked |-> "both", retry |-> FALSE]

TypeOK ==
  /\ present \subseteq Files /\ readonly \subseteq Files
  /\ mode \in [Procs -> {"both", "user", "system"}]
  /\ asked \in [Procs -> {"both", "user", "system"}]
  /\ raced \cup mixed \cup broken \cup odd \subseteq Files
  /\ \A p \in Procs : call[p].at \in 0 .. Len(call[p].open)

Init ==
  \E lines \in Beginnings :
  /\ disk = [f \in Files |-> IF f \in DOMAIN lines THEN lines[f] ELSE <<>>]
  /\ present = DOMAIN lines
  /\ readonly \in {{}, {<<"user", "inst">>, <<"user", "odbc">>}}
  /\ mode = [p \in Procs |-> "both"] /\ asked = mode
  /\ call = [p \in Procs |-> NoCall] /\ outer = call
  /\ made = 0
  /\ version = [f \in Files |-> 0]
  /\ due = [f \in Files |-> Meaning(disk[f], Cells)]
  /\ raced = {} /\ mixed = {} /\ broken = {} /\ odd = {}

-----------------------------------------------------------------------------
(* Which file a call means, and what it finds there. *)

(* _iodbcadm_getinifile *)
Path(scope, kind, create) ==
  LET user == <<"user", kind>> IN
  IF scope = "own" THEN <<"own", "dsn">>
  ELSE IF scope = "user" /\ (user \in present \/ (create /\ user \notin readonly)) THEN user
  ELSE IF scope = "system" \/ kind = "inst" THEN <<"system", kind>>
  ELSE NoFile

(* _iodbcdm_cfg_init *)
Opens(f, create) == f # NoFile /\ (f \in present \/ (create /\ f \notin readonly))

WritersOf(f) == {p \in Procs : call[p].writing /\ call[p].open[call[p].at].file = f}
BeingWritten(f) == WritersOf(f) # {}

(* What a writer may have put into its file before it closes it: nothing   *)
(* yet, or the first half of its lines.                                    *)
Unfinished(p) ==
  LET e == call[p].open[call[p].at] IN
  {disk[e.file], Overwritten(disk[e.file], Reread(FirstHalf(e.table.lines)))}

(* What can be read of a file. *)
Readable(f) == {disk[f]} \cup UNION {Unfinished(p) : p \in WritersOf(f)}

(* _iodbcdm_cfg_refresh; also whether the file was being written or may    *)
(* hold two texts, and whether the user had a file of the kind.            *)
Load(f, kind, lines) ==
  [file |-> f, kind |-> kind, table |-> Loaded(lines), version |-> version[f],
   torn |-> BeingWritten(f) \/ f \in mixed, users |-> <<"user", kind>> \in present]

(* The value of a key, of the user's file or of the system's. *)
Configured(kind, s, k) ==
  LET at(scope) == LET f == Path(scope, kind, FALSE) IN
                   IF Opens(f, FALSE) THEN Find(disk[f], s, k) ELSE Null
  IN IF at("user") # Null THEN at("user") ELSE at("system")

-----------------------------------------------------------------------------
(* The changes of a call: whether it comes to write them, and those of each*)
(* kind of file.                                                           *)

None == [ok |-> TRUE, odbc |-> <<>>, inst |-> <<>>, dsn |-> <<>>]
Refused == [None EXCEPT !.ok = FALSE]

WritePrivateProfileString(c) == <<<<c.s, c.k, c.v>>>>

Listed(s, v) == IF s = "Default" THEN <<>> ELSE <<<<"sources", s, v>>>>
Dropped(s) == <<<<s, Null, Null>>>>

WriteDSNToIni(c) ==
  LET library == Configured("inst", c.v, "Driver") IN
  IF library = Null THEN Refused
  ELSE [None EXCEPT !.odbc = Listed(c.s, c.v) \o Dropped(c.s) \o <<<<c.s, "Driver", library>>>>]

RemoveDSNFromIni(c) == [None EXCEPT !.odbc = Listed(c.s, Null) \o Dropped(c.s)]

(* The data source gets its section only where the drivers' file has none  *)
(* of its name.                                                            *)
do_create_dsns(inst, s, driver, description) ==
  Listed(s, description) \o Dropped(s) \o
  (IF SectionAt(inst.lines, s) = 0 /\ driver # Null THEN <<<<s, "Driver", driver>>>> ELSE <<>>)

(* The keys an installation is given, and how many of them come before     *)
(* CreateDSN where it is one of the attributes.                            *)
Attributes ==
  [Driver |-> <<"Driver">>, Translator |-> <<"Translator">>, bare |-> <<"Setup">>,
   source |-> <<"Driver", "Setup">>, early |-> <<"Driver">>]
CreateDSN == [source |-> 2, early |-> 0]

install_from_string(c, inst, list, library) ==
  LET keys == Attributes[c.k]
      driver == IF \E j \in 1 .. CreateDSN[c.k] : keys[j] = "Driver" THEN "lib" ELSE Null
  IN
  IF ~ Contains(keys, library) THEN Refused
  ELSE [None EXCEPT
    !.inst = Dropped(c.s) \o <<<<list, c.s, "Installed">>>> \o [i \in DOMAIN keys |-> <<c.s, keys[i], "lib">>],
    !.odbc = IF c.k \in DOMAIN CreateDSN THEN do_create_dsns(inst, c.v, driver, c.s) ELSE <<>>]

(* From an inf file, whose keys come in the order Driver, Setup, the others*)
(* and then those of a section of its own, CreateDSN among them.           *)
install_from_ini(c, inst) ==
  IF c.k = "bare" THEN Refused
  ELSE [None EXCEPT
    !.inst = Dropped(c.s) \o <<<<"drivers", c.s, "Installed">>, <<c.s, "Driver", "lib">>, <<c.s, "Setup", "lib">>>>,
    !.odbc = IF c.k = "source" THEN do_create_dsns(inst, c.v, "lib", c.s) ELSE <<>>]

(* Mutant: the data sources lose their sections and stay listed. *)
RemovedDriverListed(c, odbc) ==
  LET sources == {d \in Keys(odbc.lines, "sources") : Find(odbc.lines, "sources", d) = c.s} IN
  [None EXCEPT
    !.odbc = IF c.v = Null THEN <<>> ELSE [i \in 1 .. Cardinality(sources) |-> <<SetToSeq(sources)[i], Null, Null>>],
    !.inst = Dropped(c.s) \o <<<<"drivers", c.s, Null>>>>]

(* SQLRemoveDriver, with the data sources of the driver if v says so. *)
RemovedDriver(c, odbc) ==
  LET sources == {d \in Keys(odbc.lines, "sources") : Find(odbc.lines, "sources", d) = c.s}
      source(i) == SetToSeq(sources)[(i + 1) \div 2]
  IN [None EXCEPT
       !.odbc = IF c.v = Null THEN <<>>
                ELSE [i \in 1 .. 2 * Cardinality(sources) |->
                        IF i % 2 = 1 THEN <<source(i), Null, Null>> ELSE <<"sources", source(i), Null>>],
       !.inst = Dropped(c.s) \o <<<<"drivers", c.s, Null>>>>]

Changes(c, open) ==
  CASE c.fn = "SQLWritePrivateProfileString" -> [None EXCEPT !.odbc = WritePrivateProfileString(c)]
    [] c.fn = "SQLWriteFileDSN" -> [None EXCEPT !.dsn = WritePrivateProfileString(c)]
    [] c.fn = "SQLWriteDSNToIni" -> WriteDSNToIni(c)
    [] c.fn = "SQLRemoveDSNFromIni" -> RemoveDSNFromIni(c)
    [] c.fn = "SQLInstallDriver" -> install_from_ini(c, open[1].table)
    [] c.fn = "SQLInstallDriverEx" -> install_from_string(c, open[1].table, "drivers", "Driver")
    [] c.fn = "SQLInstallTranslatorEx" -> install_from_string(c, open[1].table, "translators", "Translator")
    [] c.fn = "SQLRemoveDriver" -> RemovedDriver(c, open[1].table)
    [] c.fn = "SQLRemoveTranslator" -> [None EXCEPT !.inst = <<<<"translators", c.s, Null>>>> \o Dropped(c.s)]
    [] c.fn = "RemoveDefaultDataSource" -> [RemoveDSNFromIni(c) EXCEPT !.inst = Dropped(c.s)]
    [] OTHER -> None

(* Whether CreateDSN lists a data source without giving it a section. *)
Unsectioned(c, open) ==
  \E change \in Range(Changes(c, open).odbc) :
    change[1] = "sources" /\ change[3] # Null /\
    ~ \E other \in Range(Changes(c, open).odbc) : other[1] = change[2] /\ other[2] = "Driver"

-----------------------------------------------------------------------------
(* Attempts of a call, each on one scope; a later one is made where the one*)
(* before it came to one of the results in "after".                        *)

Attempt(scope, kinds, create, after) ==
  [scope |-> scope, kinds |-> kinds, create |-> create, after |-> after]

Once(p, kinds, create) ==
  <<Attempt(IF mode[p] = "system" THEN "system" ELSE "user", kinds, create, {})>>

UserThenSystem(p, kinds, create, after) ==
  IF mode[p] = "both"
  THEN <<Attempt("user", kinds, create, {}), Attempt("system", kinds, create, after)>>
  ELSE Once(p, kinds, create)

(* Functions that leave the mode as it is (the last one resets a variable  *)
(* of its own that has the mode's name).                                   *)
Keeping == {"SQLRemoveTranslator", "SQLReadFileDSN", "SQLWriteFileDSN", "GetTranslator"}

(* Mutant: the mode is reset only when a call succeeds. *)
ResetModeOnSuccess(p, c, result) ==
  mode' = [mode EXCEPT ![p] = IF c.fn \in Keeping \/ result # "done" THEN @ ELSE "both"]

ResetMode(p, c, result) ==
  mode' = [mode EXCEPT ![p] = IF c.fn \in Keeping THEN @ ELSE "both"]

(* An attempt is over. *)
Over(p, result) ==
  LET rest == Tail(call[p].todo) IN
  IF rest # <<>> /\ result \in Head(rest).after
  THEN /\ call' = [call EXCEPT ![p].todo = rest, ![p].open = <<>>, ![p].at = 0, ![p].writing = FALSE,
                                 ![p].retry = TRUE]
       /\ UNCHANGED mode
  ELSE /\ call' = [call EXCEPT ![p] = NoCall]
       /\ ResetMode(p, call[p], result)

(* Files of the call still to be written, from place i on. *)
NextDirty(open, i) == First({j \in i .. Len(open) : open[j].table.dirty}, 0)

Callbacks == {"SQLConfigDataSource", "SQLConfigDriver", "GetTranslator"}

(* All files of an attempt are loaded. *)
Edited(p, open) ==
  LET c == call[p]
      changes == Changes(c, open)
      changed(e) == [e EXCEPT !.table = Written(@, changes[e.kind])]
      new == [i \in DOMAIN open |-> changed(open[i])]
  IN
  IF c.fn \in Callbacks THEN call' = [call EXCEPT ![p].open = open] /\ UNCHANGED mode
  ELSE IF c.fn = "SQLGetPrivateProfileString"
  THEN Over(p, IF c.v = Null /\ Find(open[1].table.lines, c.s, c.k) = Null THEN "empty" ELSE "done")
  ELSE IF ~ changes.ok THEN Over(p, "failed")
  ELSE IF NextDirty(new, 1) = 0 THEN Over(p, "done")
  ELSE call' = [call EXCEPT ![p].open = new, ![p].at = NextDirty(new, 1)] /\ UNCHANGED mode

-----------------------------------------------------------------------------
(* The steps of a call. *)

(* The next file of the attempt is opened and read. *)
Open(p) ==
  LET c == call[p]
      this == Head(c.todo)
      kind == this.kinds[Len(c.open) + 1]
      f == Path(this.scope, kind, this.create)
  IN
  /\ c.todo # <<>> /\ c.at = 0 /\ Len(c.open) < Len(this.kinds)
  /\ IF ~ Opens(f, this.create)
     THEN Over(p, IF f = NoFile THEN "nopath" ELSE "failed") /\ UNCHANGED present
     ELSE /\ present' = present \cup {f}
          /\ \E lines \in Readable(f) :
               LET open == Append(c.open, Load(f, kind, lines)) IN
               IF Len(open) < Len(this.kinds)
               THEN call' = [call EXCEPT ![p].open = open] /\ UNCHANGED mode
               ELSE Edited(p, open)
  /\ UNCHANGED <<disk, readonly, outer, made, version, due, raced, mixed, broken, odd, asked>>

(* _iodbcdm_cfg_commit: the file is emptied ... *)
Truncate(p) ==
  LET c == call[p]
      e == c.open[c.at]
      mixes == e.torn \/ BeingWritten(e.file)
  IN
  /\ c.at # 0 /\ ~ c.writing
  /\ IF e.file \in readonly
     THEN Over(p, "failed") /\ UNCHANGED <<disk, version, raced, mixed, broken>>
     ELSE /\ disk' = [disk EXCEPT ![e.file] = <<>>]
          /\ version' = [version EXCEPT ![e.file] = @ + 1]
          /\ raced' = IF mixes \/ e.version # version[e.file] THEN raced \cup {e.file} ELSE raced
          /\ mixed' = IF mixes THEN mixed \cup {e.file} ELSE mixed
          /\ broken' = IF e.table.damaged THEN broken \cup {e.file} ELSE broken
          /\ call' = [call EXCEPT ![p].writing = TRUE]
          /\ UNCHANGED mode
  /\ UNCHANGED <<present, readonly, outer, made, due, odd, asked>>

(* ... and the table is written to it, from its first byte. *)
Flush(p) ==
  LET c == call[p]  e == c.open[c.at]  next == NextDirty(c.open, c.at + 1) IN
  /\ c.writing
  /\ disk' = [disk EXCEPT ![e.file] = Overwritten(@, Reread(e.table.lines))]
  /\ due' = [due EXCEPT ![e.file] = Asked(@, e.table.log)]
  /\ odd' = IF e.kind = "odbc" /\ Unsectioned(c, c.open) THEN odd \cup {e.file} ELSE odd
  /\ IF next = 0 THEN Over(p, "done")
     ELSE call' = [call EXCEPT ![p].at = next, ![p].writing = FALSE] /\ UNCHANGED mode
  /\ UNCHANGED <<present, readonly, outer, made, version, raced, mixed, broken, asked>>

(* The process dies in between; the first lines may have been written.  A  *)
(* new process takes its place.                                            *)
Crash(p) ==
  LET c == call[p]  e == c.open[c.at] IN
  /\ c.writing
  /\ \E lines \in Unfinished(p) : disk' = [disk EXCEPT ![e.file] = lines]
  /\ broken' = broken \cup {e.file}
  /\ mode' = [mode EXCEPT ![p] = "both"] /\ asked' = [asked EXCEPT ![p] = "both"]
  /\ call' = [call EXCEPT ![p] = NoCall] /\ outer' = [outer EXCEPT ![p] = NoCall]
  /\ UNCHANGED <<present, readonly, made, version, due, raced, mixed, odd>>

(* A setup library of the drivers' file, or the last resort, is called;    *)
(* before that every candidate of the attempt may have failed to load.     *)
Candidates(p) ==
  LET c == call[p] IN
  c.fn \in Callbacks /\ c.todo # <<>> /\ Len(c.open) = Len(Head(c.todo).kinds)

CallLibrary(p) ==
  /\ Candidates(p)
  /\ outer' = [outer EXCEPT ![p] = call[p]]
  /\ call' = [call EXCEPT ![p] = NoCall]
  /\ UNCHANGED <<disk, present, readonly, mode, made, version, due, raced, mixed, broken, odd, asked>>

NoLibrary(p) ==
  /\ Candidates(p)
  /\ Over(p, "failed")
  /\ asked' = [asked EXCEPT
                 ![p] = IF call'[p] # NoCall \/ call[p].fn \in Keeping THEN @ ELSE "both"]
  /\ UNCHANGED <<disk, present, readonly, outer, made, version, due, raced, mixed, broken, odd>>

LibraryReturns(p) ==
  /\ call[p] = NoCall /\ outer[p] # NoCall
  /\ ResetMode(p, outer[p], "done")
  /\ outer' = [outer EXCEPT ![p] = NoCall]
  /\ asked' = [asked EXCEPT ![p] = IF outer[p].fn \in Keeping THEN @ ELSE "both"]
  /\ UNCHANGED <<disk, present, readonly, call, made, version, due, raced, mixed, broken, odd>>

-----------------------------------------------------------------------------
(* The functions.  A call begins: the attempts it will make are those of   *)
(* the mode it finds.                                                      *)

Begin(p, fn, s, k, v, todo) ==
  /\ call[p] = NoCall /\ made < MaxCalls
  /\ made' = made + 1
  /\ call' = [call EXCEPT ![p] = [NoCall EXCEPT !.fn = fn, !.s = s, !.k = k, !.v = v,
                                                !.todo = todo, !.asked = asked[p]]]
  /\ asked' = [asked EXCEPT ![p] = IF fn \in Keeping \cup Callbacks THEN @ ELSE "both"]
  /\ UNCHANGED <<disk, present, readonly, outer, version, due, raced, mixed, broken, odd>>

SQLSetConfigMode(p) ==
  \E m \in {"both", "user", "system"} :
  /\ call[p] = NoCall /\ mode[p] # m /\ made < MaxCalls
  /\ mode' = [mode EXCEPT ![p] = m] /\ asked' = [asked EXCEPT ![p] = m]
  /\ UNCHANGED <<disk, present, readonly, call, outer, made, version, due, raced, mixed, broken, odd>>

(* Without a file name the system's file is tried only where the user has  *)
(* none and cannot have one.                                               *)
SQLWritePrivateProfileString(p) ==
  \E change \in {<<"a", "k", "v">>, <<"a", "k", Cut>>, <<"a", "k", Null>>, <<"a", Null, Null>>},
     named \in BOOLEAN :
  /\ Begin(p, "SQLWritePrivateProfileString", change[1], change[2], change[3],
           UserThenSystem(p, <<"odbc">>, TRUE, IF named THEN {"nopath", "failed"} ELSE {"nopath"}))
  /\ UNCHANGED mode

(* A default that is not empty is an answer of the user's file. *)
SQLGetPrivateProfileString(p) ==
  \E default \in {Null, "v"} :
  /\ Begin(p, "SQLGetPrivateProfileString", "a", "k", default,
           UserThenSystem(p, <<"odbc">>, FALSE, {"nopath", "failed", "empty"}))
  /\ UNCHANGED mode

SQLWriteDSNToIni(p) ==
  \E s \in {"d", "Default"}, r \in {"r", "t"} :
  /\ Begin(p, "SQLWriteDSNToIni", s, Null, r, UserThenSystem(p, <<"odbc">>, TRUE, {"nopath", "failed"}))
  /\ UNCHANGED mode

SQLRemoveDSNFromIni(p) ==
  \E s \in {"d", "Default"} :
  /\ Begin(p, "SQLRemoveDSNFromIni", s, Null, Null, UserThenSystem(p, <<"odbc">>, TRUE, {"nopath", "failed"}))
  /\ UNCHANGED mode

SQLInstallDriver(p) ==
  \E given \in {"Driver", "source", "bare"} :
  /\ Begin(p, "SQLInstallDriver", "r", given, "d", Once(p, <<"inst", "odbc">>, TRUE))
  /\ UNCHANGED mode

SQLInstallDriverEx(p) ==
  \E given \in {"Driver", "source", "early", "bare"} :
  /\ Begin(p, "SQLInstallDriverEx", "r", given, "d", Once(p, <<"inst", "odbc">>, TRUE))
  /\ UNCHANGED mode

SQLInstallTranslatorEx(p) ==
  \E given \in {"Translator", "bare"} :
  /\ Begin(p, "SQLInstallTranslatorEx", "t", given, Null, Once(p, <<"inst", "odbc">>, TRUE))
  /\ UNCHANGED mode

SQLRemoveDriver(p) ==
  \E sources \in {Null, "sources"} :
  /\ Begin(p, "SQLRemoveDriver", "r", Null, sources, Once(p, <<"odbc", "inst">>, FALSE))
  /\ UNCHANGED mode

(* Whatever the mode, and the mode stays. *)
SQLRemoveTranslator(p) ==
  /\ Begin(p, "SQLRemoveTranslator", "t", Null, Null, <<Attempt("user", <<"inst">>, FALSE, {})>>)
  /\ UNCHANGED mode

(* The section is removed from the user's data sources and then, whatever  *)
(* the mode, from both files of drivers.                                   *)
RemoveDefaultDataSource(p) ==
  /\ Begin(p, "RemoveDefaultDataSource", "Default", Null, Null,
           <<Attempt("user", <<"odbc">>, TRUE, {}), Attempt("user", <<"inst">>, TRUE, {"done"}),
             Attempt("system", <<"inst">>, TRUE, {"done"})>>)
  /\ UNCHANGED mode

(* A name without a directory is looked up first, which resets the mode.   *)
(* _iodbcdm_getdsnfile                                                     *)
Looked(p, directory) ==
  /\ mode' = [mode EXCEPT ![p] = IF directory THEN @ ELSE "both"]
  /\ asked' = [asked EXCEPT ![p] = IF directory THEN @ ELSE "both"]

OwnFile(p, fn, create) ==
  \E directory \in BOOLEAN :
  /\ call[p] = NoCall /\ made < MaxCalls
  /\ made' = made + 1
  /\ call' = [call EXCEPT ![p] = [NoCall EXCEPT !.fn = fn, !.s = "a", !.k = "k", !.v = "v",
                                    !.todo = <<Attempt("own", <<"dsn">>, create, {})>>]]
  /\ Looked(p, directory)
  /\ UNCHANGED <<disk, present, readonly, outer, version, due, raced, mixed, broken, odd>>

SQLWriteFileDSN(p) == OwnFile(p, "SQLWriteFileDSN", TRUE)
SQLReadFileDSN(p) == OwnFile(p, "SQLReadFileDSN", FALSE)

(* User's and then system's drivers, each list under a mode of its own. *)
SQLGetInstalledDrivers(p) ==
  /\ Begin(p, "SQLGetInstalledDrivers", Null, Null, Null,
           <<Attempt("user", <<"inst">>, FALSE, {}),
             Attempt("system", <<"inst">>, FALSE, {"nopath", "failed", "done"})>>)
  /\ UNCHANGED mode

(* Reads a file of its caller's. *)
SQLGetAvailableDrivers(p) ==
  /\ call[p] = NoCall /\ made < MaxCalls
  /\ made' = made + 1
  /\ mode' = [mode EXCEPT ![p] = "both"] /\ asked' = [asked EXCEPT ![p] = "both"]
  /\ UNCHANGED <<disk, present, readonly, call, outer, version, due, raced, mixed, broken, odd>>

(* Both files of drivers are searched for the library, whatever the mode;  *)
(* a file that does not exist is created for it.                           *)
BothDriverFiles ==
  <<Attempt("user", <<"inst">>, TRUE, {}), Attempt("system", <<"inst">>, TRUE, {"nopath", "failed"})>>

(* The library's first call is for the scope of the request. *)
SQLConfigDataSource(p) ==
  \E scope \in {"user", "system"} :
  /\ outer[p] = NoCall /\ call[p] = NoCall /\ made < MaxCalls
  /\ made' = made + 1
  /\ mode' = [mode EXCEPT ![p] = scope] /\ asked' = [asked EXCEPT ![p] = scope]
  /\ call' = [call EXCEPT ![p] = [NoCall EXCEPT !.fn = "SQLConfigDataSource", !.todo = BothDriverFiles]]
  /\ UNCHANGED <<disk, present, readonly, outer, version, due, raced, mixed, broken, odd>>

SQLConfigDriver(p) ==
  /\ outer[p] = NoCall
  /\ Begin(p, "SQLConfigDriver", Null, Null, Null, BothDriverFiles)
  /\ UNCHANGED mode

(* Once the user has chosen one in the dialog.  The dialog comes again     *)
(* until a translator was configured or it is cancelled: each round is a   *)
(* call here, nothing of the installer's happening between two.            *)
GetTranslator(p) ==
  /\ outer[p] = NoCall
  /\ Begin(p, "GetTranslator", Null, Null, Null, BothDriverFiles)
  /\ UNCHANGED mode

Next == \E p \in Procs :
  \/ SQLSetConfigMode(p) \/ SQLWritePrivateProfileString(p) \/ SQLGetPrivateProfileString(p)
  \/ SQLWriteDSNToIni(p) \/ SQLRemoveDSNFromIni(p)
  \/ SQLInstallDriver(p) \/ SQLInstallDriverEx(p) \/ SQLInstallTranslatorEx(p)
  \/ SQLRemoveDriver(p) \/ SQLRemoveTranslator(p) \/ RemoveDefaultDataSource(p)
  \/ SQLWriteFileDSN(p) \/ SQLReadFileDSN(p)
  \/ SQLGetInstalledDrivers(p) \/ SQLGetAvailableDrivers(p)
  \/ SQLConfigDataSource(p) \/ SQLConfigDriver(p) \/ GetTranslator(p)
  \/ Open(p) \/ Truncate(p) \/ Flush(p) \/ Crash(p)
  \/ CallLibrary(p) \/ NoLibrary(p) \/ LibraryReturns(p)

Symmetry == Permutations(Procs)

Spec == Init /\ [][Next]_vars

-----------------------------------------------------------------------------
(* Every value asked for is in its file, and no other value is, whatever   *)
(* was asked of other sections, keys and files in between and in whatever  *)
(* order (_iodbcdm_cfg_write, read again by _iodbcdm_cfg_refresh): except  *)
(* in a file a call wrote without having read what another process wrote,  *)
(* one two of them wrote at once, one a crash cut short, and one written   *)
(* from a table whose memory was overrun.                                  *)
ReadBack(v) == IF v = Cut THEN Shortened ELSE v
UpdatesKept ==
  \A f \in Files \ (raced \cup broken) : ~ BeingWritten(f) =>
    Meaning(disk[f], Cells) = [c \in Cells |-> ReadBack(due[f][c])]

(* No section and no key of a section is ever in a file twice, also where a*)
(* process undoes another's changes with a table that lacks them and where *)
(* a crash cut a file short: an entry is added only where none was found.  *)
(* The exception are files two processes wrote at once, where the longer   *)
(* text's end stays behind the shorter one (_iodbcdm_cfg_commit empties the*)
(* file when it opens it, not when it writes), and those written from what *)
(* was read of such a file, or of a file another was writing.              *)
KeysUnique == \A f \in Files \ mixed : Unique(disk[f])

(* Every data source listed in a file has a section there that names its   *)
(* driver, and every section of one is listed, also after lost updates:    *)
(* SQLWriteDSNToIni, SQLRemoveDSNFromIni and SQLRemoveDriver change both in*)
(* one table.  (CreateDSN does not: see odd; and of a file that is written *)
(* by two processes at once, or from what was read while another wrote it, *)
(* nothing is said.)                                                       *)
SourcesWhole ==
  \A scope \in {"user", "system"} :
    LET f == <<scope, "odbc">> IN
    f \notin broken \cup odd \cup mixed /\ ~ BeingWritten(f) =>
      (Find(disk[f], "sources", "d") # Null <=> Find(disk[f], "d", "Driver") # Null)

(* A call writes the files of the mode that was asked for it and no other, *)
(* and without one the user's first: the mode serves one call and is never *)
(* left over for a later one, the calls of a setup library included: except*)
(* that four functions leave it to the call after them (Keeping).  The     *)
(* user's calls change the system's drivers only where the user has no such*)
(* file.  (SQLRemoveTranslator and the removal of the default data source  *)
(* ignore the mode.)                                                       *)
ModeIsOneShot ==
  \A p \in Procs :
    LET c == call[p]  e == c.open[c.at] IN
    c.writing /\ e.file[1] # "own" /\ c.fn \notin {"SQLRemoveTranslator", "RemoveDefaultDataSource"} =>
      \/ e.file[1] = IF c.asked = "both" THEN "user" ELSE c.asked
      \/ c.asked = "both" /\ c.retry
      \/ c.asked # "system" /\ e.kind = "inst" /\ ~ e.users
=============================================================================
