----------------------------- MODULE ConfigStore -----------------------------
(***************************************************************************)
(* The configuration: config.yaml, the copies two calls of config.New make *)
(* of it at the start of the process, the GET and PUT handlers of the HTTP *)
(* API, and the settings page of the Flutter application.                  *)
(*                                                                         *)
(* The sections of a configuration are flattened into three fields that    *)
(* stand for the three kinds the JSON conversions tell apart: strings and  *)
(* numbers, durations, and the flag http.enabled, whose value is also used *)
(* by main.                                                                *)
(*                                                                         *)
(* proc is the control point of the process:                               *)
(*   "down"       not running                                              *)
(*   "create"     in New, config.yaml is open and empty                    *)
(*   "newapp"     main has its configuration, NewApp is to load its own    *)
(*   "serving"    running with the HTTP API                                *)
(*   "headless"   running without it, http.enabled being false             *)
(*   "panicked"   New could not parse the file                             *)
(* put[r].pc is the control point of the PUT of requester r:               *)
(*   "open", "write"  in os.WriteFile                                      *)
(*   "copy"           at *s.config = newConfig                             *)
(*   "done"           answered with 200                                    *)
(*   "refused"        answered with 400, the body does not decode          *)
(*   "failed"         answered with 500, the file was not written          *)
(*   "lost"           not answered, the process is down                    *)
(***************************************************************************)
EXTENDS FiniteSets, Naturals

CONSTANTS
  Clients,     \* HTTP clients other than the Flutter application
  App,         \* the Flutter application
  Values,      \* what a field can be; "zero" is Go's zero value and "default"
               \* the value in defaultConfig and in app_config.dart
  Sent,        \* the configurations that the other clients send
  Typed,       \* what the user of the settings page enters
  MaxPuts,     \* bound: PUTs of the other clients
  MaxCrashes   \* bound: crashes of the process

Field == {"Host", "ReconnectInitial", "Enabled"}
Config == [Field -> Values]
Zero == [f \in Field |-> "zero"]
Default == [f \in Field |-> "default"]
Requesters == Clients \cup {App}

ASSUME ConfigAssumption ==
  /\ {"zero", "default"} \subseteq Values
  /\ Sent \subseteq Config
  /\ Typed \subseteq Values
  /\ App \notin Clients
  /\ MaxPuts \in Nat
  /\ MaxCrashes \in Nat

VARIABLES
  file,          \* config.yaml
  proc,          \* the process
  memory,        \* s.config of the HTTP API: the configuration of main
  relayConfig,   \* the configuration NewApp gave to the relay
  put,           \* the PUT each requester has under way
  app,           \* ConfigProvider
  writeFailed,   \* history: the last write of the running process failed
  interrupted,   \* history: the last write failed, or the process died in it
  overlapped,    \* history: a PUT opened the file before another one was through
  puts,          \* number of PUTs of the other clients
  crashes        \* number of crashes

vars == <<file, proc, memory, relayConfig, put, app, writeFailed, interrupted,
          overlapped, puts, crashes>>

-----------------------------------------------------------------------------
(* JSON and the file.                                                      *)

\* The kind of JSON value that Go writes for a field and requires of it: a
\* time.Duration is a number.
Kind == [Host |-> "string", ReconnectInitial |-> "number", Enabled |-> "bool"]

\* The Go types have no json tags: the encoder writes their names.
Encode(c) == [f \in Field |-> [kind |-> Kind[f], val |-> c[f]]]

\* The keys the application uses.
Lower == [Host |-> "host", ReconnectInitial |-> "reconnectinitial",
          Enabled |-> "enabled"]

\* The decoder takes keys in any case, and refuses a value of another kind.
Keys(doc, f) == DOMAIN doc \cap {f, Lower[f]}
Decodes(doc) == \A f \in Field : \A k \in Keys(doc, f) : doc[k].kind = Kind[f]

\* Mutant: fields the document does not have are left out.
Decode_PresentOnly(doc) ==
  [f \in {g \in Field : Keys(doc, g) # {}} |-> doc[CHOOSE k \in Keys(doc, f) : TRUE].val]

\* A field the document does not have becomes zero.
Decode(doc) ==
  [f \in Field |-> IF Keys(doc, f) = {} THEN "zero"
                   ELSE doc[CHOOSE k \in Keys(doc, f) : TRUE].val]

\* The application looks its own keys up and takes a default for an absent one.
FromJson(doc) ==
  [f \in Field |-> IF Lower[f] \in DOMAIN doc THEN doc[Lower[f]].val
                   ELSE Default[f]]

\* It writes a duration as the text the user sees.
AppKind == [Kind EXCEPT !.ReconnectInitial = "string"]
ToJson(c) ==
  [k \in {Lower[f] : f \in Field} |->
    LET f == CHOOSE f \in Field : Lower[f] = k
    IN  [kind |-> AppKind[f], val |-> c[f]]]

\* The bodies of other clients: whole documents and one with a single field.
Bodies ==
  {Encode(c) : c \in Sent}
    \cup {[f \in {"Host"} |-> Encode(c)[f]] : c \in Sent}

Whole(c) == [state |-> "whole", cfg |-> c]
Absent == [state |-> "absent", cfg |-> Zero]
Empty == [state |-> "empty", cfg |-> Zero]
\* A text New cannot parse: cut in the middle of a line, or with the end of a
\* longer text behind it.  By luck the latter may be YAML; the model takes the
\* outcome that stops the program.
Broken == [state |-> "broken", cfg |-> Zero]
Files == {Absent, Empty, Broken} \cup {Whole(c) : c \in Config}

\* What a write of c that is cut short leaves behind: nothing, a text that does
\* not parse, or one that parses.  A value at the cut may have become a shorter
\* one (500, 50), and the fields behind it become zero; the fields stand in the
\* file in the order in which Field lists them, and a cut flag does not parse.
Partial(c) ==
  {Empty, Broken, Whole(c)}
    \cup {Whole([Zero EXCEPT !["Host"] = v]) : v \in Values}
    \cup {Whole([c EXCEPT !["ReconnectInitial"] = v, !["Enabled"] = "zero"]) : v \in Values}

\* What load returns for a file that parses: an empty one is no error, and
\* leaves every field as it was declared.
Loads(f) == f.cfg

NoPut == [pc |-> "idle", cfg |-> Zero, left |-> {}]
InHandler(r) == put[r].pc \in {"open", "write", "copy"}
AllSettled == \A r \in Requesters : ~InHandler(r)

TypeOK ==
  /\ file \in Files
  /\ proc \in {"down", "create", "newapp", "serving", "headless", "panicked"}
  /\ memory \in Config
  /\ relayConfig \in Config
  /\ put \in [Requesters ->
       [pc : {"idle", "open", "write", "copy", "done", "refused", "failed", "lost"},
        cfg : Config, left : SUBSET Field]]
  /\ app \in [loaded : BOOLEAN, config : Config, original : Config,
              changed : BOOLEAN, busy : {"none", "load", "save"}, failed : BOOLEAN]
  /\ writeFailed \in BOOLEAN
  /\ interrupted \in BOOLEAN
  /\ overlapped \in BOOLEAN
  /\ puts \in 0 .. MaxPuts
  /\ crashes \in 0 .. MaxCrashes

\* ConfigProvider's constructor has called loadConfig.
Init ==
  /\ file \in {Absent} \cup {Whole(c) : c \in Sent}
  /\ proc = "down"
  /\ memory = Zero
  /\ relayConfig = Zero
  /\ put = [r \in Requesters |-> NoPut]
  /\ app = [loaded |-> FALSE, config |-> Zero, original |-> Zero,
            changed |-> FALSE, busy |-> "load", failed |-> FALSE]
  /\ writeFailed = FALSE
  /\ interrupted = FALSE
  /\ overlapped = FALSE
  /\ puts = 0
  /\ crashes = 0

-----------------------------------------------------------------------------
(* The process starts and dies.                                            *)

\* New, called by main.  A file that cannot be opened makes it panic and leaves
\* everything as it was: no step.
New ==
  /\ proc = "down"
  /\ \/ /\ file.state = "absent"
        /\ file' = Empty
        /\ proc' = "create"
        /\ UNCHANGED memory
     \/ /\ file.state = "broken"
        /\ proc' = "panicked"
        /\ UNCHANGED <<file, memory>>
     \/ /\ file.state \in {"whole", "empty"}
        /\ memory' = Loads(file)
        /\ proc' = "newapp"
        /\ UNCHANGED file
  /\ writeFailed' = FALSE
  /\ UNCHANGED <<relayConfig, put, app, interrupted, overlapped, puts, crashes>>

\* Mutant: a write that fails is ignored.
WriteDefault_IgnoresError ==
  /\ proc = "create"
  /\ file' \in Partial(Default)
  /\ memory' = Default
  /\ proc' = "newapp"
  /\ UNCHANGED <<relayConfig, put, app, writeFailed, interrupted, overlapped, puts,
                 crashes>>

\* The default configuration is written.  A write that fails makes New panic,
\* and the process is down; the next start reads what there is of the file.
WriteDefault ==
  /\ proc = "create"
  /\ \/ /\ file' = Whole(Default)
        /\ memory' = Default
        /\ proc' = "newapp"
        /\ interrupted' = FALSE
     \/ /\ file' \in Partial(Default)
        /\ proc' = "down"
        /\ interrupted' = TRUE
        /\ UNCHANGED memory
  /\ UNCHANGED <<relayConfig, put, app, writeFailed, overlapped, puts, crashes>>

\* NewApp calls New again, and main starts the HTTP API if it is enabled.
\* relayConfig is what server, client and queue are given; that NewApp replaces
\* the name of the log file in its copy (core.go:59-72) is left out.
NewApp ==
  /\ proc = "newapp"
  /\ relayConfig' = Loads(file)
  /\ proc' = IF memory["Enabled"] = "zero" THEN "headless" ELSE "serving"
  /\ UNCHANGED <<file, memory, put, app, writeFailed, interrupted, overlapped,
                 puts, crashes>>

\* The configurations whose text is being written.
BeingWritten ==
  {put[r].cfg : r \in {q \in Requesters : put[q].pc = "write"}}
    \cup {c \in {Default} : proc = "create"}

\* The process is killed.  A write under way may be cut short; everything that
\* was written before stays.
Crash ==
  /\ proc \notin {"down", "panicked"}
  /\ crashes < MaxCrashes
  /\ crashes' = crashes + 1
  /\ file' \in {file} \cup UNION {Partial(c) : c \in BeingWritten}
  /\ interrupted' = (interrupted \/ BeingWritten # {})
  /\ proc' = "down"
  /\ put' = [r \in Requesters |->
               IF InHandler(r) THEN [NoPut EXCEPT !.pc = "lost"] ELSE put[r]]
  /\ UNCHANGED <<memory, relayConfig, app, writeFailed, overlapped, puts>>

-----------------------------------------------------------------------------
(* handleUpdateConfig.                                                     *)

\* The request of r, with body doc, up to the call of Save.
Receive(doc) ==
  IF ~Decodes(doc) THEN [NoPut EXCEPT !.pc = "refused"]
  ELSE [pc |-> "open", cfg |-> Decode(doc), left |-> Field]

SendPut(r) ==
  /\ proc = "serving"
  /\ put[r].pc = "idle"
  /\ puts < MaxPuts
  /\ puts' = puts + 1
  /\ \E doc \in Bodies : put' = [put EXCEPT ![r] = Receive(doc)]
  /\ UNCHANGED <<file, proc, memory, relayConfig, app, writeFailed,
                 interrupted, overlapped, crashes>>

\* History only: r opens the file while another request is between its opening
\* of the file and its answer.
MarkOverlap(r) ==
  overlapped' = (overlapped \/
                 \E q \in Requesters \ {r} : put[q].pc \in {"write", "copy"})

Advance(r, pc) == put' = [put EXCEPT ![r].pc = pc]

\* Mutant: the file is opened without O_TRUNC.
OpenFile_NoTruncate(r) ==
  /\ put[r].pc = "open"
  /\ \/ UNCHANGED file /\ Advance(r, "write")
     \/ UNCHANGED file /\ Advance(r, "failed")
  /\ MarkOverlap(r)
  /\ UNCHANGED <<proc, memory, relayConfig, app, writeFailed, interrupted, puts, crashes>>

\* Mutant: the handler goes on after an error of Save.
OpenFile_IgnoresError(r) ==
  /\ put[r].pc = "open"
  /\ \/ file' = Empty /\ Advance(r, "write")
     \/ UNCHANGED file /\ Advance(r, "copy")
  /\ MarkOverlap(r)
  /\ UNCHANGED <<proc, memory, relayConfig, app, writeFailed, interrupted, puts, crashes>>

\* os.WriteFile opens the file, which cuts it to nothing.
OpenFile(r) ==
  /\ put[r].pc = "open"
  /\ \/ file' = Empty /\ Advance(r, "write")
     \/ UNCHANGED file /\ Advance(r, "failed")
  /\ MarkOverlap(r)
  /\ UNCHANGED <<proc, memory, relayConfig, app, writeFailed, interrupted, puts, crashes>>

\* os.WriteFile writes from the beginning of the file.  If another request has
\* written meanwhile and its text was longer, its end stays behind.  A write
\* that fails may have written a part.
WriteFile(r) ==
  /\ put[r].pc = "write"
  /\ \/ /\ file' \in IF file \in {Empty, Whole(put[r].cfg)}
                     THEN {Whole(put[r].cfg)}
                     ELSE {Whole(put[r].cfg), Broken}
        /\ writeFailed' = FALSE
        /\ interrupted' = FALSE
        /\ Advance(r, "copy")
     \/ /\ file' \in {file} \cup Partial(put[r].cfg)
        /\ writeFailed' = TRUE
        /\ interrupted' = TRUE
        /\ Advance(r, "failed")
  /\ UNCHANGED <<proc, memory, relayConfig, app, overlapped, puts, crashes>>

\* The copy of field f is done.
Copied(p, f) ==
  [pc |-> IF p.left = {f} THEN "done" ELSE "copy", cfg |-> p.cfg, left |-> p.left \ {f}]

\* *s.config = newConfig, with no lock: the fields are copied one by one.
CopyField(r) ==
  /\ put[r].pc = "copy"
  /\ \E f \in put[r].left :
       /\ memory' = [memory EXCEPT ![f] = put[r].cfg[f]]
       /\ put' = [put EXCEPT ![r] = Copied(put[r], f)]
  /\ UNCHANGED <<file, proc, relayConfig, app, writeFailed, interrupted,
                 overlapped, puts, crashes>>

\* A client has its answer.
TakeAnswer(r) ==
  /\ put[r].pc \in {"done", "refused", "failed", "lost"}
  /\ put' = [put EXCEPT ![r] = NoPut]
  /\ UNCHANGED <<file, proc, memory, relayConfig, app, writeFailed,
                 interrupted, overlapped, puts, crashes>>

-----------------------------------------------------------------------------
(* ConfigProvider and the settings page.                                   *)

serverVars == <<file, proc, memory, relayConfig, writeFailed, interrupted,
                overlapped, puts, crashes>>

\* The retry button, shown while there is no configuration.
LoadConfig ==
  /\ app.busy = "none"
  /\ ~app.loaded
  /\ app' = [app EXCEPT !.busy = "load", !.failed = FALSE]
  /\ UNCHANGED <<serverVars, put>>

\* The await on getConfig returns, or throws.
LoadReturns ==
  /\ app.busy = "load"
  /\ \/ /\ proc = "serving"
        /\ LET c == FromJson(Encode(memory)) IN
             app' = [app EXCEPT !.loaded = TRUE, !.config = c, !.original = c,
                                !.changed = FALSE, !.busy = "none", !.failed = FALSE]
     \/ app' = [app EXCEPT !.busy = "none", !.failed = TRUE]
  /\ UNCHANGED <<serverVars, put>>

\* The user changes a field, also while a save is awaited.
Edit(f, v) ==
  /\ app.loaded
  /\ app' = [app EXCEPT !.config[f] = v, !.changed = TRUE]
  /\ UNCHANGED <<serverVars, put>>

\* The save button.  Bound: it is not pressed again before the answer.
SaveConfig ==
  /\ app.loaded /\ app.changed
  /\ app.busy = "none"
  /\ app' = [app EXCEPT !.busy = "save", !.failed = FALSE]
  /\ \E lost \in BOOLEAN :
       put' = [put EXCEPT ![App] = IF lost \/ proc # "serving"
                                   THEN [NoPut EXCEPT !.pc = "lost"]
                                   ELSE Receive(ToJson(app.config))]
  /\ UNCHANGED serverVars

\* Mutant: the flag is cleared whatever the answer.
SaveReturns_ClearsFlag ==
  /\ app.busy = "save"
  /\ ~InHandler(App)
  /\ app' = IF put[App].pc = "done"
            THEN [app EXCEPT !.busy = "none", !.original = FromJson(ToJson(app.config)),
                             !.changed = FALSE]
            ELSE [app EXCEPT !.busy = "none", !.failed = TRUE, !.changed = FALSE]
  /\ put' = [put EXCEPT ![App] = NoPut]
  /\ UNCHANGED serverVars

\* The await on updateConfig returns, or throws.  _config is read after it.
SaveReturns ==
  /\ app.busy = "save"
  /\ ~InHandler(App)
  /\ app' = IF put[App].pc = "done"
            THEN [app EXCEPT !.busy = "none", !.original = FromJson(ToJson(app.config)),
                             !.changed = FALSE]
            ELSE [app EXCEPT !.busy = "none", !.failed = TRUE]
  /\ put' = [put EXCEPT ![App] = NoPut]
  /\ UNCHANGED serverVars

\* The cancel button.
ResetConfig ==
  /\ app.loaded /\ app.changed
  /\ app' = [app EXCEPT !.config = FromJson(ToJson(app.original)), !.changed = FALSE]
  /\ UNCHANGED <<serverVars, put>>

-----------------------------------------------------------------------------
Process == New \/ WriteDefault \/ NewApp \/ Crash
Handler(r) == OpenFile(r) \/ WriteFile(r) \/ CopyField(r)
Provider ==
  \/ LoadConfig \/ LoadReturns \/ SaveConfig \/ SaveReturns \/ ResetConfig
  \/ \E f \in Field, v \in Typed : Edit(f, v)

Next ==
  \/ Process
  \/ \E r \in Clients : SendPut(r) \/ TakeAnswer(r)
  \/ \E r \in Requesters : Handler(r)
  \/ Provider

Spec == Init /\ [][Next]_vars

-----------------------------------------------------------------------------
(* Properties.                                                             *)

\* As long as the PUTs do not overlap, the configuration the API answers with
\* between them is the one a restart would load, unless the last write failed:
\* the memory is updated after the file and never without it, through errors
\* and crashes.
SettledAgree ==
  proc = "serving" /\ AllSettled /\ ~writeFailed /\ ~overlapped =>
    memory = Loads(file)

\* New can parse config.yaml, unless the write that came last was cut short by
\* an error or by the end of the process, or PUTs have overlapped.  A process
\* killed anywhere but in a write can be started again, and so can one whose
\* PUTs were refused or could not open the file; a write that is through makes
\* up for one that was cut short.
StartsAgain == proc = "panicked" => interrupted \/ overlapped

\* A start takes one configuration: the relay gets the one main has, though each
\* reads the file for itself, also right after New has written the default.
StartsAlike ==
  [][proc = "newapp" /\ proc' \in {"serving", "headless"} => relayConfig' = memory']_vars

\* What the user changed and neither saved nor gave up is marked as changed,
\* whatever becomes of a save: the save button stays active.
UnsavedIsFlagged == app.loaded /\ app.config # app.original => app.changed
=============================================================================
