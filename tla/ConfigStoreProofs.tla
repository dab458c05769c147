------------------------- MODULE ConfigStoreProofs -------------------------
(***************************************************************************)
(* Theorems about ConfigStore, for all sets of clients, values and         *)
(* configurations, and any number of PUTs and crashes.                     *)
(***************************************************************************)
EXTENDS ConfigStore, TLAPS

-----------------------------------------------------------------------------
(* Conversions. *)

LEMMA ConstantTypes == Zero \in Config /\ Default \in Config
BY ConfigAssumption DEF Zero, Default, Config

LEMMA DecodeType ==
  ASSUME NEW doc, \A k \in DOMAIN doc : doc[k].val \in Values
  PROVE  Decode(doc) \in Config
<1> SUFFICES ASSUME NEW f \in Field
             PROVE  (IF Keys(doc, f) = {} THEN "zero"
                     ELSE doc[CHOOSE k \in Keys(doc, f) : TRUE].val) \in Values
  BY Zenon DEF Decode, Config
<1>1. CASE Keys(doc, f) = {}
  BY <1>1, ConfigAssumption
<1>2. CASE Keys(doc, f) # {}
  <2>1. PICK k \in Keys(doc, f) : TRUE
    BY <1>2
  <2>2. (CHOOSE k2 \in Keys(doc, f) : TRUE) \in Keys(doc, f)
    BY <2>1, Zenon
  <2>3. Keys(doc, f) \subseteq DOMAIN doc
    BY DEF Keys
  <2> QED
    BY <1>2, <2>2, <2>3
<1> QED
  BY <1>1, <1>2

LEMMA EncodeValues ==
  ASSUME NEW c \in Config
  PROVE  /\ DOMAIN Encode(c) = Field
         /\ \A k \in DOMAIN Encode(c) : Encode(c)[k].val \in Values
BY DEF Encode, Config

LEMMA BodyValues ==
  ASSUME NEW doc \in Bodies
  PROVE  \A k \in DOMAIN doc : doc[k].val \in Values
<1>1. Sent \subseteq Config
  BY ConfigAssumption
<1>2. CASE doc \in {Encode(c) : c \in Sent}
  BY <1>1, <1>2, EncodeValues
<1>3. CASE doc \in {[f \in {"Host"} |-> Encode(c)[f]] : c \in Sent}
  <2>1. PICK c \in Sent : doc = [f \in {"Host"} |-> Encode(c)[f]]
    BY <1>3
  <2>2. \A k \in DOMAIN doc : k = "Host" /\ doc[k] = Encode(c)[k]
    BY <2>1
  <2>3. "Host" \in Field
    BY DEF Field
  <2> QED
    BY <1>1, <2>2, <2>3, EncodeValues
<1> QED
  BY <1>2, <1>3 DEF Bodies

LEMMA ToJsonValues ==
  ASSUME NEW c \in Config
  PROVE  \A k \in DOMAIN ToJson(c) : ToJson(c)[k].val \in Values
<1> SUFFICES ASSUME NEW k \in {Lower[f] : f \in Field}
             PROVE  ToJson(c)[k].val \in Values
  BY DEF ToJson
<1> DEFINE g == CHOOSE f \in Field : Lower[f] = k
<1>1. g \in Field
  BY Zenon
<1>2. ToJson(c)[k].val = c[g]
  BY DEF ToJson
<1> QED
  BY <1>1, <1>2 DEF Config

LEMMA FromJsonType ==
  ASSUME NEW doc, \A k \in DOMAIN doc : doc[k].val \in Values
  PROVE  FromJson(doc) \in Config
<1> SUFFICES ASSUME NEW f \in Field
             PROVE  (IF Lower[f] \in DOMAIN doc THEN doc[Lower[f]].val
                     ELSE Default[f]) \in Values
  BY Zenon DEF FromJson, Config
<1>1. Default[f] \in Values
  BY ConstantTypes DEF Config
<1> QED
  BY <1>1

\* A save and a reset of the page keep what the user sees.
LEMMA RoundTripType == ASSUME NEW c \in Config PROVE FromJson(ToJson(c)) \in Config
BY ToJsonValues, FromJsonType

PutType ==
  [pc : {"idle", "open", "write", "copy", "done", "refused", "failed", "lost"},
   cfg : Config, left : SUBSET Field]

LEMMA NoPutType ==
  /\ NoPut \in PutType
  /\ [NoPut EXCEPT !.pc = "lost"] \in PutType
  /\ [NoPut EXCEPT !.pc = "refused"] \in PutType
BY ConstantTypes DEF NoPut, PutType

LEMMA ReceiveType ==
  ASSUME NEW doc, \A k \in DOMAIN doc : doc[k].val \in Values
  PROVE  /\ Receive(doc) \in PutType
         /\ Receive(doc).pc \in {"open", "refused"}
         /\ Receive(doc).pc = "open" => Receive(doc).left = Field
<1>1. Decode(doc) \in Config
  BY DecodeType
<1>2. CASE ~Decodes(doc)
  BY <1>2, NoPutType DEF Receive, NoPut
<1>3. CASE Decodes(doc)
  BY <1>1, <1>3 DEF Receive, PutType
<1> QED
  BY <1>2, <1>3

LEMMA FileTypes ==
  /\ Absent \in Files /\ Empty \in Files /\ Broken \in Files
  /\ \A c \in Config : Whole(c) \in Files
  /\ \A f \in Files : Loads(f) \in Config
  /\ \A c \in Config : Partial(c) \subseteq Files
<1>1. \A f \in Files : Loads(f) \in Config
  <2> SUFFICES ASSUME NEW f \in Files PROVE f.cfg \in Config
    BY DEF Loads
  <2>1. CASE f \in {Absent, Empty, Broken}
    BY <2>1, ConstantTypes, SMT DEF Absent, Empty, Broken
  <2>2. CASE f \in {Whole(c) : c \in Config}
    BY <2>2, SMT DEF Whole
  <2> QED
    BY <2>1, <2>2 DEF Files
<1>2. ASSUME NEW c \in Config PROVE Partial(c) \subseteq Files
  <2>1. Zero \in [Field -> Values] /\ c \in [Field -> Values] /\ "zero" \in Values
    BY ConstantTypes, ConfigAssumption DEF Config
  <2>2. ASSUME NEW v \in Values
        PROVE  /\ [Zero EXCEPT !["Host"] = v] \in Config
               /\ [c EXCEPT !["ReconnectInitial"] = v, !["Enabled"] = "zero"] \in Config
    BY <2>1 DEF Config
  <2> QED
    BY <2>2 DEF Partial, Files
<1> QED
  BY <1>1, <1>2 DEF Files

-----------------------------------------------------------------------------
(* Type correctness. *)

LEMMA TypeInit == Init => TypeOK
<1> SUFFICES ASSUME Init PROVE TypeOK
  OBVIOUS
<1>1. file \in Files
  BY FileTypes, ConfigAssumption DEF Init
<1>2. put \in [Requesters -> PutType]
  BY NoPutType DEF Init
<1>3. app \in [loaded : BOOLEAN, config : Config, original : Config,
               changed : BOOLEAN, busy : {"none", "load", "save"}, failed : BOOLEAN]
  BY ConstantTypes DEF Init
<1>4. memory \in Config /\ relayConfig \in Config
  BY ConstantTypes, Zenon DEF Init
<1>5. puts \in 0 .. MaxPuts /\ crashes \in 0 .. MaxCrashes
  BY ConfigAssumption DEF Init
<1>6. proc = "down" /\ writeFailed = FALSE /\ interrupted = FALSE /\ overlapped = FALSE
  BY Zenon DEF Init
<1>7. writeFailed \in BOOLEAN /\ interrupted \in BOOLEAN /\ overlapped \in BOOLEAN
  BY <1>6
<1> QED
  BY <1>1, <1>2, <1>3, <1>4, <1>5, <1>6, <1>7, Zenon DEF TypeOK, PutType

LEMMA ProcessTypes == ASSUME TypeOK, Process PROVE TypeOK'
<1>1. CASE New
  BY <1>1, FileTypes DEF New, TypeOK
<1>2. CASE WriteDefault
  BY <1>2, FileTypes, ConstantTypes DEF WriteDefault, TypeOK
<1>3. CASE NewApp
  BY <1>3, FileTypes DEF NewApp, TypeOK
<1>4. CASE Crash
  <2>1. put' \in [Requesters -> PutType]
    BY <1>4, NoPutType DEF Crash, TypeOK, PutType
  <2>2. crashes' \in 0 .. MaxCrashes
    BY <1>4, ConfigAssumption DEF Crash, TypeOK
  <2>3. UNCHANGED <<memory, relayConfig, app, writeFailed, overlapped, puts>>
        /\ proc' = "down"
    BY <1>4, Zenon DEF Crash
  <2>4. file' \in Files
    <3>1. BeingWritten \subseteq Config
      BY ConstantTypes DEF BeingWritten, TypeOK
    <3>2. file' \in {file} \cup UNION {Partial(c) : c \in BeingWritten}
      BY <1>4, Zenon DEF Crash
    <3> QED
      BY <3>1, <3>2, FileTypes DEF TypeOK
  <2>5. interrupted' \in BOOLEAN
    BY <1>4, Zenon DEF Crash
  <2> QED
    BY <2>1, <2>2, <2>3, <2>4, <2>5, Zenon DEF TypeOK, PutType
<1> QED
  BY <1>1, <1>2, <1>3, <1>4 DEF Process

LEMMA ClientTypes ==
  ASSUME TypeOK, NEW r \in Clients, SendPut(r) \/ TakeAnswer(r)
  PROVE  TypeOK'
<1>1. CASE SendPut(r)
  <2>1. put' \in [Requesters -> PutType]
    <3>1. PICK doc \in Bodies : put' = [put EXCEPT ![r] = Receive(doc)]
      BY <1>1, Zenon DEF SendPut
    <3>2. Receive(doc) \in PutType
      BY BodyValues, ReceiveType, Zenon
    <3> QED
      BY <3>1, <3>2, Zenon DEF TypeOK, PutType
  <2>2. puts' \in 0 .. MaxPuts
    BY <1>1, ConfigAssumption DEF SendPut, TypeOK
  <2>3. UNCHANGED <<file, proc, memory, relayConfig, app, writeFailed, interrupted,
                  overlapped, crashes>>
    BY <1>1, Zenon DEF SendPut
  <2> QED
    BY <2>1, <2>2, <2>3, Zenon DEF TypeOK, PutType
<1>2. CASE TakeAnswer(r)
  <2>1. put' \in [Requesters -> PutType]
    BY <1>2, NoPutType, Zenon DEF TakeAnswer, TypeOK, PutType
  <2>2. UNCHANGED <<file, proc, memory, relayConfig, app, writeFailed, interrupted,
                    overlapped, puts, crashes>>
    BY <1>2, Zenon DEF TakeAnswer
  <2> QED
    BY <2>1, <2>2, Zenon DEF TypeOK, PutType
<1> QED
  BY <1>1, <1>2

LEMMA HandlerTypes ==
  ASSUME TypeOK, NEW r \in Requesters, Handler(r)
  PROVE  TypeOK'
<1>1. CASE OpenFile(r)
  <2>1. file' \in Files
    BY <1>1, FileTypes DEF OpenFile, TypeOK
  <2>2. put' \in [Requesters -> PutType]
    BY <1>1 DEF OpenFile, Advance, TypeOK, PutType
  <2>3. overlapped' \in BOOLEAN
    <3>1. overlapped' = (overlapped \/ \E q \in Requesters \ {r} :
                                         put[q].pc \in {"write", "copy"})
      BY <1>1, Zenon DEF OpenFile, MarkOverlap
    <3> QED
      BY <3>1, Zenon
  <2>4. UNCHANGED <<proc, memory, relayConfig, app, writeFailed, interrupted, puts,
                    crashes>>
    BY <1>1, Zenon DEF OpenFile
  <2> QED
    BY <2>1, <2>2, <2>3, <2>4, Zenon DEF TypeOK, PutType
<1>2. CASE WriteFile(r)
  <2>1. put[r].cfg \in Config
    BY DEF TypeOK
  <2>2. file' \in Files
    BY <1>2, <2>1, FileTypes DEF WriteFile, TypeOK
  <2>3. put' \in [Requesters -> PutType]
    BY <1>2 DEF WriteFile, Advance, TypeOK, PutType
  <2>4. writeFailed' \in BOOLEAN /\ interrupted' \in BOOLEAN
    BY <1>2, Zenon DEF WriteFile
  <2>5. UNCHANGED <<proc, memory, relayConfig, app, overlapped, puts, crashes>>
    BY <1>2, Zenon DEF WriteFile
  <2> QED
    BY <2>2, <2>3, <2>4, <2>5, Zenon DEF TypeOK, PutType
<1>3. CASE CopyField(r)
  <2>1. PICK f \in put[r].left :
          /\ memory' = [memory EXCEPT ![f] = put[r].cfg[f]]
          /\ put' = [put EXCEPT ![r] = Copied(put[r], f)]
    BY <1>3 DEF CopyField
  <2>2. memory' \in Config
    BY <2>1 DEF TypeOK, Config
  <2>3. put' \in [Requesters -> PutType]
    <3>1. put[r] \in PutType
      BY Zenon DEF TypeOK, PutType
    <3>2. Copied(put[r], f) \in PutType
      BY <3>1 DEF PutType, Copied
    <3> QED
      BY <2>1, <3>2, Zenon DEF TypeOK, PutType
  <2> QED
    BY <1>3, <2>2, <2>3 DEF CopyField, TypeOK, PutType
<1> QED
  BY <1>1, <1>2, <1>3 DEF Handler

LEMMA ProviderTypes == ASSUME TypeOK, Provider PROVE TypeOK'
<1> DEFINE AppType == [loaded : BOOLEAN, config : Config, original : Config,
               changed : BOOLEAN, busy : {"none", "load", "save"}, failed : BOOLEAN]
<1>1. CASE LoadConfig
  BY <1>1 DEF LoadConfig, serverVars, TypeOK
<1>2. CASE LoadReturns
  <2>1. FromJson(Encode(memory)) \in Config
    BY EncodeValues, FromJsonType DEF TypeOK
  <2>2. app' \in AppType
    BY <1>2, <2>1 DEF LoadReturns, TypeOK
  <2> QED
    BY <1>2, <2>2 DEF LoadReturns, serverVars, TypeOK
<1>3. CASE SaveConfig
  <2>1. app.config \in Config
    BY DEF TypeOK
  <2>2. Receive(ToJson(app.config)) \in PutType
    BY <2>1, ToJsonValues, ReceiveType
  <2>3. put' \in [Requesters -> PutType]
    BY <1>3, <2>2, NoPutType DEF SaveConfig, TypeOK, PutType
  <2>4. app' \in AppType
    BY <1>3 DEF SaveConfig, TypeOK
  <2> QED
    BY <1>3, <2>3, <2>4 DEF SaveConfig, serverVars, TypeOK, PutType
<1>4. CASE SaveReturns
  <2>1. FromJson(ToJson(app.config)) \in Config
    BY RoundTripType DEF TypeOK
  <2>2. app' \in AppType
    BY <1>4, <2>1 DEF SaveReturns, TypeOK
  <2>3. put' \in [Requesters -> PutType]
    BY <1>4, NoPutType DEF SaveReturns, TypeOK, PutType
  <2> QED
    BY <1>4, <2>2, <2>3 DEF SaveReturns, serverVars, TypeOK, PutType
<1>5. CASE ResetConfig
  <2>1. FromJson(ToJson(app.original)) \in Config
    BY RoundTripType DEF TypeOK
  <2>2. app' \in AppType
    BY <1>5, <2>1 DEF ResetConfig, TypeOK
  <2> QED
    BY <1>5, <2>2 DEF ResetConfig, serverVars, TypeOK
<1>6. CASE \E f \in Field, v \in Typed : Edit(f, v)
  <2>1. PICK f \in Field, v \in Typed : Edit(f, v)
    BY <1>6
  <2>2. v \in Values
    BY ConfigAssumption
  <2>3. app' \in AppType
    BY <2>1, <2>2 DEF Edit, TypeOK, Config
  <2> QED
    BY <2>1, <2>3 DEF Edit, serverVars, TypeOK
<1> QED
  BY <1>1, <1>2, <1>3, <1>4, <1>5, <1>6 DEF Provider

LEMMA TypeStep == TypeOK /\ [Next]_vars => TypeOK'
<1> SUFFICES ASSUME TypeOK, [Next]_vars PROVE TypeOK'
  OBVIOUS
<1>1. CASE UNCHANGED vars
  BY <1>1 DEF vars, TypeOK
<1>2. CASE Next
  BY <1>2, ProcessTypes, ClientTypes, HandlerTypes, ProviderTypes DEF Next
<1> QED
  BY <1>1, <1>2

\* The types of the configuration, its file, its requests and the settings page.
THEOREM ConfigTypeCorrect == Spec => []TypeOK
BY TypeInit, TypeStep, PTL DEF Spec

-----------------------------------------------------------------------------
(* The stored configuration.  StoreInv follows a PUT through the steps of  *)
(* its handler: alone, it finds the file empty when it writes, and while   *)
(* it copies, the fields it has copied agree with the file.                *)

Writing(r) == put[r].pc \in {"write", "copy"}

HandlerInv ==
  \A r \in Requesters :
    /\ InHandler(r) => proc = "serving"
    /\ put[r].pc \in {"open", "write"} => put[r].left = Field

\* The application has a request under way only while it awaits it.
AwaitInv == app.busy # "save" => put[App].pc = "idle"

AloneInv ==
  /\ file.state = "broken" => interrupted
  /\ \A r, q \in Requesters : Writing(r) /\ Writing(q) => r = q
  /\ \A r \in Requesters : put[r].pc = "write" => file = Empty
  /\ \A r \in Requesters : put[r].pc = "copy" =>
       /\ file = Whole(put[r].cfg)
       /\ \A f \in Field \ put[r].left : memory[f] = put[r].cfg[f]

AgreeInv ==
  /\ proc \in {"newapp", "serving", "headless"}
  /\ ~writeFailed
  /\ \A r \in Requesters : ~Writing(r)
  => memory = Loads(file)

StoreInv ==
  /\ HandlerInv
  /\ proc = "panicked" => interrupted \/ overlapped
  /\ ~overlapped => AloneInv /\ AgreeInv

LEMMA StoreInit == Init => StoreInv
<1> SUFFICES ASSUME Init PROVE StoreInv
  OBVIOUS
<1>1. \A r \in Requesters : put[r].pc = "idle"
  BY DEF Init, NoPut
<1>2. proc = "down"
  BY DEF Init
<1>3. file.state # "broken"
  BY SMT DEF Init, Absent, Whole
<1> QED
  BY <1>1, <1>2, <1>3 DEF StoreInv, HandlerInv, AloneInv, AgreeInv, InHandler, Writing

\* A step that moves the request of r outside the two steps that matter.
LEMMA QuietStep ==
  ASSUME StoreInv, NEW r \in Requesters,
         UNCHANGED <<file, proc, memory, writeFailed, interrupted>>,
         overlapped => overlapped',
         \A q \in Requesters \ {r} : put'[q] = put[q],
         ~Writing(r), put'[r].pc \notin {"write", "copy"},
         put'[r].pc = "open" => proc = "serving" /\ put'[r].left = Field
  PROVE  StoreInv'
<1>1. HandlerInv'
  BY DEF StoreInv, HandlerInv, InHandler
<1>2. (proc = "panicked" => interrupted \/ overlapped)'
  BY DEF StoreInv
<1>3. ASSUME ~overlapped' PROVE AloneInv' /\ AgreeInv'
  <2>1. AloneInv /\ AgreeInv
    BY <1>3 DEF StoreInv
  <2>2. \A q \in Requesters : Writing(q)' => Writing(q) /\ put'[q] = put[q]
    BY DEF Writing
  <2>3. \A q \in Requesters : Writing(q) => Writing(q)'
    BY DEF Writing
  <2> QED
    BY <2>1, <2>2, <2>3 DEF AloneInv, AgreeInv, Writing
<1> QED
  BY <1>1, <1>2, <1>3 DEF StoreInv

LEMMA NewStore == ASSUME TypeOK, StoreInv, New PROVE StoreInv'
<1>1. \A r \in Requesters : ~InHandler(r) /\ put'[r] = put[r]
  BY DEF New, StoreInv, HandlerInv
<1>2. HandlerInv'
  BY <1>1 DEF HandlerInv, InHandler
<1>3. \A r \in Requesters : ~Writing(r) /\ ~Writing(r)'
  BY <1>1 DEF InHandler, Writing
<1>4. overlapped' = overlapped /\ interrupted' = interrupted
  BY Zenon DEF New
<1>5. CASE file.state = "broken" /\ proc' = "panicked" /\ file' = file
  <2>1. interrupted \/ overlapped
    BY <1>5, Zenon DEF StoreInv, AloneInv
  <2>2. ~overlapped => AloneInv' /\ AgreeInv'
    BY <1>3, <1>4, <1>5 DEF StoreInv, AloneInv, AgreeInv, Writing
  <2> QED
    BY <1>2, <1>4, <2>1, <2>2, Zenon DEF StoreInv
<1>6. CASE proc' = "create" /\ file' = Empty
  <2>1. AloneInv'
    BY <1>3, <1>6, SMT DEF AloneInv, Writing, Empty
  <2> QED
    BY <1>2, <1>6, <2>1 DEF StoreInv, AgreeInv
<1>7. CASE proc' = "newapp" /\ file' = file /\ memory' = Loads(file)
  <2>1. AgreeInv'
    BY <1>7 DEF AgreeInv, Loads
  <2>2. ~overlapped => AloneInv'
    BY <1>3, <1>4, <1>7 DEF StoreInv, AloneInv, Writing
  <2> QED
    BY <1>2, <1>4, <1>7, <2>1, <2>2 DEF StoreInv
<1> QED
  BY <1>5, <1>6, <1>7 DEF New

LEMMA ProcessStore == ASSUME TypeOK, StoreInv, Process PROVE StoreInv'
<1>1. CASE New
  BY <1>1, NewStore
<1>2. CASE WriteDefault
  <2>1. \A r \in Requesters : ~InHandler(r) /\ put'[r] = put[r]
    BY <1>2 DEF WriteDefault, StoreInv, HandlerInv
  <2>2. HandlerInv'
    BY <2>1 DEF HandlerInv, InHandler
  <2>3. /\ file'.state = "broken" => interrupted'
        /\ proc' \in {"newapp", "down"}
    BY <1>2, SMT DEF WriteDefault, Whole
  <2>4. AloneInv'
    BY <2>1, <2>3 DEF AloneInv, Writing, InHandler
  <2>5. AgreeInv'
    BY <1>2, SMT DEF WriteDefault, AgreeInv, Loads, Whole
  <2> QED
    BY <2>2, <2>3, <2>4, <2>5 DEF StoreInv
<1>3. CASE NewApp
  <2>1. \A r \in Requesters : ~InHandler(r) /\ put'[r] = put[r]
    BY <1>3 DEF NewApp, StoreInv, HandlerInv
  <2>2. HandlerInv'
    BY <2>1 DEF HandlerInv, InHandler
  <2>3. /\ UNCHANGED <<file, memory, writeFailed, interrupted, overlapped>>
        /\ proc = "newapp" /\ proc' \in {"headless", "serving"}
    BY <1>3, Zenon DEF NewApp
  <2>4. ~overlapped => AloneInv' /\ AgreeInv'
    BY <2>1, <2>3 DEF StoreInv, AloneInv, AgreeInv, Writing
  <2> QED
    BY <2>2, <2>3, <2>4 DEF StoreInv
<1>4. CASE Crash
  <2>1. \A r \in Requesters : ~InHandler(r)'
    BY <1>4 DEF Crash, InHandler, NoPut, TypeOK
  <2>2. HandlerInv' /\ \A r \in Requesters : ~Writing(r)'
    BY <2>1 DEF HandlerInv, InHandler, Writing
  <2>3. proc' = "down" /\ overlapped' = overlapped
    BY <1>4, Zenon DEF Crash
  <2>4. (file' = file /\ (interrupted => interrupted')) \/ interrupted'
    <3>1. /\ file' \in {file} \cup UNION {Partial(c) : c \in BeingWritten}
          /\ interrupted' = (interrupted \/ BeingWritten # {})
      BY <1>4, Zenon DEF Crash
    <3>2. BeingWritten = {} => UNION {Partial(c) : c \in BeingWritten} = {}
      BY Zenon
    <3> QED
      BY <3>1, <3>2, Zenon
  <2>5. ~overlapped => AloneInv'
    BY <2>2, <2>3, <2>4 DEF StoreInv, AloneInv, Writing
  <2> QED
    BY <2>2, <2>3, <2>5 DEF StoreInv, AgreeInv
<1> QED
  BY <1>1, <1>2, <1>3, <1>4 DEF Process

LEMMA ClientStore ==
  ASSUME TypeOK, StoreInv, NEW r \in Clients, SendPut(r) \/ TakeAnswer(r)
  PROVE  StoreInv'
<1>1. r \in Requesters
  BY DEF Requesters
<1>2. CASE SendPut(r)
  <2>1. PICK doc \in Bodies : put' = [put EXCEPT ![r] = Receive(doc)]
    BY <1>2, Zenon DEF SendPut
  <2>2. /\ UNCHANGED <<file, proc, memory, writeFailed, interrupted, overlapped>>
        /\ put[r].pc = "idle" /\ proc = "serving"
    BY <1>2, Zenon DEF SendPut
  <2>3. /\ put'[r] = Receive(doc)
        /\ \A q \in Requesters \ {r} : put'[q] = put[q]
    BY <1>1, <2>1, Zenon DEF TypeOK
  <2>4. /\ Receive(doc).pc \in {"open", "refused"}
        /\ Receive(doc).pc = "open" => Receive(doc).left = Field
    BY BodyValues, ReceiveType, Zenon
  <2>5. ~Writing(r)
    BY <2>2 DEF Writing
  <2> QED
    BY <1>1, <2>2, <2>3, <2>4, <2>5, QuietStep
<1>3. CASE TakeAnswer(r)
  <2>1. /\ UNCHANGED <<file, proc, memory, writeFailed, interrupted, overlapped>>
        /\ put' = [put EXCEPT ![r] = NoPut]
        /\ put[r].pc \in {"done", "refused", "failed", "lost"}
    BY <1>3, Zenon DEF TakeAnswer
  <2>2. /\ put'[r] = NoPut
        /\ \A q \in Requesters \ {r} : put'[q] = put[q]
    BY <1>1, <2>1, Zenon DEF TypeOK
  <2>3. NoPut.pc = "idle" /\ ~Writing(r)
    BY <2>1 DEF NoPut, Writing
  <2> QED
    BY <1>1, <2>1, <2>2, <2>3, QuietStep
<1> QED
  BY <1>2, <1>3

LEMMA OpenStore ==
  ASSUME TypeOK, StoreInv, NEW r \in Requesters, OpenFile(r)
  PROVE  StoreInv'
<1>1. /\ put[r].pc = "open" /\ UNCHANGED <<proc, memory, writeFailed, interrupted>>
      /\ overlapped' = (overlapped \/ \E q \in Requesters \ {r} :
                                        put[q].pc \in {"write", "copy"})
  BY Zenon DEF OpenFile, MarkOverlap
<1>2. overlapped => overlapped'
  BY <1>1, Zenon
<1>3. ~Writing(r) /\ proc = "serving" /\ put[r].left = Field
  BY <1>1 DEF Writing, StoreInv, HandlerInv, InHandler
<1>4. \A q \in Requesters \ {r} : put'[q] = put[q]
  BY DEF OpenFile, Advance, TypeOK
<1>5. CASE file' = file /\ Advance(r, "failed")
  <2>1. put'[r].pc = "failed"
    BY <1>5 DEF Advance, TypeOK
  <2> QED
    BY <1>1, <1>2, <1>3, <1>4, <1>5, <2>1, QuietStep
<1>6. CASE file' = Empty /\ Advance(r, "write")
  <2>1. put'[r].pc = "write" /\ put'[r].left = Field
    BY <1>3, <1>6 DEF Advance, TypeOK
  <2>2. HandlerInv'
    BY <1>1, <1>3, <1>4, <2>1 DEF StoreInv, HandlerInv, InHandler
  <2>3. proc' # "panicked"
    BY <1>1, <1>3
  <2>4. ASSUME ~overlapped' PROVE AloneInv' /\ AgreeInv'
    <3>1. \A q \in Requesters \ {r} : ~(put[q].pc \in {"write", "copy"})
      BY <1>1, <2>4, Zenon
    <3>2. \A q \in Requesters : q # r => put'[q].pc \notin {"write", "copy"}
      BY <1>4, <3>1
    <3>3. file'.state # "broken"
      BY <1>6, SMT DEF Empty
    <3>4. AloneInv'
      BY <1>6, <2>1, <3>2, <3>3 DEF AloneInv, Writing
    <3>5. AgreeInv'
      BY <2>1 DEF AgreeInv, Writing
    <3> QED
      BY <3>4, <3>5
  <2> QED
    BY <2>2, <2>3, <2>4 DEF StoreInv
<1> QED
  BY <1>5, <1>6 DEF OpenFile

LEMMA WriteStore ==
  ASSUME TypeOK, StoreInv, NEW r \in Requesters, WriteFile(r)
  PROVE  StoreInv'
<1>1. put[r].pc = "write" /\ UNCHANGED <<proc, memory, overlapped>>
  BY Zenon DEF WriteFile
<1>2. proc = "serving" /\ put[r].left = Field
  BY <1>1 DEF StoreInv, HandlerInv, InHandler
<1>3. \A q \in Requesters \ {r} : put'[q] = put[q]
  BY DEF WriteFile, Advance, TypeOK
<1>4. /\ put'[r].pc \in {"copy", "failed"}
      /\ put'[r].cfg = put[r].cfg /\ put'[r].left = put[r].left
  BY DEF WriteFile, Advance, TypeOK
<1>5. HandlerInv'
  BY <1>1, <1>2, <1>3, <1>4 DEF StoreInv, HandlerInv, InHandler
<1>6. ASSUME ~overlapped PROVE AloneInv' /\ AgreeInv'
  <2>1. AloneInv
    BY <1>6 DEF StoreInv
  <2>2. file = Empty
    BY <1>1, <2>1 DEF AloneInv
  <2>3. \A q \in Requesters \ {r} : ~Writing(q)
    BY <1>1, <2>1 DEF AloneInv, Writing
  <2>4. \A q \in Requesters : q # r => put'[q].pc \notin {"write", "copy"}
    BY <1>3, <2>3 DEF Writing
  <2>5. CASE put'[r].pc = "copy"
    <3>1. file' = Whole(put[r].cfg)
      BY <2>2, <2>5 DEF WriteFile, Advance, TypeOK
    <3>2. file'.state # "broken"
      BY <3>1, SMT DEF Whole
    <3>3. AloneInv'
      BY <1>2, <1>4, <2>4, <2>5, <3>1, <3>2 DEF AloneInv, Writing
    <3>4. AgreeInv'
      BY <2>5 DEF AgreeInv, Writing
    <3> QED
      BY <3>3, <3>4
  <2>6. CASE put'[r].pc = "failed"
    <3>1. interrupted' = TRUE /\ writeFailed' = TRUE
      BY <2>6 DEF WriteFile, Advance, TypeOK
    <3>2. AloneInv'
      BY <2>4, <2>6, <3>1 DEF AloneInv, Writing
    <3>3. AgreeInv'
      BY <3>1, Zenon DEF AgreeInv
    <3> QED
      BY <3>2, <3>3
  <2> QED
    BY <1>4, <2>5, <2>6
<1> QED
  BY <1>1, <1>2, <1>5, <1>6 DEF StoreInv

LEMMA CopyStore ==
  ASSUME TypeOK, StoreInv, NEW r \in Requesters, CopyField(r)
  PROVE  StoreInv'
<1>1. PICK f \in put[r].left :
        /\ memory' = [memory EXCEPT ![f] = put[r].cfg[f]]
        /\ put' = [put EXCEPT ![r] = Copied(put[r], f)]
  BY Zenon DEF CopyField
<1>2. put[r].pc = "copy" /\ UNCHANGED <<file, proc, writeFailed, interrupted, overlapped>>
  BY Zenon DEF CopyField
<1>3. /\ put'[r] = Copied(put[r], f)
      /\ \A q \in Requesters \ {r} : put'[q] = put[q]
  BY <1>1, Zenon DEF TypeOK
<1>4. /\ put'[r].pc = IF put[r].left = {f} THEN "done" ELSE "copy"
      /\ put'[r].cfg = put[r].cfg
      /\ put'[r].left = put[r].left \ {f}
  BY <1>3, SMT DEF Copied
<1>5. /\ put[r].left \subseteq Field /\ put[r].cfg \in [Field -> Values]
      /\ memory \in [Field -> Values] /\ f \in Field
  BY DEF TypeOK, Config
<1>6. HandlerInv' /\ proc = "serving"
  BY <1>2, <1>3, <1>4 DEF StoreInv, HandlerInv, InHandler
<1>7. ASSUME ~overlapped PROVE AloneInv' /\ AgreeInv'
  <2>1. AloneInv
    BY <1>7 DEF StoreInv
  <2>2. /\ file = Whole(put[r].cfg)
        /\ \A g \in Field \ put[r].left : memory[g] = put[r].cfg[g]
        /\ file.state = "broken" => interrupted
    BY <1>2, <2>1 DEF AloneInv
  <2>3. \A g \in Field \ (put[r].left \ {f}) : memory'[g] = put[r].cfg[g]
    BY <1>1, <1>5, <2>2
  <2>4. \A q \in Requesters : q # r => put'[q].pc \notin {"write", "copy"}
    BY <1>2, <1>3, <2>1 DEF AloneInv, Writing
  <2>5. AloneInv'
    BY <1>2, <1>4, <2>2, <2>3, <2>4 DEF AloneInv, Writing
  <2>6. CASE put[r].left = {f}
    <3>1. \A g \in Field : memory'[g] = put[r].cfg[g]
      BY <2>3, <2>6
    <3>2. memory' \in [Field -> Values]
      BY <1>1, <1>5
    <3>3. memory' = put[r].cfg
      BY <1>5, <3>1, <3>2
    <3>4. Loads(file') = put[r].cfg
      BY <1>2, <2>2, SMT DEF Loads, Whole
    <3> QED
      BY <2>5, <3>3, <3>4 DEF AgreeInv
  <2>7. CASE put[r].left # {f}
    BY <1>4, <2>5, <2>7 DEF AgreeInv, Writing
  <2> QED
    BY <2>6, <2>7
<1> QED
  BY <1>2, <1>6, <1>7 DEF StoreInv

LEMMA ProviderStore ==
  ASSUME TypeOK, StoreInv, AwaitInv, Provider
  PROVE  StoreInv'
<1>1. App \in Requesters
  BY DEF Requesters
<1>2. CASE SaveConfig
  <2>1. PICK lost \in BOOLEAN :
          put' = [put EXCEPT ![App] = IF lost \/ proc # "serving"
                                      THEN [NoPut EXCEPT !.pc = "lost"]
                                      ELSE Receive(ToJson(app.config))]
    BY <1>2, Zenon DEF SaveConfig
  <2>2. /\ UNCHANGED <<file, proc, memory, writeFailed, interrupted, overlapped>>
        /\ app.busy = "none"
    BY <1>2, Zenon DEF SaveConfig, serverVars
  <2>3. put[App].pc = "idle" /\ ~Writing(App)
    BY <2>2 DEF AwaitInv, Writing
  <2>4. \A q \in Requesters \ {App} : put'[q] = put[q]
    BY <2>1, Zenon DEF TypeOK
  <2>5. CASE lost \/ proc # "serving"
    <3>1. put'[App] = [NoPut EXCEPT !.pc = "lost"]
      BY <1>1, <2>1, <2>5, Zenon DEF TypeOK
    <3>2. put'[App].pc = "lost"
      BY <3>1 DEF NoPut
    <3> QED
      BY <1>1, <2>2, <2>3, <2>4, <3>2, QuietStep
  <2>6. CASE ~(lost \/ proc # "serving")
    <3>1. put'[App] = Receive(ToJson(app.config)) /\ proc = "serving"
      BY <1>1, <2>1, <2>6, Zenon DEF TypeOK
    <3>2. app.config \in Config
      BY DEF TypeOK
    <3>3. /\ put'[App].pc \in {"open", "refused"}
          /\ put'[App].pc = "open" => put'[App].left = Field
      BY <3>1, <3>2, ToJsonValues, ReceiveType
    <3> QED
      BY <1>1, <2>2, <2>3, <2>4, <3>1, <3>3, QuietStep
  <2> QED
    BY <2>5, <2>6
<1>3. CASE SaveReturns
  <2>1. /\ UNCHANGED <<file, proc, memory, writeFailed, interrupted, overlapped>>
        /\ put' = [put EXCEPT ![App] = NoPut]
        /\ ~InHandler(App)
    BY <1>3, Zenon DEF SaveReturns, serverVars
  <2>2. /\ put'[App] = NoPut
        /\ \A q \in Requesters \ {App} : put'[q] = put[q]
    BY <1>1, <2>1, Zenon DEF TypeOK
  <2>3. put'[App].pc = "idle" /\ ~Writing(App)
    BY <2>1, <2>2 DEF NoPut, InHandler, Writing
  <2> QED
    BY <1>1, <2>1, <2>2, <2>3, QuietStep
<1>4. CASE UNCHANGED <<file, proc, memory, writeFailed, interrupted, overlapped, put>>
  BY <1>4, Zenon
     DEF StoreInv, HandlerInv, AloneInv, AgreeInv, InHandler, Writing
<1>5. ASSUME LoadConfig \/ LoadReturns \/ ResetConfig
             \/ \E f \in Field, v \in Typed : Edit(f, v)
      PROVE  UNCHANGED <<file, proc, memory, writeFailed, interrupted, overlapped, put>>
  BY <1>5, Zenon DEF LoadConfig, LoadReturns, ResetConfig, Edit, serverVars
<1> QED
  BY <1>2, <1>3, <1>4, <1>5, Zenon DEF Provider

LEMMA AwaitInit == Init => AwaitInv
BY DEF Init, AwaitInv, Requesters, NoPut

LEMMA AwaitStep ==
  ASSUME TypeOK, AwaitInv, Next
  PROVE  AwaitInv'
<1>1. App \in Requesters
  BY DEF Requesters
<1>2. ASSUME UNCHANGED app, put[App].pc = "idle" => put'[App].pc = "idle"
      PROVE  AwaitInv'
  BY <1>2, Zenon DEF AwaitInv
<1>3. CASE Process
  <2>1. UNCHANGED app
    BY <1>3, Zenon DEF Process, New, WriteDefault, NewApp, Crash
  <2>2. put[App].pc = "idle" => put'[App].pc = "idle"
    BY <1>1, <1>3 DEF Process, New, WriteDefault, NewApp, Crash, InHandler, TypeOK
  <2> QED
    BY <1>2, <2>1, <2>2
<1>4. ASSUME NEW r \in Clients, SendPut(r) \/ TakeAnswer(r)
      PROVE  AwaitInv'
  <2>1. r # App /\ UNCHANGED app
    BY <1>4, ConfigAssumption, Zenon DEF SendPut, TakeAnswer
  <2>2. put'[App] = put[App]
    BY <1>1, <1>4, <2>1, Zenon DEF SendPut, TakeAnswer, TypeOK
  <2> QED
    BY <1>2, <2>1, <2>2
<1>5. ASSUME NEW r \in Requesters, Handler(r)
      PROVE  AwaitInv'
  <2>1. put[r].pc \in {"open", "write", "copy"} /\ UNCHANGED app
    BY <1>5 DEF Handler, OpenFile, WriteFile, CopyField
  <2>2. \A q \in Requesters \ {r} : put'[q] = put[q]
    BY <1>5 DEF Handler, OpenFile, WriteFile, CopyField, Advance, TypeOK
  <2> QED
    BY <1>1, <1>2, <2>1, <2>2
<1>6. CASE Provider
  <2>1. CASE SaveConfig
    BY <2>1 DEF SaveConfig, AwaitInv, TypeOK
  <2>2. CASE SaveReturns
    <3>1. put'[App] = NoPut
      BY <1>1, <2>2, Zenon DEF SaveReturns, TypeOK
    <3> QED
      BY <3>1 DEF AwaitInv, NoPut
  <2>3. CASE LoadConfig
    BY <2>3 DEF LoadConfig, AwaitInv, TypeOK
  <2>4. CASE LoadReturns
    BY <2>4 DEF LoadReturns, AwaitInv, TypeOK
  <2>5. CASE ResetConfig
    BY <2>5 DEF ResetConfig, AwaitInv, TypeOK
  <2>6. CASE \E f \in Field, v \in Typed : Edit(f, v)
    BY <2>6 DEF Edit, AwaitInv, TypeOK
  <2> QED
    BY <1>6, <2>1, <2>2, <2>3, <2>4, <2>5, <2>6 DEF Provider
<1> QED
  BY <1>3, <1>4, <1>5, <1>6 DEF Next

StoredInv == TypeOK /\ AwaitInv /\ StoreInv

LEMMA StoredStep == StoredInv /\ [Next]_vars => StoredInv'
<1> SUFFICES ASSUME StoredInv, [Next]_vars PROVE StoredInv'
  OBVIOUS
<1>1. TypeOK /\ AwaitInv /\ StoreInv
  BY DEF StoredInv
<1>2. TypeOK'
  BY <1>1, TypeStep
<1>3. CASE UNCHANGED vars
  <2>1. AwaitInv'
    BY <1>1, <1>3, Zenon DEF AwaitInv, vars
  <2>2. StoreInv'
    BY <1>1, <1>3, Zenon
       DEF StoreInv, HandlerInv, AloneInv, AgreeInv, InHandler, Writing, vars
  <2> QED
    BY <1>2, <2>1, <2>2 DEF StoredInv
<1>4. CASE Next
  <2>1. AwaitInv'
    BY <1>1, <1>4, AwaitStep
  <2>2. ASSUME NEW r \in Requesters, Handler(r) PROVE StoreInv'
    BY <1>1, <2>2, OpenStore, WriteStore, CopyStore DEF Handler
  <2>3. StoreInv'
    BY <1>1, <1>4, <2>2, ProcessStore, ClientStore, ProviderStore DEF Next
  <2> QED
    BY <1>2, <2>1, <2>3 DEF StoredInv
<1> QED
  BY <1>3, <1>4

LEMMA StoredIsInvariant == Spec => []StoredInv
<1>1. Init => StoredInv
  BY TypeInit, AwaitInit, StoreInit DEF StoredInv
<1> QED
  BY <1>1, StoredStep, PTL DEF Spec

\* As long as PUTs do not overlap, what the API answers with between them is
\* what a restart would load: handleUpdateConfig updates the memory only after
\* the file, whichever of its steps fails and wherever the process is killed.
THEOREM MemoryIsStored == Spec => []SettledAgree
<1>1. StoredInv => SettledAgree
  BY DEF StoredInv, StoreInv, AgreeInv, SettledAgree, AllSettled, InHandler, Writing
<1> QED
  BY <1>1, StoredIsInvariant, PTL

\* Only overlapping PUTs, or a write cut short by an error or by the end of the
\* process, can leave a config.yaml that New does not parse; the next write that
\* is through makes up for the latter.
THEOREM RestartParses == Spec => []StartsAgain
<1>1. StoredInv => StartsAgain
  BY DEF StoredInv, StoreInv, StartsAgain
<1> QED
  BY <1>1, StoredIsInvariant, PTL

-----------------------------------------------------------------------------
(* The two loads of a start.  Between New of main and NewApp no request is  *)
(* in its handler, so that the second load finds what the first one found. *)

BootInv ==
  /\ \A r \in Requesters : InHandler(r) => proc = "serving"
  /\ proc = "newapp" => memory = Loads(file)

LEMMA BootStep == TypeOK /\ BootInv /\ [Next]_vars => BootInv'
<1> SUFFICES ASSUME TypeOK, BootInv, [Next]_vars PROVE BootInv'
  OBVIOUS
<1>0. DOMAIN put = Requesters
  BY DEF TypeOK
<1>1. CASE UNCHANGED vars
  BY <1>1, Zenon DEF BootInv, InHandler, vars
<1>2. CASE Process
  <2>1. Loads(Whole(Default)) = Default
    BY DEF Loads, Whole
  <2>2. CASE New
    BY <2>2, Zenon DEF New, BootInv, InHandler
  <2>3. CASE WriteDefault
    BY <2>1, <2>3, Zenon DEF WriteDefault, BootInv, InHandler
  <2>4. CASE NewApp
    BY <2>4, Zenon DEF NewApp, BootInv, InHandler
  <2>5. CASE Crash
    <3>1. \A r \in Requesters : ~InHandler(r)'
      BY <2>5 DEF Crash, InHandler, NoPut
    <3> QED
      BY <2>5, <3>1 DEF Crash, BootInv
  <2> QED
    BY <1>2, <2>2, <2>3, <2>4, <2>5 DEF Process
<1>3. CASE \E r \in Requesters : Handler(r)
  <2>1. proc = "serving" /\ proc' = proc
    BY <1>3, Zenon DEF Handler, OpenFile, WriteFile, CopyField, InHandler, BootInv
  <2> QED
    BY <2>1 DEF BootInv
<1>4. CASE \E r \in Clients : SendPut(r) \/ TakeAnswer(r)
  <2>1. UNCHANGED <<proc, memory, file>>
    BY <1>4, Zenon DEF SendPut, TakeAnswer
  <2>2. \A r \in Requesters : InHandler(r)' => InHandler(r) \/ proc = "serving"
    <3>1. CASE \E r \in Clients : SendPut(r)
      BY <3>1 DEF SendPut
    <3>2. CASE \E r \in Clients : TakeAnswer(r)
      <4>1. PICK r \in Requesters : put' = [put EXCEPT ![r] = NoPut]
        BY <3>2 DEF TakeAnswer, Requesters
      <4>2. put'[r] = NoPut /\ \A q \in Requesters \ {r} : put'[q] = put[q]
        BY <4>1, <1>0
      <4>3. NoPut.pc = "idle"
        BY DEF NoPut
      <4> QED
        BY <4>2, <4>3 DEF InHandler
    <3> QED
      BY <1>4, <3>1, <3>2
  <2> QED
    BY <2>1, <2>2 DEF BootInv
<1>5. CASE Provider
  <2>1. UNCHANGED <<proc, memory, file>>
    BY <1>5, Zenon DEF Provider, LoadConfig, LoadReturns, Edit, SaveConfig, SaveReturns,
       ResetConfig, serverVars
  <2>2. \A r \in Requesters : InHandler(r)' => InHandler(r) \/ proc = "serving"
    <3>1. CASE UNCHANGED put
      BY <3>1, Zenon DEF InHandler
    <3>2. CASE proc # "serving" /\ (SaveConfig \/ SaveReturns)
      <4>1. PICK p \in {NoPut, [NoPut EXCEPT !.pc = "lost"]} : put' = [put EXCEPT ![App] = p]
        BY <3>2, Zenon DEF SaveConfig, SaveReturns
      <4>2. App \in Requesters
        BY DEF Requesters
      <4>3. put'[App] = p /\ \A q \in Requesters \ {App} : put'[q] = put[q]
        BY <4>1, <4>2, <1>0
      <4>4. NoPut.pc = "idle" /\ [NoPut EXCEPT !.pc = "lost"].pc = "lost"
        BY DEF NoPut
      <4> QED
        BY <4>2, <4>3, <4>4 DEF InHandler
    <3> QED
      BY <1>5, <3>1, <3>2, Zenon DEF Provider, LoadConfig, LoadReturns, Edit, ResetConfig
  <2> QED
    BY <2>1, <2>2 DEF BootInv
<1> QED
  BY <1>1, <1>2, <1>3, <1>4, <1>5 DEF Next

\* NewApp reads the file a second time (core.go:44) and gets what New returned to
\* main, whether that was read or had just been written as the default.
THEOREM RelayStartsAlike == Spec => StartsAlike
<1>1. Init => BootInv
  BY DEF Init, BootInv, InHandler, NoPut
<1>2. ASSUME BootInv, [Next]_vars, proc = "newapp", proc' \in {"serving", "headless"}
      PROVE  relayConfig' = memory'
  <2>1. NewApp
    BY <1>2, Zenon DEF Next, Process, New, WriteDefault, Crash, SendPut, TakeAnswer, Handler,
       OpenFile, WriteFile, CopyField, Provider, LoadConfig, LoadReturns, Edit, SaveConfig,
       SaveReturns, ResetConfig, serverVars, vars
  <2> QED
    BY <1>2, <2>1 DEF BootInv, NewApp
<1>3. BootInv /\ [Next]_vars =>
        [proc = "newapp" /\ proc' \in {"serving", "headless"} => relayConfig' = memory']_vars
  BY <1>2
<1> QED
  BY <1>1, <1>3, BootStep, TypeInit, TypeStep, PTL DEF Spec, StartsAlike

-----------------------------------------------------------------------------
(* The settings page. *)

\* What is read back from what ToJson wrote is the same configuration: no two
\* fields share a key.
LEMMA RoundTrip == ASSUME NEW c \in Config PROVE FromJson(ToJson(c)) = c
<1>1. ASSUME NEW f \in Field PROVE FromJson(ToJson(c))[f] = c[f]
  <2>1. \A g, h \in Field : Lower[g] = Lower[h] => g = h
    BY DEF Field, Lower
  <2>2. (CHOOSE g \in Field : Lower[g] = Lower[f]) = f
    BY <2>1, Zenon
  <2>3. Lower[f] \in DOMAIN ToJson(c)
    BY DEF ToJson
  <2>4. ToJson(c)[Lower[f]].val = c[CHOOSE g \in Field : Lower[g] = Lower[f]]
    BY DEF ToJson
  <2> QED
    BY <2>2, <2>3, <2>4 DEF FromJson
<1>2. FromJson(ToJson(c)) \in [Field -> Values] /\ c \in [Field -> Values]
  BY RoundTripType DEF Config
<1> QED
  BY <1>1, <1>2

LEMMA FlagStep == TypeOK /\ UnsavedIsFlagged /\ [Next]_vars => UnsavedIsFlagged'
<1> SUFFICES ASSUME TypeOK, UnsavedIsFlagged, [Next]_vars PROVE UnsavedIsFlagged'
  OBVIOUS
<1>1. CASE UNCHANGED app
  BY <1>1, Zenon DEF UnsavedIsFlagged
<1>2. app.config \in Config /\ app.original \in Config
  BY DEF TypeOK
<1>3. CASE LoadReturns
  BY <1>3 DEF LoadReturns, UnsavedIsFlagged, TypeOK
<1>4. CASE LoadConfig \/ SaveConfig
  BY <1>4 DEF LoadConfig, SaveConfig, UnsavedIsFlagged, TypeOK
<1>5. CASE SaveReturns
  <2>1. FromJson(ToJson(app.config)) = app.config
    BY <1>2, RoundTrip
  <2> QED
    BY <1>5, <2>1 DEF SaveReturns, UnsavedIsFlagged, TypeOK
<1>6. CASE ResetConfig
  <2>1. FromJson(ToJson(app.original)) = app.original
    BY <1>2, RoundTrip
  <2> QED
    BY <1>6, <2>1 DEF ResetConfig, UnsavedIsFlagged, TypeOK
<1>7. CASE \E f \in Field, v \in Typed : Edit(f, v)
  BY <1>7 DEF Edit, UnsavedIsFlagged, TypeOK
<1>8. ASSUME Process \/ (\E r \in Clients : SendPut(r) \/ TakeAnswer(r))
                     \/ \E r \in Requesters : Handler(r)
      PROVE  UNCHANGED app
  BY <1>8, Zenon DEF Process, New, WriteDefault, NewApp, Crash, SendPut, TakeAnswer,
                     Handler, OpenFile, WriteFile, CopyField
<1>9. CASE UNCHANGED vars
  BY <1>1, <1>9, Zenon DEF vars
<1> QED
  BY <1>1, <1>3, <1>4, <1>5, <1>6, <1>7, <1>8, <1>9, Zenon DEF Next, Provider

\* Whatever becomes of a load, a save or a reset, a change the user made and
\* that is not in the original is marked.
THEOREM ChangesAreMarked == Spec => []UnsavedIsFlagged
<1>1. Init => UnsavedIsFlagged
  BY DEF Init, UnsavedIsFlagged
<1> QED
  BY <1>1, TypeInit, TypeStep, FlagStep, PTL DEF Spec
=============================================================================
