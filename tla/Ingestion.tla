------------------------------ MODULE Ingestion ------------------------------
(***************************************************************************)
(* How a call of the library gets at its input (src/source.rs and the      *)
(* entry points of src/lib.rs).  Bytes and seekable files are used where   *)
(* they are; a reader is first copied to a temporary file, its spool,      *)
(* which is opened again by name to be decoded from and removed when the   *)
(* source is dropped.  Calls of several threads and of several processes   *)
(* put their spools in the same directory.  In containers that share a     *)
(* directory all processes may have the same id, and a process that is     *)
(* killed leaves its spools to its successor.                              *)
(*                                                                         *)
(* The input is a sequence of top-level boxes of one byte each: the file   *)
(* type (ftyp) with a HEIF brand, an AVIF brand, no known brand or a       *)
(* malformed body, the metadata, anything else, and bytes that are no box. *)
(***************************************************************************)
EXTENDS Integers, Sequences, FiniteSets

CONSTANTS
    Calls,
    Processes,
    ProcessOf,      \* the process that makes a call
    Pid,            \* std::process::id of a process
    Times,          \* what the clock may say
    MaxAttempts,    \* to create a spool, 32
    Scenarios       \* what each call is asked for

Unlimited == -1

\* The family of an input, when the caller or its brands do not tell.
NoFamily == "none"

FileTypes == {"heif", "avif", "other", "malformed"}
Boxes == FileTypes \cup {"meta", "mdat", "junk"}

Request == [entry : {"bytes", "file", "reader"}, input : Seq(Boxes),
            hint : {"heif", "avif", NoFamily},
            maxInput : Nat \cup {Unlimited},
            maxSpool : Nat \cup {Unlimited}]

ASSUME ProcessAssumption ==
    ProcessOf \in [Calls -> Processes] /\ DOMAIN Pid = Processes
ASSUME AttemptsAssumption == MaxAttempts \in Nat \ {0} /\ Times \subseteq Nat
ASSUME ScenarioAssumption ==
    \A s \in Scenarios :
        DOMAIN s \subseteq Calls /\ \A c \in DOMAIN s : s[c] \in Request

VARIABLES
    request,    \* of each call that is made
    files,      \* the spools in the directory: who made them, what they hold
    counter,    \* TEMP_SPOOL_COUNTER of each process
    pc,         \* what each call does next
    path,       \* its spool
    attempts,   \* to create it
    written,    \* bytes_written
    view,       \* what its source reads
    found,      \* the family and the metadata box it decodes from
    kept,       \* its spool could not be removed
    result

spoolVars == <<files, counter, path, attempts, written, kept>>
vars == <<request, pc, spoolVars, view, found, result>>

Made == DOMAIN request

Exceeds(n, limit) == limit # Unlimited /\ n > limit

-----------------------------------------------------------------------------
(* The two ways to find the family and the metadata of an input.           *)

FirstOf(boxes, kinds) ==
    LET places == {i \in 1 .. Len(boxes) : boxes[i] \in kinds}
    IN  IF places = {} THEN 0
        ELSE CHOOSE i \in places : \A j \in places : i <= j

LastOf(boxes, kinds) ==
    LET places == {i \in 1 .. Len(boxes) : boxes[i] \in kinds}
    IN  IF places = {} THEN 0
        ELSE CHOOSE i \in places : \A j \in places : i >= j

Refused == [family |-> NoFamily, meta |-> 0]

\* The brand decides, then the hint; without a family or metadata the input
\* is refused.
Decide(brand, hint, meta) ==
    LET family == IF brand \in {"heif", "avif"} THEN brand ELSE hint
    IN  IF family = NoFamily \/ meta = 0 THEN Refused
        ELSE [family |-> family, meta |-> meta]

\* From memory: all boxes are parsed to find the file type, where a failure
\* only means that there is none, and again to find the metadata.
FromBytes(boxes, hint) ==
    LET type == FirstOf(boxes, FileTypes)
    IN  IF FirstOf(boxes, {"junk"}) # 0 THEN Refused
        ELSE Decide(IF type = 0 THEN NoFamily ELSE boxes[type], hint,
                    FirstOf(boxes, {"meta"}))

\* From a source: boxes are read up to the first file type and the first
\* metadata; these two, in order, are all that is parsed.
Selected(boxes, type, meta) ==
    LET junk == FirstOf(boxes, {"junk"})
        last == IF type > meta THEN type ELSE meta
    IN  IF junk # 0 /\ (type = 0 \/ meta = 0 \/ junk < last) THEN Refused
        ELSE [family |-> IF type = 0 THEN NoFamily ELSE boxes[type],
              meta |-> meta]

\* Mutant of FromSource: later boxes replace the first ones.
FromSourceLast(boxes, hint) ==
    LET selected == Selected(boxes, LastOf(boxes, FileTypes),
                                    LastOf(boxes, {"meta"}))
    IN  IF selected.family = "malformed" THEN Refused
        ELSE Decide(selected.family, hint, selected.meta)

FromSource(boxes, hint) ==
    LET selected == Selected(boxes, FirstOf(boxes, FileTypes),
                                    FirstOf(boxes, {"meta"}))
    IN  IF selected.family = "malformed" THEN Refused
        ELSE Decide(selected.family, hint, selected.meta)

-----------------------------------------------------------------------------
Init ==
    /\ request \in Scenarios
    /\ files = << >>
    /\ counter = [p \in Processes |-> 0]
    /\ pc = [c \in Made |-> "start"]
    /\ path = [c \in Made |-> << >>]
    /\ attempts = [c \in Made |-> 0]
    /\ written = [c \in Made |-> 0]
    /\ view = [c \in Made |-> << >>]
    /\ found = [c \in Made |-> Refused]
    /\ kept = [c \in Made |-> FALSE]
    /\ result = [c \in Made |-> "none"]

\* The call goes on with another step, or leaves with a result: a spool that
\* it has is removed first.
Goto(c, label) == pc' = [pc EXCEPT ![c] = label] /\ UNCHANGED result

Leave(c, outcome) ==
    /\ pc' = [pc EXCEPT ![c] = IF path[c] \in DOMAIN files THEN "remove"
                                                           ELSE "returned"]
    /\ result' = [result EXCEPT ![c] = outcome]

Return(c, outcome) ==
    /\ pc' = [pc EXCEPT ![c] = "returned"]
    /\ result' = [result EXCEPT ![c] = outcome]

\* Bytes and files are at hand; a file may fail to open.
OpenInput(c) ==
    /\ pc[c] = "start"
    /\ request[c].entry # "reader"
    /\ view' = [view EXCEPT ![c] = request[c].input]
    /\ Goto(c, "check")
    /\ UNCHANGED <<request, spoolVars, found>>

FailInput(c) ==
    /\ pc[c] = "start"
    /\ request[c].entry = "file"
    /\ Return(c, "io")
    /\ UNCHANGED <<request, spoolVars, view, found>>

-----------------------------------------------------------------------------
(* TempFileSpoolSource.                                                    *)

\* create_dir_all, when a directory is configured, succeeds or fails.
StartSpool(c) ==
    /\ pc[c] = "start"
    /\ request[c].entry = "reader"
    /\ \/ Goto(c, "name")
       \/ Return(c, "limit")
    /\ UNCHANGED <<request, spoolVars, view, found>>

\* next_temp_spool_path: the process, the time and a counter.
NameSpool(c) ==
    /\ pc[c] = "name"
    /\ LET p == ProcessOf[c]
       IN  /\ \E t \in Times :
                  path' = [path EXCEPT ![c] = <<Pid[p], t, counter[p]>>]
           /\ counter' = [counter EXCEPT ![p] = @ + 1]
    /\ Goto(c, "create")
    /\ UNCHANGED <<request, files, attempts, written, kept, view, found>>

Empty(c) == [maker |-> c, content |-> << >>]

\* Mutant of CreateSpool: File::create, which takes an existing file over.
CreateSpoolOver(c) ==
    /\ pc[c] = "create"
    /\ files' = [name \in DOMAIN files \cup {path[c]} |->
                    IF name = path[c] THEN Empty(c) ELSE files[name]]
    /\ Goto(c, "copy")
    /\ UNCHANGED <<request, counter, path, attempts, written, kept, view,
                   found>>

\* create_new: the file is made only if there is none of this name.
CreateSpool(c) ==
    /\ pc[c] = "create"
    /\ path[c] \notin DOMAIN files
    /\ files' = [name \in DOMAIN files \cup {path[c]} |->
                    IF name = path[c] THEN Empty(c) ELSE files[name]]
    /\ Goto(c, "copy")
    /\ UNCHANGED <<request, counter, path, attempts, written, kept, view,
                   found>>

\* Mutant of SpoolExists: the attempts are not limited.
SpoolExistsAgain(c) ==
    /\ pc[c] = "create"
    /\ path[c] \in DOMAIN files
    /\ attempts' = [attempts EXCEPT ![c] = @ + 1]
    /\ path' = [path EXCEPT ![c] = << >>]
    /\ Goto(c, "name")
    /\ UNCHANGED <<request, files, counter, written, kept, view, found>>

\* AlreadyExists: another name is tried, up to a number of times.
SpoolExists(c) ==
    /\ pc[c] = "create"
    /\ path[c] \in DOMAIN files
    /\ attempts' = [attempts EXCEPT ![c] = @ + 1]
    /\ path' = [path EXCEPT ![c] = << >>]
    /\ IF attempts[c] + 1 = MaxAttempts THEN Return(c, "limit")
                                        ELSE Goto(c, "name")
    /\ UNCHANGED <<request, files, counter, written, kept, view, found>>

FailCreate(c) ==
    /\ pc[c] = "create"
    /\ Return(c, "limit")
    /\ path' = [path EXCEPT ![c] = << >>]
    /\ UNCHANGED <<request, files, counter, attempts, written, kept, view,
                   found>>

NextByte(c) == SubSeq(request[c].input, written[c] + 1, written[c] + 1)

More(c) == written[c] < Len(request[c].input)

\* The reader gives bytes, the limit is checked, then they are written.
CopyBytes(c) ==
    /\ pc[c] = "copy"
    /\ More(c)
    /\ ~Exceeds(written[c] + 1, request[c].maxSpool)
    /\ files' = [files EXCEPT ![path[c]].content = @ \o NextByte(c)]
    /\ written' = [written EXCEPT ![c] = @ + 1]
    /\ UNCHANGED <<request, pc, counter, path, attempts, kept, view, found,
                   result>>

\* Mutant of ExceedLimit: the file is left where it is.
ExceedLimitLeave(c) ==
    /\ pc[c] = "copy"
    /\ More(c)
    /\ Exceeds(written[c] + 1, request[c].maxSpool)
    /\ Return(c, "limit")
    /\ UNCHANGED <<request, spoolVars, view, found>>

ExceedLimit(c) ==
    /\ pc[c] = "copy"
    /\ More(c)
    /\ Exceeds(written[c] + 1, request[c].maxSpool)
    /\ Leave(c, "limit")
    /\ UNCHANGED <<request, spoolVars, view, found>>

\* A read, a write, the flush or the second open fails.
FailSpool(c) ==
    /\ pc[c] = "copy"
    /\ Leave(c, "io")
    /\ UNCHANGED <<request, spoolVars, view, found>>

\* The caller's reader panics: nothing owns the file yet.
PanicSpool(c) ==
    /\ pc[c] = "copy"
    /\ Return(c, "readerPanic")
    /\ UNCHANGED <<request, spoolVars, view, found>>

\* At the end the file is closed and opened again by its name.
ReopenSpool(c) ==
    /\ pc[c] = "copy"
    /\ ~More(c)
    /\ path[c] \in DOMAIN files
    /\ view' = [view EXCEPT ![c] = files[path[c]].content]
    /\ Goto(c, "check")
    /\ UNCHANGED <<request, spoolVars, found>>

\* remove_file, on a failure or when the source is dropped; its own failure
\* is ignored.
RemoveSpool(c) ==
    /\ pc[c] = "remove"
    /\ \/ /\ files' = [name \in DOMAIN files \ {path[c]} |-> files[name]]
          /\ UNCHANGED kept
       \/ /\ kept' = [kept EXCEPT ![c] = TRUE]
          /\ UNCHANGED files
    /\ Goto(c, "returned")
    /\ UNCHANGED <<request, counter, path, attempts, written, view, found>>

-----------------------------------------------------------------------------
(* From the input to the image.                                            *)

\* enforce_input_bytes, then the family and the metadata.
Refuse(c) ==
    /\ pc[c] = "check"
    /\ Exceeds(Len(view[c]), request[c].maxInput)
    /\ Leave(c, "limit")
    /\ UNCHANGED <<request, spoolVars, view, found>>

Resolve(c) ==
    /\ pc[c] = "check"
    /\ ~Exceeds(Len(view[c]), request[c].maxInput)
    /\ LET hint == request[c].hint
           verdict == IF request[c].entry = "bytes"
                      THEN FromBytes(view[c], hint)
                      ELSE FromSource(view[c], hint)
       IN  /\ found' = [found EXCEPT ![c] = verdict]
           /\ IF verdict = Refused THEN Leave(c, "refused")
                                   ELSE Goto(c, "decode")
    /\ UNCHANGED <<request, spoolVars, view>>

\* A source may fail to read.
FailResolve(c) ==
    /\ pc[c] = "check"
    /\ request[c].entry # "bytes"
    /\ Leave(c, "io")
    /\ UNCHANGED <<request, spoolVars, view, found>>

\* The decode succeeds, fails or panics; the source is dropped in any case.
Decode(c) ==
    /\ pc[c] = "decode"
    /\ \E outcome \in {"image", "error", "panic"} : Leave(c, outcome)
    /\ UNCHANGED <<request, spoolVars, view, found>>

\* A process is killed with the calls that it has begun, and starts again.
Kill(p) ==
    /\ LET begun == {c \in Made : /\ ProcessOf[c] = p
                                  /\ pc[c] \notin {"start", "returned"}}
       IN  /\ begun # {}
           /\ pc' = [c \in Made |-> IF c \in begun THEN "returned" ELSE pc[c]]
           /\ result' = [c \in Made |->
                            IF c \in begun THEN "killed" ELSE result[c]]
    /\ counter' = [counter EXCEPT ![p] = 0]
    /\ UNCHANGED <<request, files, path, attempts, written, kept, view, found>>

Returned == (\A c \in Made : pc[c] = "returned") /\ UNCHANGED vars

Step(c) ==
    \/ OpenInput(c) \/ FailInput(c)
    \/ StartSpool(c) \/ NameSpool(c)
    \/ CreateSpool(c) \/ SpoolExists(c) \/ FailCreate(c)
    \/ CopyBytes(c) \/ ExceedLimit(c) \/ FailSpool(c) \/ PanicSpool(c)
    \/ ReopenSpool(c) \/ RemoveSpool(c)
    \/ Refuse(c) \/ Resolve(c) \/ FailResolve(c) \/ Decode(c)

Next ==
    \/ \E c \in Made : Step(c)
    \/ \E p \in Processes : Kill(p)
    \/ Returned

Spec == Init /\ [][Next]_vars

-----------------------------------------------------------------------------
Labels == {"start", "name", "create", "copy", "check", "decode", "remove",
           "returned"}
Results == {"none", "io", "limit", "refused", "error", "image", "panic",
            "readerPanic", "killed"}

Names == {Pid[p] : p \in Processes} \X Times \X Nat

\* Every variable keeps its type; a spool is tried for at most MaxAttempts
\* times, and never holds more than the limit, not even while it grows.
TypeOK ==
    /\ request \in Scenarios
    /\ files \in [DOMAIN files -> [maker : Made, content : Seq(Boxes)]]
    /\ \A name \in DOMAIN files :
           /\ name \in Names
           /\ ~Exceeds(Len(files[name].content),
                       request[files[name].maker].maxSpool)
    /\ counter \in [Processes -> Nat]
    /\ pc \in [Made -> Labels]
    /\ path \in [Made -> Names \cup {<< >>}]
    /\ attempts \in [Made -> 0 .. MaxAttempts]
    /\ \A c \in Made : pc[c] \in {"name", "create"} => attempts[c] < MaxAttempts
    /\ written \in [Made -> Nat]
    /\ view \in [Made -> Seq(Boxes)]
    /\ kept \in [Made -> BOOLEAN]
    /\ result \in [Made -> Results]

\* A call copies into, opens, decodes from and removes the spool that it has
\* made, and reads what its own reader gave, whatever other threads, other
\* processes of the same id and their predecessors have put there.
OwnSpool ==
    \A c \in Made :
        /\ pc[c] \in {"copy", "remove"} =>
               path[c] \in DOMAIN files /\ files[path[c]].maker = c
        /\ pc[c] \in {"check", "decode"} => view[c] = request[c].input

\* When a call has returned, its spool is gone: after an image, an error, a
\* limit and a panic of the decoder.  It stays when it cannot be removed,
\* when the process was killed, and when the reader itself panicked.
NothingLeft ==
    \A name \in DOMAIN files :
        LET c == files[name].maker
        IN  \/ pc[c] # "returned"
            \/ kept[c]
            \/ result[c] \in {"killed", "readerPanic"}

BadType(boxes) ==
    LET type == FirstOf(boxes, FileTypes)
    IN  type # 0 /\ boxes[type] = "malformed"

\* The entry points for files and readers accept whatever the one for bytes
\* accepts, with the same family and the same metadata, and more: they parse
\* less of the input.  Only a malformed file type is forgiven from memory,
\* where the hint takes its place, and refused from a source.
AgreesWithBytes ==
    \A c \in Made :
        LET verdict == FromBytes(request[c].input, request[c].hint)
        IN  /\ pc[c] = "decode" /\ verdict # Refused => found[c] = verdict
            /\ result[c] = "refused" /\ ~BadType(request[c].input) =>
                   verdict = Refused
=============================================================================
