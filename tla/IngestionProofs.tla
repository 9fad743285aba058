--------------------------- MODULE IngestionProofs ---------------------------
(***************************************************************************)
(* Proofs about Ingestion, for any calls, processes, ids, clocks, inputs   *)
(* and limits: a call only ever uses its own spool, and leaves none.       *)
(* Then about ItemResolution, for any metadata and limits: caches change   *)
(* no tile, and a grid that is planned is a partition of the picture.      *)
(***************************************************************************)
EXTENDS Ingestion, ItemResolution, SetSums, SequenceTheorems

Holding == {"copy", "check", "decode", "remove"}
Excuses == {"killed", "readerPanic"}

\* A call that has not named a spool has none, and has not tried any.
Fresh ==
    \A c \in Made : /\ pc[c] \in {"start", "name"} => path[c] = << >>
                    /\ pc[c] = "start" => attempts[c] = 0
                    /\ pc[c] \in {"start", "name", "create"} => written[c] = 0
                    /\ pc[c] = "create" => path[c] \in Names

\* Every spool in the directory is that of the call that made it, which goes
\* on with it or has left it for a reason.
Holders ==
    \A name \in DOMAIN files :
        LET c == files[name].maker
        IN  \/ pc[c] \in Holding /\ path[c] = name
            \/ pc[c] = "returned" /\ (kept[c] \/ result[c] \in Excuses)

Held ==
    \A c \in Made :
        pc[c] \in {"copy", "remove"} =>
            path[c] \in DOMAIN files /\ files[path[c]].maker = c

Own ==
    \A c \in Made :
        pc[c] \in {"check", "decode"} =>
            \/ path[c] = << >>
            \/ path[c] \in DOMAIN files /\ files[path[c]].maker = c

\* A spool holds what has been written of the input.
Copied ==
    \A c \in Made :
        pc[c] = "copy" =>
            /\ written[c] <= Len(request[c].input)
            /\ files[path[c]].content
                   = SubSeq(request[c].input, 1, written[c])

Viewed ==
    \A c \in Made :
        pc[c] \in {"check", "decode"} => view[c] = request[c].input

IInv ==
    /\ TypeOK /\ Fresh /\ Holders /\ Held /\ Own /\ Copied /\ Viewed

-----------------------------------------------------------------------------
\* No name is the empty one.
LEMMA NamesNotEmpty == \A name \in Names : name # << >>
  BY DEF Names

\* A request is a record of what the caller gives.
LEMMA RequestType ==
    ASSUME TypeOK, NEW c \in Made
    PROVE  /\ request[c].input \in Seq(Boxes)
           /\ request[c].maxSpool \in Nat \cup {Unlimited}
           /\ request[c].maxInput \in Nat \cup {Unlimited}
           /\ c \in Calls
  BY ScenarioAssumption DEF TypeOK, Made, Request

\* One more byte of an input, behind those that have been copied.
LEMMA NextCopied ==
    ASSUME NEW s \in Seq(Boxes), NEW n \in Nat, n < Len(s)
    PROVE  /\ SubSeq(s, 1, n) \o SubSeq(s, n + 1, n + 1) = SubSeq(s, 1, n + 1)
           /\ SubSeq(s, 1, n + 1) \in Seq(Boxes)
           /\ Len(SubSeq(s, 1, n + 1)) = n + 1
<1>1. /\ Len(s) \in Nat /\ 1 \in 1 .. Len(s) + 1
      /\ n \in 1 - 1 .. Len(s) /\ n + 1 \in n .. Len(s)
      /\ \A i \in 1 .. n + 1 : s[i] \in Boxes
  BY LenProperties
<1>2. SubSeq(s, 1, n) \o SubSeq(s, n + 1, n + 1) = SubSeq(s, 1, n + 1)
  BY <1>1, ConcatAdjacentSubSeq
<1>3. /\ SubSeq(s, 1, n + 1) \in Seq(Boxes)
      /\ Len(SubSeq(s, 1, n + 1)) = n + 1
  BY <1>1, SubSeqProperties
<1>q. QED
  BY <1>2, <1>3

\* Taking bytes or a file as they are keeps the invariant.
LEMMA OpenInputIInv ==
    ASSUME IInv, NEW c \in Made, OpenInput(c)
    PROVE  IInv'
<1> USE DEF IInv, OpenInput, spoolVars, Made, Goto
<1>1. TypeOK'
  BY RequestType, AttemptsAssumption DEF TypeOK, Fresh, Labels, Results
<1>2. Fresh'
  BY DEF TypeOK, Fresh
<1>3. Holders'
  BY NamesNotEmpty DEF TypeOK, Fresh, Holders, Holding, Excuses
<1>4. Held'
  BY NamesNotEmpty DEF TypeOK, Held, Own
<1>5. Own'
  BY NamesNotEmpty DEF TypeOK, Fresh, Held, Own
<1>6. Copied'
  BY RequestType DEF TypeOK, Held, Copied
<1>7. Viewed'
  BY RequestType DEF TypeOK, Copied, Viewed
<1>q. QED
  BY <1>1, <1>2, <1>3, <1>4, <1>5, <1>6, <1>7

\* A file that cannot be opened keeps the invariant.
LEMMA FailInputIInv ==
    ASSUME IInv, NEW c \in Made, FailInput(c)
    PROVE  IInv'
<1> USE DEF IInv, FailInput, spoolVars, Made, Return
<1>1. TypeOK'
  BY RequestType, AttemptsAssumption DEF TypeOK, Fresh, Labels, Results
<1>2. Fresh'
  BY DEF TypeOK, Fresh
<1>3. Holders'
  BY NamesNotEmpty DEF TypeOK, Fresh, Holders, Holding, Excuses
<1>4. Held'
  BY NamesNotEmpty DEF TypeOK, Held, Own
<1>5. Own'
  BY NamesNotEmpty DEF TypeOK, Fresh, Held, Own
<1>6. Copied'
  BY RequestType DEF TypeOK, Held, Copied
<1>7. Viewed'
  BY RequestType DEF TypeOK, Copied, Viewed
<1>q. QED
  BY <1>1, <1>2, <1>3, <1>4, <1>5, <1>6, <1>7

\* Starting a spool keeps the invariant.
LEMMA StartSpoolIInv ==
    ASSUME IInv, NEW c \in Made, StartSpool(c)
    PROVE  IInv'
<1>0. MaxAttempts > 0 /\ attempts[c] = 0
  BY AttemptsAssumption DEF IInv, Fresh, StartSpool
<1> USE DEF IInv, StartSpool, spoolVars, Made, Goto, Return
<1>1. TypeOK'
  BY ZenonT(60), <1>0, RequestType, AttemptsAssumption DEF TypeOK, Fresh, Labels, Results
<1>2. Fresh'
  BY <1>0 DEF TypeOK, Fresh
<1>3. Holders'
  BY ZenonT(60), <1>0, NamesNotEmpty DEF TypeOK, Fresh, Holders, Holding, Excuses
<1>4. Held'
  BY <1>0, NamesNotEmpty DEF TypeOK, Held, Own
<1>5. Own'
  BY <1>0, NamesNotEmpty DEF TypeOK, Fresh, Held, Own
<1>6. Copied'
  BY <1>0, RequestType DEF TypeOK, Held, Copied
<1>7. Viewed'
  BY <1>0, RequestType DEF TypeOK, Copied, Viewed
<1>q. QED
  BY <1>1, <1>2, <1>3, <1>4, <1>5, <1>6, <1>7

\* Naming a spool keeps the invariant.
LEMMA NameSpoolIInv ==
    ASSUME IInv, NEW c \in Made, NameSpool(c)
    PROVE  IInv'
<1>0. PICK t \in Times : path' = [path EXCEPT ![c] =
                            <<Pid[ProcessOf[c]], t, counter[ProcessOf[c]]>>]
  BY DEF NameSpool
<1>p. ProcessOf[c] \in Processes
  BY RequestType, ProcessAssumption DEF IInv
<1>n. <<Pid[ProcessOf[c]], t, counter[ProcessOf[c]]>> \in Names
  BY <1>p DEF IInv, TypeOK, Names
<1>m. path' \in [Made -> Names \cup {<< >>}] /\ path'[c] \in Names
  BY <1>0, <1>n DEF IInv, TypeOK
<1>o. \A d \in Made : d # c => path'[d] = path[d]
  BY <1>0 DEF IInv, TypeOK
<1>k. counter' \in [Processes -> Nat]
  BY <1>p DEF IInv, TypeOK, NameSpool
<1>r. /\ pc[c] = "name" /\ Goto(c, "create")
      /\ UNCHANGED <<request, files, attempts, written, kept, view, found>>
  BY DEF NameSpool
<1> USE DEF IInv, Made, Goto
<1>1. TypeOK'
  BY <1>m, <1>o, <1>k, <1>r, RequestType, AttemptsAssumption DEF TypeOK, Fresh, Labels, Results
<1>2. Fresh'
  BY <1>m, <1>o, <1>k, <1>r DEF TypeOK, Fresh
<1>3. Holders'
  BY <1>m, <1>o, <1>k, <1>r, NamesNotEmpty DEF TypeOK, Fresh, Holders, Holding, Excuses
<1>4. Held'
  BY <1>m, <1>o, <1>k, <1>r, NamesNotEmpty DEF TypeOK, Held, Own
<1>5. Own'
  BY <1>m, <1>o, <1>k, <1>r, NamesNotEmpty DEF TypeOK, Fresh, Held, Own
<1>6. Copied'
  BY <1>m, <1>o, <1>k, <1>r, RequestType DEF TypeOK, Held, Copied
<1>7. Viewed'
  BY <1>m, <1>o, <1>k, <1>r, RequestType DEF TypeOK, Copied, Viewed
<1>q. QED
  BY <1>1, <1>2, <1>3, <1>4, <1>5, <1>6, <1>7

\* Creating a spool keeps the invariant.
LEMMA CreateSpoolIInv ==
    ASSUME IInv, NEW c \in Made, CreateSpool(c)
    PROVE  IInv'
<1>n. path[c] \in Names /\ pc[c] = "create" /\ path[c] \notin DOMAIN files
  BY DEF IInv, Fresh, CreateSpool
<1>e. /\ Empty(c).maker = c /\ Empty(c).content = << >>
      /\ Empty(c) \in [maker : Made, content : Seq(Boxes)]
      /\ Len(Empty(c).content) = 0
  BY DEF Empty
<1>d. /\ DOMAIN files' = DOMAIN files \cup {path[c]}
      /\ files'[path[c]] = Empty(c)
      /\ \A name \in DOMAIN files : files'[name] = files[name]
      /\ files' \in [DOMAIN files' -> [maker : Made, content : Seq(Boxes)]]
  <2>1. files' = [name \in DOMAIN files \cup {path[c]} |->
                     IF name = path[c] THEN Empty(c) ELSE files[name]]
    BY DEF CreateSpool
  <2>q. QED
    BY <1>n, <1>e, <2>1 DEF IInv, TypeOK
<1>r. /\ Goto(c, "copy")
      /\ UNCHANGED <<request, counter, path, attempts, written, kept, view>>
  BY DEF CreateSpool
<1> USE DEF IInv, Made, Goto
<1>1. TypeOK'
  <2>1. \A name \in DOMAIN files' :
            /\ name \in Names
            /\ ~Exceeds(Len(files'[name].content),
                        request[files'[name].maker].maxSpool)
    <3>1. ~Exceeds(0, request[c].maxSpool)
      BY RequestType DEF Exceeds, Unlimited
    <3>q. QED
      BY <1>n, <1>e, <1>d, <3>1 DEF TypeOK
  <2>q. QED
    BY <1>n, <1>d, <1>r, <2>1 DEF TypeOK, Labels
<1>2. Fresh'
  BY <1>n, <1>e, <1>d, <1>r DEF TypeOK, Fresh
<1>3. Holders'
  BY <1>n, <1>e, <1>d, <1>r, NamesNotEmpty DEF TypeOK, Fresh, Holders, Holding, Excuses
<1>4. Held'
  BY <1>n, <1>e, <1>d, <1>r, NamesNotEmpty DEF TypeOK, Held, Own
<1>5. Own'
  BY <1>n, <1>e, <1>d, <1>r, NamesNotEmpty DEF TypeOK, Fresh, Held, Own
<1>6. Copied'
  <2> SUFFICES ASSUME NEW d \in Made, pc'[d] = "copy"
               PROVE  /\ written[d] <= Len(request[d].input)
                      /\ files'[path[d]].content
                             = SubSeq(request[d].input, 1, written[d])
    BY <1>r DEF Copied
  <2>1. CASE d = c
    <3>1. written[c] = 0 /\ request[c].input \in Seq(Boxes)
      BY <1>n, RequestType DEF Fresh
    <3>2. SubSeq(request[c].input, 1, 0) = << >>
      BY <3>1, SubSeqEmpty
    <3>q. QED
      BY <1>e, <1>d, <2>1, <3>1, <3>2, LenProperties
  <2>2. CASE d # c
    BY <1>d, <1>r, <2>2 DEF TypeOK, Held, Copied
  <2>q. QED
    BY <2>1, <2>2
<1>7. Viewed'
  BY <1>n, <1>e, <1>d, <1>r, RequestType DEF TypeOK, Copied, Viewed
<1>q. QED
  BY <1>1, <1>2, <1>3, <1>4, <1>5, <1>6, <1>7

\* Giving up a name that is taken keeps the invariant.
LEMMA SpoolExistsIInv ==
    ASSUME IInv, NEW c \in Made, SpoolExists(c)
    PROVE  IInv'
<1>n. path[c] \in Names /\ attempts[c] < MaxAttempts /\ attempts[c] \in Nat
  BY AttemptsAssumption DEF IInv, Fresh, TypeOK, SpoolExists
<1>d. /\ attempts' \in [Made -> 0 .. MaxAttempts]
      /\ attempts'[c] = attempts[c] + 1
      /\ \A d \in Made : d # c => attempts'[d] = attempts[d]
  BY <1>n, AttemptsAssumption DEF IInv, TypeOK, SpoolExists
<1>i. \/ attempts[c] + 1 = MaxAttempts /\ Return(c, "limit")
      \/ attempts[c] + 1 # MaxAttempts /\ Goto(c, "name")
  BY DEF SpoolExists
<1>r. /\ pc[c] = "create"
      /\ path' = [path EXCEPT ![c] = << >>]
      /\ UNCHANGED <<request, files, counter, written, kept, view>>
  BY DEF SpoolExists
<1> USE DEF IInv, Made, Goto, Return
<1>1. TypeOK'
  <2>1. CASE Return(c, "limit")
    BY <1>d, <1>r, <2>1 DEF TypeOK, Labels, Results
  <2>2. CASE attempts[c] + 1 # MaxAttempts /\ Goto(c, "name")
    <3>1. attempts'[c] < MaxAttempts
      BY <1>n, <1>d, <2>2, AttemptsAssumption
    <3>q. QED
      BY <1>d, <1>r, <2>2, <3>1 DEF TypeOK, Labels, Results
  <2>q. QED
    BY <1>i, <2>1, <2>2
<1>2. Fresh'
  BY <1>n, <1>d, <1>i, <1>r DEF TypeOK, Fresh
<1>3. Holders'
  BY ZenonT(60), <1>n, <1>d, <1>i, <1>r, NamesNotEmpty DEF TypeOK, Fresh, Holders, Holding, Excuses
<1>4. Held'
  BY <1>n, <1>d, <1>i, <1>r, NamesNotEmpty DEF TypeOK, Held, Own
<1>5. Own'
  BY <1>n, <1>d, <1>i, <1>r, NamesNotEmpty DEF TypeOK, Fresh, Held, Own
<1>6. Copied'
  BY <1>n, <1>d, <1>i, <1>r, RequestType DEF TypeOK, Held, Copied
<1>7. Viewed'
  BY <1>n, <1>d, <1>i, <1>r, RequestType DEF TypeOK, Copied, Viewed
<1>q. QED
  BY <1>1, <1>2, <1>3, <1>4, <1>5, <1>6, <1>7

\* A spool that cannot be created keeps the invariant.
LEMMA FailCreateIInv ==
    ASSUME IInv, NEW c \in Made, FailCreate(c)
    PROVE  IInv'
<1> USE DEF IInv, FailCreate, spoolVars, Made, Return
<1>1. TypeOK'
  BY RequestType, AttemptsAssumption DEF TypeOK, Fresh, Labels, Results
<1>2. Fresh'
  BY DEF TypeOK, Fresh
<1>3. Holders'
  BY NamesNotEmpty DEF TypeOK, Fresh, Holders, Holding, Excuses
<1>4. Held'
  BY NamesNotEmpty DEF TypeOK, Held, Own
<1>5. Own'
  BY NamesNotEmpty DEF TypeOK, Fresh, Held, Own
<1>6. Copied'
  BY RequestType DEF TypeOK, Held, Copied
<1>7. Viewed'
  BY RequestType DEF TypeOK, Copied, Viewed
<1>q. QED
  BY <1>1, <1>2, <1>3, <1>4, <1>5, <1>6, <1>7

\* Copying bytes to the spool keeps the invariant.
LEMMA CopyBytesIInv ==
    ASSUME IInv, NEW c \in Made, CopyBytes(c)
    PROVE  IInv'
<1>i. /\ request[c].input \in Seq(Boxes)
      /\ pc[c] = "copy" /\ written[c] \in Nat
      /\ written[c] < Len(request[c].input)
      /\ path[c] \in DOMAIN files /\ files[path[c]].maker = c
      /\ files[path[c]].content = SubSeq(request[c].input, 1, written[c])
  BY RequestType DEF IInv, TypeOK, Held, Copied, CopyBytes, More
<1>c. files[path[c]].content \o NextByte(c)
          = SubSeq(request[c].input, 1, written[c] + 1)
  BY <1>i, NextCopied DEF NextByte
<1>s. /\ SubSeq(request[c].input, 1, written[c] + 1) \in Seq(Boxes)
      /\ Len(SubSeq(request[c].input, 1, written[c] + 1)) = written[c] + 1
  BY <1>i, NextCopied
<1>d. /\ DOMAIN files' = DOMAIN files
      /\ \A name \in DOMAIN files : files'[name].maker = files[name].maker
      /\ files'[path[c]].content = SubSeq(request[c].input, 1, written[c] + 1)
      /\ \A name \in DOMAIN files : name # path[c] => files'[name] = files[name]
      /\ files' \in [DOMAIN files' -> [maker : Made, content : Seq(Boxes)]]
  <2>1. files' = [files EXCEPT ![path[c]].content =
                     SubSeq(request[c].input, 1, written[c] + 1)]
    BY <1>c DEF CopyBytes
  <2>2. files \in [DOMAIN files -> [maker : Made, content : Seq(Boxes)]]
    BY DEF IInv, TypeOK
  <2>q. QED
    BY <1>i, <1>s, <2>1, <2>2
<1>w. /\ written' \in [Made -> Nat] /\ written'[c] = written[c] + 1
      /\ \A d \in Made : d # c => written'[d] = written[d]
  BY <1>i DEF IInv, TypeOK, CopyBytes
<1>x. ~Exceeds(written[c] + 1, request[c].maxSpool)
  BY DEF CopyBytes
<1>r. UNCHANGED <<request, pc, counter, path, attempts, kept, view, result>>
  BY DEF CopyBytes
<1> USE DEF IInv, Made
<1>1. TypeOK'
  <2>1. \A name \in DOMAIN files' :
            /\ name \in Names
            /\ ~Exceeds(Len(files'[name].content),
                        request[files'[name].maker].maxSpool)
    <3> SUFFICES ASSUME NEW name \in DOMAIN files
                 PROVE  /\ name \in Names
                        /\ ~Exceeds(Len(files'[name].content),
                                    request[files'[name].maker].maxSpool)
      BY <1>d
    <3>1. CASE name = path[c]
      BY <1>i, <1>s, <1>d, <1>x, <3>1 DEF TypeOK
    <3>2. CASE name # path[c]
      BY <1>d, <3>2 DEF TypeOK
    <3>q. QED
      BY <3>1, <3>2
  <2>q. QED
    BY <1>d, <1>w, <1>r, <2>1 DEF TypeOK, Exceeds
<1>2. Fresh'
  BY <1>i, <1>d, <1>w, <1>r DEF TypeOK, Fresh
<1>3. Holders'
  BY SMTT(30), <1>i, <1>d, <1>w, <1>r, NamesNotEmpty DEF TypeOK, Fresh, Holders, Holding, Excuses
<1>4. Held'
  BY <1>i, <1>d, <1>w, <1>r, NamesNotEmpty DEF TypeOK, Held, Own
<1>5. Own'
  BY <1>i, <1>d, <1>w, <1>r, NamesNotEmpty DEF TypeOK, Fresh, Held, Own
<1>6. Copied'
  <2> SUFFICES ASSUME NEW d \in Made, pc[d] = "copy"
               PROVE  /\ written'[d] <= Len(request[d].input)
                      /\ files'[path[d]].content
                             = SubSeq(request[d].input, 1, written'[d])
    BY <1>r DEF Copied
  <2>1. CASE d = c
    BY <1>i, <1>d, <1>w, <2>1, LenProperties
  <2>2. CASE d # c
    BY <1>i, <1>d, <1>w, <2>2 DEF TypeOK, Held, Copied
  <2>q. QED
    BY <2>1, <2>2
<1>7. Viewed'
  BY <1>i, <1>d, <1>w, <1>r, RequestType DEF TypeOK, Copied, Viewed
<1>q. QED
  BY <1>1, <1>2, <1>3, <1>4, <1>5, <1>6, <1>7

\* Reaching the limit of the spool keeps the invariant.
LEMMA ExceedLimitIInv ==
    ASSUME IInv, NEW c \in Made, ExceedLimit(c)
    PROVE  IInv'
<1> USE DEF IInv, ExceedLimit, spoolVars, Made, Leave
<1>1. TypeOK'
  BY RequestType, AttemptsAssumption DEF TypeOK, Fresh, Labels, Results
<1>2. Fresh'
  BY DEF TypeOK, Fresh
<1>3. Holders'
  BY NamesNotEmpty DEF TypeOK, Fresh, Holders, Holding, Excuses
<1>4. Held'
  BY NamesNotEmpty DEF TypeOK, Held, Own
<1>5. Own'
  BY NamesNotEmpty DEF TypeOK, Fresh, Held, Own
<1>6. Copied'
  BY RequestType DEF TypeOK, Held, Copied
<1>7. Viewed'
  BY RequestType DEF TypeOK, Copied, Viewed
<1>q. QED
  BY <1>1, <1>2, <1>3, <1>4, <1>5, <1>6, <1>7

\* A failure while spooling keeps the invariant.
LEMMA FailSpoolIInv ==
    ASSUME IInv, NEW c \in Made, FailSpool(c)
    PROVE  IInv'
<1> USE DEF IInv, FailSpool, spoolVars, Made, Leave
<1>1. TypeOK'
  BY RequestType, AttemptsAssumption DEF TypeOK, Fresh, Labels, Results
<1>2. Fresh'
  BY DEF TypeOK, Fresh
<1>3. Holders'
  BY NamesNotEmpty DEF TypeOK, Fresh, Holders, Holding, Excuses
<1>4. Held'
  BY NamesNotEmpty DEF TypeOK, Held, Own
<1>5. Own'
  BY NamesNotEmpty DEF TypeOK, Fresh, Held, Own
<1>6. Copied'
  BY RequestType DEF TypeOK, Held, Copied
<1>7. Viewed'
  BY RequestType DEF TypeOK, Copied, Viewed
<1>q. QED
  BY <1>1, <1>2, <1>3, <1>4, <1>5, <1>6, <1>7

\* A panic of the reader keeps the invariant.
LEMMA PanicSpoolIInv ==
    ASSUME IInv, NEW c \in Made, PanicSpool(c)
    PROVE  IInv'
<1> USE DEF IInv, PanicSpool, spoolVars, Made, Return
<1>1. TypeOK'
  BY RequestType, AttemptsAssumption DEF TypeOK, Fresh, Labels, Results
<1>2. Fresh'
  BY DEF TypeOK, Fresh
<1>3. Holders'
  BY NamesNotEmpty DEF TypeOK, Fresh, Holders, Holding, Excuses
<1>4. Held'
  BY NamesNotEmpty DEF TypeOK, Held, Own
<1>5. Own'
  BY NamesNotEmpty DEF TypeOK, Fresh, Held, Own
<1>6. Copied'
  BY RequestType DEF TypeOK, Held, Copied
<1>7. Viewed'
  BY RequestType DEF TypeOK, Copied, Viewed
<1>q. QED
  BY <1>1, <1>2, <1>3, <1>4, <1>5, <1>6, <1>7

\* Opening the spool again keeps the invariant.
LEMMA ReopenSpoolIInv ==
    ASSUME IInv, NEW c \in Made, ReopenSpool(c)
    PROVE  IInv'
<1> USE DEF IInv, ReopenSpool, spoolVars, Made, Goto
<1>1. TypeOK'
  BY RequestType, AttemptsAssumption DEF TypeOK, Fresh, Labels, Results
<1>2. Fresh'
  BY DEF TypeOK, Fresh
<1>3. Holders'
  BY NamesNotEmpty DEF TypeOK, Fresh, Holders, Holding, Excuses
<1>4. Held'
  BY NamesNotEmpty DEF TypeOK, Held, Own
<1>5. Own'
  BY NamesNotEmpty DEF TypeOK, Fresh, Held, Own
<1>6. Copied'
  BY RequestType DEF TypeOK, Held, Copied
<1>7. Viewed'
  <2>1. /\ request[c].input \in Seq(Boxes) /\ written[c] \in Nat
        /\ written[c] = Len(request[c].input)
    BY RequestType, LenProperties DEF TypeOK, Copied, More
  <2>2. files[path[c]].content = request[c].input
    BY <2>1, SubSeqFull DEF Copied
  <2>q. QED
    BY <2>2 DEF TypeOK, Viewed
<1>q. QED
  BY <1>1, <1>2, <1>3, <1>4, <1>5, <1>6, <1>7

\* Removing the spool, or failing to, keeps the invariant.
LEMMA RemoveSpoolIInv ==
    ASSUME IInv, NEW c \in Made, RemoveSpool(c)
    PROVE  IInv'
<1> USE DEF IInv, RemoveSpool, spoolVars, Made, Goto
<1>1. TypeOK'
  BY RequestType, AttemptsAssumption DEF TypeOK, Fresh, Labels, Results
<1>2. Fresh'
  BY DEF TypeOK, Fresh
<1>3. Holders'
  BY NamesNotEmpty DEF TypeOK, Fresh, Holders, Holding, Excuses
<1>4. Held'
  BY NamesNotEmpty DEF TypeOK, Held, Own
<1>5. Own'
  <2> SUFFICES ASSUME NEW d \in Made, pc[d] \in {"check", "decode"},
                      path[d] # << >>
               PROVE  path[d] \in DOMAIN files' /\ files'[path[d]].maker = d
    BY DEF TypeOK, Own
  <2>1. /\ path[c] \in DOMAIN files /\ files[path[c]].maker = c
        /\ path[d] \in DOMAIN files /\ files[path[d]].maker = d
    BY DEF Held, Own
  <2>2. path[d] # path[c]
    BY <2>1
  <2>q. QED
    BY <2>1, <2>2
<1>6. Copied'
  BY RequestType DEF TypeOK, Held, Copied
<1>7. Viewed'
  BY RequestType DEF TypeOK, Copied, Viewed
<1>q. QED
  BY <1>1, <1>2, <1>3, <1>4, <1>5, <1>6, <1>7

\* Refusing an input for its size keeps the invariant.
LEMMA RefuseIInv ==
    ASSUME IInv, NEW c \in Made, Refuse(c)
    PROVE  IInv'
<1> USE DEF IInv, Refuse, spoolVars, Made, Leave
<1>1. TypeOK'
  BY RequestType, AttemptsAssumption DEF TypeOK, Fresh, Labels, Results
<1>2. Fresh'
  BY DEF TypeOK, Fresh
<1>3. Holders'
  BY NamesNotEmpty DEF TypeOK, Fresh, Holders, Holding, Excuses
<1>4. Held'
  BY NamesNotEmpty DEF TypeOK, Held, Own
<1>5. Own'
  BY NamesNotEmpty DEF TypeOK, Fresh, Held, Own
<1>6. Copied'
  BY RequestType DEF TypeOK, Held, Copied
<1>7. Viewed'
  BY RequestType DEF TypeOK, Copied, Viewed
<1>q. QED
  BY <1>1, <1>2, <1>3, <1>4, <1>5, <1>6, <1>7

\* Finding the family and the metadata keeps the invariant.
LEMMA ResolveIInv ==
    ASSUME IInv, NEW c \in Made, Resolve(c)
    PROVE  IInv'
<1>0. /\ Leave(c, "refused") \/ Goto(c, "decode")
      /\ pc[c] = "check"
      /\ UNCHANGED <<request, spoolVars, view>>
  BY DEF Resolve
<1> USE DEF IInv, spoolVars, Made, Goto, Leave
<1>1. TypeOK'
  BY ZenonT(60), <1>0, RequestType, AttemptsAssumption DEF TypeOK, Fresh, Labels, Results
<1>2. Fresh'
  BY <1>0 DEF TypeOK, Fresh
<1>3. Holders'
  <2>1. CASE Leave(c, "refused")
    BY <1>0, <2>1, NamesNotEmpty
    DEF TypeOK, Fresh, Holders, Holding, Excuses
  <2>2. CASE Goto(c, "decode")
    BY <1>0, <2>2, NamesNotEmpty
    DEF TypeOK, Fresh, Holders, Holding, Excuses
  <2>q. QED
    BY <1>0, <2>1, <2>2
<1>4. Held'
  BY <1>0, NamesNotEmpty DEF TypeOK, Held, Own
<1>5. Own'
  BY <1>0, NamesNotEmpty DEF TypeOK, Fresh, Held, Own
<1>6. Copied'
  BY <1>0, RequestType DEF TypeOK, Held, Copied
<1>7. Viewed'
  BY <1>0, RequestType DEF TypeOK, Copied, Viewed
<1>q. QED
  BY <1>1, <1>2, <1>3, <1>4, <1>5, <1>6, <1>7

\* A source that cannot be read keeps the invariant.
LEMMA FailResolveIInv ==
    ASSUME IInv, NEW c \in Made, FailResolve(c)
    PROVE  IInv'
<1> USE DEF IInv, FailResolve, spoolVars, Made, Leave
<1>1. TypeOK'
  BY RequestType, AttemptsAssumption DEF TypeOK, Fresh, Labels, Results
<1>2. Fresh'
  BY DEF TypeOK, Fresh
<1>3. Holders'
  BY NamesNotEmpty DEF TypeOK, Fresh, Holders, Holding, Excuses
<1>4. Held'
  BY NamesNotEmpty DEF TypeOK, Held, Own
<1>5. Own'
  BY NamesNotEmpty DEF TypeOK, Fresh, Held, Own
<1>6. Copied'
  BY RequestType DEF TypeOK, Held, Copied
<1>7. Viewed'
  BY RequestType DEF TypeOK, Copied, Viewed
<1>q. QED
  BY <1>1, <1>2, <1>3, <1>4, <1>5, <1>6, <1>7

\* The end of the decode keeps the invariant.
LEMMA DecodeIInv ==
    ASSUME IInv, NEW c \in Made, Decode(c)
    PROVE  IInv'
<1> USE DEF IInv, Decode, spoolVars, Made, Leave
<1>1. TypeOK'
  BY SMTT(30), RequestType, AttemptsAssumption DEF TypeOK, Fresh, Labels, Results
<1>2. Fresh'
  BY DEF TypeOK, Fresh
<1>3. Holders'
  BY NamesNotEmpty DEF TypeOK, Fresh, Holders, Holding, Excuses
<1>4. Held'
  BY NamesNotEmpty DEF TypeOK, Held, Own
<1>5. Own'
  BY NamesNotEmpty DEF TypeOK, Fresh, Held, Own
<1>6. Copied'
  BY RequestType DEF TypeOK, Held, Copied
<1>7. Viewed'
  BY RequestType DEF TypeOK, Copied, Viewed
<1>q. QED
  BY <1>1, <1>2, <1>3, <1>4, <1>5, <1>6, <1>7

\* A process that is killed keeps the invariant: what its calls held becomes
\* a file of a call that was killed.
LEMMA KillIInv ==
    ASSUME IInv, NEW p \in Processes, Kill(p)
    PROVE  IInv'
<1> DEFINE begun == {c \in Made : /\ ProcessOf[c] = p
                                  /\ pc[c] \notin {"start", "returned"}}
<1>0. /\ pc' = [c \in Made |-> IF c \in begun THEN "returned" ELSE pc[c]]
      /\ result' = [c \in Made |->
                       IF c \in begun THEN "killed" ELSE result[c]]
      /\ counter' = [counter EXCEPT ![p] = 0]
      /\ UNCHANGED <<request, files, path, attempts, written, kept, view,
                     found>>
  BY DEF Kill
<1>k. counter' \in [Processes -> Nat]
  BY <1>0 DEF IInv, TypeOK
<1>p. /\ pc' \in [Made -> Labels] /\ result' \in [Made -> Results]
      /\ \A c \in Made :
             \/ pc'[c] = "returned" /\ result'[c] = "killed"
             \/ /\ pc'[c] = pc[c] /\ result'[c] = result[c]
                /\ pc[c] \in Holding => ProcessOf[c] # p
  BY <1>0 DEF IInv, TypeOK, Labels, Results, Holding
<1>r. UNCHANGED <<request, files, path, attempts, written, kept, view>>
  BY <1>0
<1> HIDE DEF begun
<1> USE DEF IInv, Made
<1>1. TypeOK'
  BY <1>k, <1>p, <1>r DEF TypeOK
<1>2. Fresh'
  BY <1>p, <1>r DEF Fresh
<1>3. Holders'
  BY <1>p, <1>r DEF TypeOK, Holders, Holding, Excuses
<1>4. Held'
  BY <1>p, <1>r DEF Held
<1>5. Own'
  BY <1>p, <1>r DEF Own
<1>6. Copied'
  BY <1>p, <1>r DEF Copied
<1>7. Viewed'
  BY <1>p, <1>r DEF Viewed
<1>q. QED
  BY <1>1, <1>2, <1>3, <1>4, <1>5, <1>6, <1>7

\* The invariant holds at first.
LEMMA InitIInv ==
    ASSUME Init
    PROVE  IInv
<1>1. TypeOK
  <2>1. MaxAttempts \in Nat /\ MaxAttempts > 0
    BY AttemptsAssumption
  <2>2. << >> \in Seq(Boxes)
    OBVIOUS
  <2>q. QED
    BY <2>1, <2>2 DEF Init, TypeOK, Made, Labels, Results
<1>2. Fresh /\ Holders /\ Held /\ Own /\ Copied /\ Viewed
  BY DEF Init, Made, Fresh, Holders, Held, Own, Copied, Viewed
<1>q. QED
  BY <1>1, <1>2 DEF IInv

\* Every step keeps it.
LEMMA NextIInv ==
    ASSUME IInv, [Next]_vars
    PROVE  IInv'
<1>1. ASSUME NEW c \in Made, Step(c) PROVE IInv'
  BY <1>1, OpenInputIInv, FailInputIInv, StartSpoolIInv, NameSpoolIInv,
     CreateSpoolIInv, SpoolExistsIInv, FailCreateIInv, CopyBytesIInv,
     ExceedLimitIInv, FailSpoolIInv, PanicSpoolIInv, ReopenSpoolIInv,
     RemoveSpoolIInv, RefuseIInv, ResolveIInv, FailResolveIInv,
     DecodeIInv DEF Step
<1>2. ASSUME NEW p \in Processes, Kill(p) PROVE IInv'
  BY <1>2, KillIInv
<1>3. CASE UNCHANGED vars
  BY <1>3 DEF vars, spoolVars, IInv, TypeOK, Fresh, Holders, Held, Own, Copied,
              Viewed, Made
<1>q. QED
  BY <1>1, <1>2, <1>3 DEF Next, Returned

-----------------------------------------------------------------------------
\* The invariant of every step, of every call and of every process.
THEOREM Invariant == Spec => []IInv
<1>1. Init => IInv
  BY InitIInv
<1>2. IInv /\ [Next]_vars => IInv'
  BY NextIInv
<1>q. QED
  BY <1>1, <1>2, PTL DEF Spec

\* Types; a spool is tried MaxAttempts times at most, and its limit is never
\* passed, not even while copy_reader_to_temp_spool runs.
THEOREM TypeCorrect == Spec => []TypeOK
<1>1. IInv => TypeOK
  BY DEF IInv
<1>q. QED
  BY <1>1, Invariant, PTL

\* Whatever the ids of the processes, their clocks and their counters are, a
\* call uses the spool that it has made, and no other, and reads its own input.
THEOREM OnlyOwnSpool == Spec => []OwnSpool
<1>1. IInv => OwnSpool
  BY DEF IInv, OwnSpool, Held, Viewed
<1>q. QED
  BY <1>1, Invariant, PTL

\* The spool of a call that has returned is gone, unless it could not be
\* removed, the process was killed, or the reader panicked.
THEOREM SpoolRemoved == Spec => []NothingLeft
<1>1. IInv => NothingLeft
  BY DEF IInv, Holders, Excuses, Holding, NothingLeft
<1>q. QED
  BY <1>1, Invariant, PTL

-----------------------------------------------------------------------------
\* What the input of a call is taken for, by the way its entry point looks.
Verdict(c) ==
    IF request[c].entry = "bytes"
    THEN FromBytes(request[c].input, request[c].hint)
    ELSE FromSource(request[c].input, request[c].hint)

\* A call decodes what it has found, and is refused for nothing else.
Judged ==
    /\ DOMAIN found = Made
    /\ \A c \in Made :
           /\ pc[c] = "decode" => found[c] = Verdict(c) /\ found[c] # Refused
           /\ result[c] = "refused" => Verdict(c) = Refused

\* A step of a call that neither finds nor is refused anything.
LEMMA NothingFound ==
    ASSUME Judged, UNCHANGED <<request, found>>,
           \A d \in Made : /\ pc'[d] = "decode" => pc[d] = "decode"
                           /\ result'[d] = "refused" => result[d] = "refused"
    PROVE  Judged'
  BY DEF Judged, Verdict, Made

\* The verdict is that on the input: the source reads nothing else.
LEMMA ResolveJudged ==
    ASSUME IInv, Judged, NEW c \in Made, Resolve(c)
    PROVE  Judged'
<1> DEFINE verdict == IF request[c].entry = "bytes"
                      THEN FromBytes(view[c], request[c].hint)
                      ELSE FromSource(view[c], request[c].hint)
<1>1. /\ pc[c] = "check" /\ view[c] = request[c].input
      /\ pc \in [Made -> Labels] /\ result \in [Made -> Results]
  BY DEF IInv, TypeOK, Viewed, Resolve
<1>2. verdict = Verdict(c)
  BY <1>1 DEF Verdict
<1>3. /\ found' = [found EXCEPT ![c] = verdict]
      /\ IF verdict = Refused THEN Leave(c, "refused") ELSE Goto(c, "decode")
      /\ request' = request
  BY DEF Resolve
<1> HIDE DEF verdict
<1>4. /\ DOMAIN found' = Made /\ found'[c] = Verdict(c) /\ Made' = Made
      /\ \A d \in Made : d # c => found'[d] = found[d]
      /\ \A d \in Made : Verdict(d)' = Verdict(d)
  BY <1>2, <1>3 DEF Judged, Verdict, Made
<1>5. /\ pc'[c] = "decode" => verdict # Refused
      /\ result'[c] = "refused" => verdict = Refused
      /\ \A d \in Made : d # c => pc'[d] = pc[d] /\ result'[d] = result[d]
  <2>1. CASE verdict = Refused
    <3>1. /\ pc'[c] \in {"remove", "returned"} /\ result'[c] = "refused"
          /\ \A d \in Made : d # c => pc'[d] = pc[d] /\ result'[d] = result[d]
      BY <1>1, <1>3, <2>1 DEF Leave
    <3>q. QED
      BY <2>1, <3>1
  <2>2. CASE verdict # Refused
    <3>1. /\ pc'[c] = "decode" /\ result' = result
          /\ \A d \in Made : d # c => pc'[d] = pc[d]
      BY <1>1, <1>3, <2>2 DEF Goto
    <3>2. result[c] # "refused"
      BY <1>2, <2>2 DEF Judged
    <3>q. QED
      BY <2>2, <3>1, <3>2
  <2>q. QED
    BY <2>1, <2>2
<1>q. QED
  BY <1>2, <1>4, <1>5 DEF Judged

\* No other step of a call finds anything, and none but Resolve refuses it.
LEMMA StepJudged ==
    ASSUME IInv, Judged, NEW c \in Made, Step(c)
    PROVE  Judged'
<1>0. pc \in [Made -> Labels] /\ result \in [Made -> Results]
  BY DEF IInv, TypeOK
<1>1. ASSUME NEW label \in Labels \ {"decode"}, Goto(c, label),
             UNCHANGED <<request, found>>
      PROVE  Judged'
  BY <1>0, <1>1, NothingFound DEF Goto
<1>2. ASSUME NEW outcome \in Results \ {"refused"},
             Leave(c, outcome) \/ Return(c, outcome), UNCHANGED <<request, found>>
      PROVE  Judged'
  BY <1>0, <1>2, NothingFound DEF Leave, Return
<1>3. CASE OpenInput(c)
  BY <1>1, <1>3 DEF OpenInput, Labels
<1>4. CASE FailInput(c)
  BY <1>2, <1>4 DEF FailInput, Results
<1>5. CASE StartSpool(c)
  BY <1>1, <1>2, <1>5 DEF StartSpool, Labels, Results
<1>6. CASE NameSpool(c)
  BY <1>1, <1>6 DEF NameSpool, Labels
<1>7. CASE CreateSpool(c)
  BY <1>1, <1>7 DEF CreateSpool, Labels
<1>8. CASE SpoolExists(c)
  BY <1>1, <1>2, <1>8 DEF SpoolExists, Labels, Results
<1>9. CASE FailCreate(c)
  BY <1>2, <1>9 DEF FailCreate, Results
<1>10. CASE CopyBytes(c)
  BY <1>10, NothingFound DEF CopyBytes
<1>11. CASE ExceedLimit(c) \/ FailSpool(c) \/ PanicSpool(c)
  BY <1>2, <1>11 DEF ExceedLimit, FailSpool, PanicSpool, Results
<1>12. CASE ReopenSpool(c)
  BY <1>1, <1>12 DEF ReopenSpool, Labels
<1>13. CASE RemoveSpool(c)
  BY <1>1, <1>13 DEF RemoveSpool, Labels
<1>14. CASE Refuse(c) \/ FailResolve(c) \/ Decode(c)
  BY <1>2, <1>14 DEF Refuse, FailResolve, Decode, Results
<1>15. CASE Resolve(c)
  BY <1>15, ResolveJudged
<1>q. QED
  BY <1>3, <1>4, <1>5, <1>6, <1>7, <1>8, <1>9, <1>10, <1>11, <1>12, <1>13, <1>14, <1>15
  DEF Step

\* Every step keeps what relates an outcome to that of the bytes.
LEMMA NextJudged ==
    ASSUME IInv, Judged, [Next]_vars
    PROVE  Judged'
<1>1. ASSUME NEW p \in Processes, Kill(p) PROVE Judged'
  BY <1>1, NothingFound DEF Kill, IInv, TypeOK
<1>2. CASE UNCHANGED vars
  BY <1>2, NothingFound DEF vars
<1>q. QED
  BY <1>1, <1>2, StepJudged DEF Next, Returned

\* From a source the same family and metadata are found as from memory, when
\* there are any: only a malformed file type makes a difference.
LEMMA SourceAgrees ==
    ASSUME NEW boxes, NEW hint, FromBytes(boxes, hint) # Refused
    PROVE  /\ FromSource(boxes, hint) # Refused =>
                  FromSource(boxes, hint) = FromBytes(boxes, hint)
           /\ ~BadType(boxes) => FromSource(boxes, hint) # Refused
<1> DEFINE type == FirstOf(boxes, FileTypes)
           place == FirstOf(boxes, {"meta"})
           brand == IF type = 0 THEN NoFamily ELSE boxes[type]
           selected == Selected(boxes, type, place)
<1>1. FirstOf(boxes, {"junk"}) = 0 /\ FromBytes(boxes, hint) = Decide(brand, hint, place)
  BY DEF FromBytes
<1>2. selected = [family |-> brand, meta |-> place]
  BY <1>1 DEF Selected
<1>3. FromSource(boxes, hint) =
        IF selected.family = "malformed" THEN Refused
        ELSE Decide(selected.family, hint, selected.meta)
  BY DEF FromSource
<1>4. FromSource(boxes, hint) =
        IF brand = "malformed" THEN Refused ELSE Decide(brand, hint, place)
  BY <1>2, <1>3
<1>5. brand = "malformed" => BadType(boxes)
  BY DEF BadType, NoFamily
<1> HIDE DEF brand, place, type, selected
<1>q. QED
  BY <1>1, <1>4, <1>5

\* The entry points for files and readers accept whatever the one for bytes
\* accepts, and decode it as the same family from the same metadata.
THEOREM SourcesAgree == Spec => []AgreesWithBytes
<1>1. Init => Judged
  BY DEF Init, Judged, Made
<1>2. IInv /\ Judged /\ [Next]_vars => Judged'
  BY NextJudged
<1>3. Judged => AgreesWithBytes
  <2> SUFFICES ASSUME Judged, NEW c \in Made,
                      NEW verdict, verdict = FromBytes(request[c].input, request[c].hint)
               PROVE  /\ pc[c] = "decode" /\ verdict # Refused => found[c] = verdict
                      /\ result[c] = "refused" /\ ~BadType(request[c].input) =>
                             verdict = Refused
    BY DEF AgreesWithBytes
  <2>1. CASE request[c].entry = "bytes"
    BY <2>1 DEF Judged, Verdict
  <2>2. CASE request[c].entry # "bytes"
    BY <2>2, SourceAgrees DEF Judged, Verdict
  <2>q. QED
    BY <2>1, <2>2
<1>q. QED
  BY <1>1, <1>2, <1>3, Invariant, PTL DEF Spec

-----------------------------------------------------------------------------
(* ItemResolution.                                                         *)

\* The uses that OfKind selects, by where they are among the uses.
Picked(properties, uses, kinds) ==
    {i \in DOMAIN uses : uses[i].index # 0 /\ properties[uses[i].index].kind \in kinds}

\* UsesOfKinds as the function over sets of positions that its fold is.
IsSelection(g, properties, uses, kinds, D) ==
    g = [s \in SUBSET D |->
            IF s = {} THEN << >>
            ELSE IF /\ uses[Top(s)].index # 0
                    /\ properties[uses[Top(s)].index].kind \in kinds
                 THEN Append(g[s \ {Top(s)}], uses[Top(s)])
                 ELSE g[s \ {Top(s)}]]

\* and that it is one.
LEMMA SelectedAsFunction ==
    ASSUME NEW properties, NEW uses, NEW kinds
    PROVE  UsesOfKinds(properties, uses, kinds)
              = (CHOOSE g : IsSelection(g, properties, uses, kinds, DOMAIN uses))[DOMAIN uses]
  BY DEF UsesOfKinds, FoldLeft, MapThenFoldSet, Max, IsSelection, Top

\* The same for UsesIn,
IsGathering(g, associations, id, D) ==
    g = [s \in SUBSET D |->
            IF s = {} THEN << >>
            ELSE IF associations[Top(s)].id = id
                 THEN g[s \ {Top(s)}] \o associations[Top(s)].uses
                 ELSE g[s \ {Top(s)}]]

\* which gathers the uses of an item.
LEMMA UsesAsFunction ==
    ASSUME NEW associations, NEW id
    PROVE  UsesIn(associations, id)
              = (CHOOSE g : IsGathering(g, associations, id, DOMAIN associations))[DOMAIN associations]
  BY DEF UsesIn, FoldLeft, MapThenFoldSet, Max, IsGathering, Top

\* What is selected are uses of these kinds.
LEMMA SelectedFrom ==
    ASSUME NEW properties, NEW kinds, NEW uses, NEW n \in Nat, DOMAIN uses = 1 .. n
    PROVE  UsesOfKinds(properties, uses, kinds)
               \in Seq({uses[i] : i \in Picked(properties, uses, kinds)})
<1> DEFINE D == 1 .. n
           S == {uses[i] : i \in Picked(properties, uses, kinds)}
           Add == [x \in Seq(S) \X D |->
                       IF x[2] \in Picked(properties, uses, kinds)
                       THEN Append(x[1], uses[x[2]]) ELSE x[1]]
           g == CHOOSE f : IsSelection(f, properties, uses, kinds, D)
<1>d. IsFiniteSet(D) /\ HasTops(D)
  BY PositionTops
<1>s. Add \in [Seq(S) \X D -> Seq(S)]
  <2>1. ASSUME NEW q \in Seq(S), NEW i \in D, i \in Picked(properties, uses, kinds)
        PROVE  Append(q, uses[i]) \in Seq(S)
    <3>1. uses[i] \in S
      BY <2>1
    <3> HIDE DEF S
    <3>q. QED
      BY <3>1, AppendProperties
  <2> HIDE DEF S, D
  <2>q. QED
    BY <2>1
<1>f. << >> \in Seq(S)
  BY EmptySeq
<1>1. \E f : IsSelection(f, properties, uses, kinds, D)
  <2>1. PICK f : IsFold(f, Add, << >>, D)
    <3> HIDE DEF D, Add
    <3>q. QED
      BY ONLY <1>d, FoldExists
  <2>2. \A s \in SUBSET D : f[s] \in Seq(S)
    <3> HIDE DEF Add, S
    <3>q. QED
      BY ONLY <1>s, <1>f, <2>1, FoldTyped
  <2>3. ASSUME NEW s \in SUBSET D, s # {}
        PROVE  f[s] = IF /\ uses[Top(s)].index # 0
                         /\ properties[uses[Top(s)].index].kind \in kinds
                      THEN Append(f[s \ {Top(s)}], uses[Top(s)])
                      ELSE f[s \ {Top(s)}]
    <3>1. f[s] = Add[<< f[s \ {Top(s)}], Top(s) >>]
      BY <2>1, <2>3 DEF IsFold
    <3>2. Top(s) \in D /\ s \ {Top(s)} \in SUBSET D
      BY <1>d, <2>3 DEF HasTops
    <3>3. f[s \ {Top(s)}] \in Seq(S)
      BY <2>2, <3>2
    <3>4. Top(s) \in Picked(properties, uses, kinds)
             <=> /\ uses[Top(s)].index # 0
                 /\ properties[uses[Top(s)].index].kind \in kinds
      BY <3>2 DEF Picked
    <3> HIDE DEF S, D
    <3>q. QED
      BY <3>1, <3>2, <3>3, <3>4
  <2>4. f = [s \in SUBSET D |-> f[s]] /\ f[{}] = << >>
    BY <2>1 DEF IsFold
  <2> HIDE DEF D, S
  <2>5. IsSelection(f, properties, uses, kinds, D)
    BY <2>3, <2>4 DEF IsSelection
  <2>q. QED
    BY <2>5
<1>2. IsSelection(g, properties, uses, kinds, D)
  BY <1>1
<1> HIDE DEF g
<1> DEFINE T == {s \in SUBSET D : g[s] \notin Seq(S)}
<1>3. T = {}
  <2> SUFFICES ASSUME T # {} PROVE FALSE
    OBVIOUS
  <2>1. PICK s \in T : \A r \in T : r \subseteq s => r = s
    <3>1. T \subseteq SUBSET D /\ T # {}
      OBVIOUS
    <3> HIDE DEF T, D
    <3>q. QED
      BY ONLY <1>d, <3>1, SmallestSubset
  <2>2. s \in SUBSET D /\ g[s] \notin Seq(S)
    BY <2>1
  <2>3. g[s] = IF s = {} THEN << >>
               ELSE IF /\ uses[Top(s)].index # 0
                       /\ properties[uses[Top(s)].index].kind \in kinds
                    THEN Append(g[s \ {Top(s)}], uses[Top(s)])
                    ELSE g[s \ {Top(s)}]
    BY <1>2, <2>2 DEF IsSelection
  <2>4. s # {} /\ Top(s) \in s /\ s \ {Top(s)} \in SUBSET D
    BY <1>d, <1>f, <2>2, <2>3 DEF HasTops
  <2>5. g[s \ {Top(s)}] \in Seq(S)
    BY <2>1, <2>4
  <2>6. /\ uses[Top(s)].index # 0
        /\ properties[uses[Top(s)].index].kind \in kinds
        => uses[Top(s)] \in S
    BY <2>2, <2>4 DEF Picked
  <2> HIDE DEF S, D, T
  <2>q. QED
    BY <2>2, <2>3, <2>4, <2>5, <2>6, AppendProperties
<1>4. D \in SUBSET D
  OBVIOUS
<1>5. UsesOfKinds(properties, uses, kinds) = g[D]
  BY SelectedAsFunction DEF g
<1>q. QED
  BY <1>3, <1>4, <1>5

\* What is gathered are uses.
LEMMA UsesFrom ==
    ASSUME NEW id, NEW associations \in Seq([id : Nat, uses : Seq(Use)])
    PROVE  UsesIn(associations, id) \in Seq(Use)
<1> DEFINE n == Len(associations)
           D == 1 .. n
           Add == [x \in Seq(Use) \X D |->
                       IF associations[x[2]].id = id
                       THEN x[1] \o associations[x[2]].uses ELSE x[1]]
           g == CHOOSE f : IsGathering(f, associations, id, D)
<1>0. /\ n \in Nat /\ DOMAIN associations = D
      /\ \A i \in D : associations[i].uses \in Seq(Use)
  <2>1. n \in Nat /\ DOMAIN associations = D
    BY LenProperties
  <2>2. \A i \in D : associations[i] \in [id : Nat, uses : Seq(Use)]
    BY ElementOfSeq
  <2>q. QED
    BY <2>1, <2>2
<1>d. IsFiniteSet(D) /\ HasTops(D)
  BY <1>0, PositionTops
<1>c. \A q, r \in Seq(Use) : q \o r \in Seq(Use)
  BY ConcatProperties
<1>f. << >> \in Seq(Use)
  BY EmptySeq
<1> HIDE DEF n
<1>s. Add \in [Seq(Use) \X D -> Seq(Use)]
  <2> HIDE DEF D
  <2>q. QED
    BY <1>0, <1>c
<1>1. \E f : IsGathering(f, associations, id, D)
  <2>1. PICK f : IsFold(f, Add, << >>, D)
    <3> HIDE DEF D, Add
    <3>q. QED
      BY ONLY <1>d, FoldExists
  <2>2. \A s \in SUBSET D : f[s] \in Seq(Use)
    <3> HIDE DEF Add
    <3>q. QED
      BY ONLY <1>0, <1>s, <1>f, <2>1, FoldTyped
  <2>3. ASSUME NEW s \in SUBSET D, s # {}
        PROVE  f[s] = IF associations[Top(s)].id = id
                      THEN f[s \ {Top(s)}] \o associations[Top(s)].uses
                      ELSE f[s \ {Top(s)}]
    <3>1. f[s] = Add[<< f[s \ {Top(s)}], Top(s) >>]
      BY <2>1, <2>3 DEF IsFold
    <3>2. Top(s) \in D /\ s \ {Top(s)} \in SUBSET D
      BY <1>d, <2>3 DEF HasTops
    <3>3. f[s \ {Top(s)}] \in Seq(Use)
      BY <2>2, <3>2
    <3> HIDE DEF D
    <3>q. QED
      BY <3>1, <3>2, <3>3
  <2>4. f = [s \in SUBSET D |-> f[s]] /\ f[{}] = << >>
    BY <2>1 DEF IsFold
  <2> HIDE DEF D
  <2>5. IsGathering(f, associations, id, D)
    BY <2>3, <2>4 DEF IsGathering
  <2>q. QED
    BY <2>5
<1>2. IsGathering(g, associations, id, D)
  BY <1>1
<1> HIDE DEF g
<1> DEFINE T == {s \in SUBSET D : g[s] \notin Seq(Use)}
<1>3. T = {}
  <2> SUFFICES ASSUME T # {} PROVE FALSE
    OBVIOUS
  <2>1. PICK s \in T : \A r \in T : r \subseteq s => r = s
    <3>1. T \subseteq SUBSET D /\ T # {}
      OBVIOUS
    <3> HIDE DEF T, D
    <3>q. QED
      BY ONLY <1>d, <3>1, SmallestSubset
  <2>2. s \in SUBSET D /\ g[s] \notin Seq(Use)
    BY <2>1
  <2>3. g[s] = IF s = {} THEN << >>
               ELSE IF associations[Top(s)].id = id
                    THEN g[s \ {Top(s)}] \o associations[Top(s)].uses
                    ELSE g[s \ {Top(s)}]
    BY <1>2, <2>2 DEF IsGathering
  <2>4. s # {} /\ Top(s) \in s /\ Top(s) \in D /\ s \ {Top(s)} \in SUBSET D
    BY <1>d, <1>f, <2>2, <2>3 DEF HasTops
  <2>5. g[s \ {Top(s)}] \in Seq(Use)
    BY <2>1, <2>4
  <2> HIDE DEF D, T
  <2>q. QED
    BY <1>0, <1>c, <2>2, <2>3, <2>4, <2>5
<1>4. D \in SUBSET D
  OBVIOUS
<1>5. UsesIn(associations, id) = g[D]
  BY <1>0, UsesAsFunction DEF g
<1>q. QED
  BY <1>3, <1>4, <1>5

\* What the proofs need of the types of properties and associations.
LEMMA MetadataTyped ==
    ASSUME meta \in Metadata
    PROVE  /\ \A id : UsesOf(id) \in Seq(Use)
           /\ meta.associations \in Seq([id : Nat, uses : Seq(Use)])
           /\ Len(meta.properties) \in Nat
           /\ \A k \in 1 .. Len(meta.properties) : meta.properties[k] \in Property
<1>1. /\ meta.associations \in Seq([id : Nat, uses : Seq(Use)])
      /\ meta.properties \in Seq(Property)
  BY DEF Metadata
<1>2. \A id : UsesOf(id) \in Seq(Use)
  BY <1>1, UsesFrom DEF UsesOf
<1>q. QED
  BY <1>1, <1>2, LenProperties, ElementOfSeq

\* Each use that OfKind gives is one of the uses, names a property, and that
\* property is of one of the kinds.
LEMMA OfKindFrom ==
    ASSUME NEW uses \in Seq(Use), NEW kinds
    PROVE  /\ Len(OfKind(uses, kinds)) \in Nat
           /\ DOMAIN OfKind(uses, kinds) = 1 .. Len(OfKind(uses, kinds))
           /\ \A i \in DOMAIN OfKind(uses, kinds) : \E j \in DOMAIN uses :
                /\ OfKind(uses, kinds)[i] = uses[j] /\ uses[j].index # 0
                /\ meta.properties[uses[j].index].kind \in kinds
           /\ OfKind(uses, kinds) # << >> => Len(OfKind(uses, kinds)) > 0
<1> DEFINE S == {uses[i] : i \in Picked(meta.properties, uses, kinds)}
           picked == OfKind(uses, kinds)
<1>1. picked \in Seq(S)
  <2>1. Len(uses) \in Nat /\ DOMAIN uses = 1 .. Len(uses)
    BY LenProperties
  <2>2. UsesOfKinds(meta.properties, uses, kinds) \in Seq(S)
    BY <2>1, SelectedFrom
  <2>q. QED
    BY <2>2 DEF OfKind
<1>2. /\ Len(picked) \in Nat /\ DOMAIN picked = 1 .. Len(picked)
      /\ \A i \in 1 .. Len(picked) : picked[i] \in S
      /\ picked # << >> => Len(picked) > 0
  <2> HIDE DEF S, picked
  <2>1. Len(picked) \in Nat /\ DOMAIN picked = 1 .. Len(picked)
    BY <1>1, LenProperties
  <2>2. \A i \in 1 .. Len(picked) : picked[i] \in S
    BY <1>1, ElementOfSeq
  <2>3. picked # << >> => Len(picked) # 0
    BY <1>1, EmptySeq
  <2>q. QED
    BY <2>1, <2>2, <2>3
<1>3. \A x \in S : \E j \in DOMAIN uses :
          /\ x = uses[j] /\ uses[j].index # 0
          /\ meta.properties[uses[j].index].kind \in kinds
  BY DEF Picked
<1> HIDE DEF S
<1>q. QED
  BY <1>2, <1>3

\* What the caches hold, computed from the metadata: the colours of a key,
ColourAt(key) ==
    [nclx |-> IF key[1] = 0 THEN <<>> ELSE meta.properties[key[1]].value,
     icc |-> IF key[2] = 0 THEN <<>> ELSE meta.properties[key[2]].value]

\* the properties of an item,
PropertiesOf(id) ==
    LET turns == OfKind(UsesOf(id), TransformKinds)
    IN  [config |-> meta.properties[OfKind(UsesOf(id), {"hvcC"})[1].index].value,
         colour |-> ColourAt(<<LastUse(UsesOf(id), "nclx"), LastUse(UsesOf(id), "icc")>>),
         transforms |-> Effective([i \in DOMAIN turns |-> meta.properties[turns[i].index]])]

\* and its tile.
TileOf(id) ==
    [id |-> id, config |-> PropertiesOf(id).config, colour |-> PropertiesOf(id).colour,
     transforms |-> PropertiesOf(id).transforms, payload |-> PayloadOf(id)]

\* The tile names its parameter sets, once.
HasConfig(id) == Len(OfKind(UsesOf(id), {"hvcC"})) = 1

\* The fields of the cache.
CacheFields ==
    {"parsed", "colours", "properties", "payloads", "profileBytes", "copied", "total"}

\* Whatever is in a cache is what would be computed without it.
Kept(known) ==
    /\ known = [f \in CacheFields |-> known[f]]
    /\ \A k \in DOMAIN known.parsed : known.parsed[k] = meta.properties[k]
    /\ \A k \in DOMAIN known.colours : known.colours[k] = ColourAt(k)
    /\ \A k \in DOMAIN known.properties : known.properties[k] = PropertiesOf(k)
    /\ \A k \in DOMAIN known.payloads : known.payloads[k] = PayloadOf(k)

\* What a cache gives after something is put into it.
LEMMA Remembered ==
    ASSUME NEW known, NEW new
    PROVE  /\ DOMAIN new \subseteq DOMAIN Remember(known, new)
           /\ \A k \in DOMAIN Remember(known, new) :
                \/ k \in DOMAIN known /\ Remember(known, new)[k] = known[k]
                \/ k \in DOMAIN new /\ Remember(known, new)[k] = new[k]
  BY DEF Remember

\* The empty cache keeps nothing.
LEMMA EmptyKept == Kept(EmptyCache)
  BY DEF Kept, EmptyCache, CacheFields

\* The last use of a kind is a use, and it names a property.
LEMMA LastUseIsUsed ==
    ASSUME NEW uses \in Seq(Use), NEW kind, LastUse(uses, kind) # 0
    PROVE  LastUse(uses, kind) \in {uses[i].index : i \in DOMAIN uses} \ {0}
<1> DEFINE picked == OfKind(uses, {kind})
<1>1. picked # << >> /\ LastUse(uses, kind) = picked[Len(picked)].index
  BY DEF LastUse, Last
<1>2. Len(picked) \in DOMAIN picked
  BY <1>1, OfKindFrom
<1>3. PICK j \in DOMAIN uses : picked[Len(picked)] = uses[j] /\ uses[j].index # 0
  BY <1>2, OfKindFrom
<1>q. QED
  BY <1>1, <1>3

\* resolve_grid_tile_hvcc_colr_and_transforms_indexed gives a tile its own
\* properties, whatever is in the caches before, and keeps them right: each
\* property that it looks up is one that the tile uses.
LEMMA TileResolved ==
    ASSUME meta \in Metadata, NEW known, Kept(known), NEW id,
           HasConfig(id)
    PROVE  /\ ResolveTile(known, UsesOf(id)).properties = PropertiesOf(id)
           /\ Kept(ResolveTile(known, UsesOf(id)).cache)
           /\ ResolveTile(known, UsesOf(id)).cache.properties = known.properties
           /\ ResolveTile(known, UsesOf(id)).cache.payloads = known.payloads
<1> DEFINE uses == UsesOf(id)
           used == {uses[i].index : i \in DOMAIN uses} \ {0}
           parsed == Remember(known.parsed, [i \in used |-> meta.properties[i]])
           nclx == LastUse(uses, "nclx")
           icc == LastUse(uses, "icc")
           key == ColourKey(nclx, icc)
           colour == [nclx |-> IF nclx = 0 THEN <<>> ELSE parsed[nclx].value,
                      icc |-> IF icc = 0 THEN <<>> ELSE parsed[icc].value]
           colours == Remember(known.colours, [k \in {key} |-> colour])
           config == OfKind(uses, {"hvcC"})[1].index
           turns == OfKind(uses, TransformKinds)
           transforms == [i \in DOMAIN turns |-> parsed[turns[i].index]]
           bytes == IF key \in DOMAIN known.colours \/ icc = 0 THEN 0
                    ELSE parsed[icc].value[2]
           after == [known EXCEPT !.parsed = parsed, !.colours = colours,
                                  !.profileBytes = @ + bytes]
<1>1. /\ ResolveTile(known, uses).properties
             = [config |-> parsed[config].value, colour |-> colours[key],
                transforms |-> Effective(transforms)]
      /\ ResolveTile(known, uses).cache = after
  BY DEF ResolveTile
<1>2. uses \in Seq(Use)
  BY MetadataTyped
<1> HIDE DEF uses
<1>3. config \in used
  <2>1. 1 \in DOMAIN OfKind(uses, {"hvcC"})
    BY <1>2, OfKindFrom DEF uses, HasConfig
  <2>q. QED
    BY <1>2, <2>1, OfKindFrom
<1>4. \A i \in DOMAIN turns : turns[i].index \in used
  BY <1>2, OfKindFrom
<1>5. (nclx # 0 => nclx \in used) /\ (icc # 0 => icc \in used)
  BY <1>2, LastUseIsUsed
<1>6. /\ \A k \in DOMAIN parsed : parsed[k] = meta.properties[k]
      /\ used \subseteq DOMAIN parsed
  <2>1. \A k \in DOMAIN known.parsed : known.parsed[k] = meta.properties[k]
    BY DEF Kept
  <2> DEFINE new == [i \in used |-> meta.properties[i]]
  <2> HIDE DEF used
  <2>2. DOMAIN new = used /\ \A k \in used : new[k] = meta.properties[k]
    OBVIOUS
  <2>3. parsed = Remember(known.parsed, new)
    OBVIOUS
  <2> HIDE DEF new, parsed
  <2>q. QED
    BY <2>1, <2>2, <2>3, Remembered
<1> HIDE DEF used, parsed
<1>7. key = <<nclx, icc>>
  BY DEF ColourKey
<1> HIDE DEF nclx, icc
<1>8. colour = ColourAt(key)
  BY <1>5, <1>6, <1>7 DEF ColourAt
<1> HIDE DEF colour
<1>9. /\ \A k \in DOMAIN colours : colours[k] = ColourAt(k)
      /\ key \in DOMAIN colours
  <2>1. \A k \in DOMAIN known.colours : known.colours[k] = ColourAt(k)
    BY DEF Kept
  <2> DEFINE new == [k \in {key} |-> colour]
  <2> HIDE DEF key
  <2>2. DOMAIN new = {key} /\ new[key] = ColourAt(key)
    BY <1>8
  <2>3. colours = Remember(known.colours, new)
    OBVIOUS
  <2> HIDE DEF new, colours
  <2>q. QED
    BY <2>1, <2>2, <2>3, Remembered
<1>10. transforms = [i \in DOMAIN turns |-> meta.properties[turns[i].index]]
  BY <1>4, <1>6
<1>11. parsed[config].value = meta.properties[config].value
  BY <1>3, <1>6
<1>12. colours[key] = ColourAt(<<nclx, icc>>)
  BY <1>7, <1>9
<1> HIDE DEF colours, transforms, turns, config
<1>13. ResolveTile(known, uses).properties = PropertiesOf(id)
  BY <1>1, <1>10, <1>11, <1>12 DEF PropertiesOf, uses, turns, config, nclx, icc
<1> HIDE DEF bytes, key
<1>14. known = [f \in CacheFields |-> known[f]]
  BY DEF Kept
<1>15. /\ after = [f \in CacheFields |-> after[f]]
       /\ after.parsed = parsed /\ after.colours = colours
       /\ after.properties = known.properties /\ after.payloads = known.payloads
  BY <1>14 DEF CacheFields
<1> HIDE DEF after
<1>16. Kept(after)
  BY <1>6, <1>9, <1>15 DEF Kept
<1>q. QED
  BY <1>1, <1>13, <1>15, <1>16 DEF uses

\* The same for the tile with its payload.
LEMMA TileKept ==
    ASSUME meta \in Metadata, NEW known, Kept(known), NEW id,
           HasConfig(id)
    PROVE  /\ Kept(CacheWith(known, id))
           /\ TileFrom(CacheWith(known, id), id) = TileOf(id)
<1> DEFINE resolved == ResolveTile(known, UsesOf(id))
           properties == Remember(resolved.cache.properties,
                                  [k \in {id} |-> resolved.properties])
           new == [resolved.cache EXCEPT !.properties = properties]
           first == IF id \in DOMAIN known.properties THEN known ELSE new
           payloads == Remember(known.payloads, [k \in {id} |-> PayloadOf(id)])
           length == Len(payloads[id])
           copied == IF id \in DOMAIN known.payloads THEN 0 ELSE length
           after == [first EXCEPT !.payloads = payloads, !.copied = @ + copied,
                                  !.total = @ + length]
<1>1. CacheWith(known, id) = after
  BY DEF CacheWith
<1>2. /\ resolved.properties = PropertiesOf(id) /\ Kept(resolved.cache)
  BY TileResolved
<1> HIDE DEF resolved
<1>3. /\ \A k \in DOMAIN properties : properties[k] = PropertiesOf(k)
      /\ id \in DOMAIN properties
  <2>1. \A k \in DOMAIN resolved.cache.properties :
            resolved.cache.properties[k] = PropertiesOf(k)
    BY <1>2 DEF Kept
  <2> DEFINE mine == [k \in {id} |-> resolved.properties]
  <2>2. DOMAIN mine = {id} /\ mine[id] = PropertiesOf(id)
    BY <1>2
  <2>3. properties = Remember(resolved.cache.properties, mine)
    OBVIOUS
  <2> HIDE DEF mine, properties
  <2>q. QED
    BY <2>1, <2>2, <2>3, Remembered
<1> HIDE DEF properties
<1>4. Kept(new) /\ id \in DOMAIN new.properties
  <2>1. resolved.cache = [f \in CacheFields |-> resolved.cache[f]]
    BY <1>2 DEF Kept
  <2>2. /\ new = [f \in CacheFields |-> new[f]] /\ new.properties = properties
        /\ new.parsed = resolved.cache.parsed /\ new.colours = resolved.cache.colours
        /\ new.payloads = resolved.cache.payloads
    BY <2>1 DEF CacheFields
  <2> HIDE DEF new
  <2>q. QED
    BY <1>2, <1>3, <2>2 DEF Kept
<1> HIDE DEF new
<1>5. Kept(first) /\ id \in DOMAIN first.properties
  BY <1>4
<1> HIDE DEF first
<1>6. /\ \A k \in DOMAIN payloads : payloads[k] = PayloadOf(k)
      /\ id \in DOMAIN payloads
  <2>1. \A k \in DOMAIN known.payloads : known.payloads[k] = PayloadOf(k)
    BY DEF Kept
  <2> DEFINE mine == [k \in {id} |-> PayloadOf(id)]
  <2>2. DOMAIN mine = {id} /\ mine[id] = PayloadOf(id)
    OBVIOUS
  <2>3. payloads = Remember(known.payloads, mine)
    OBVIOUS
  <2> HIDE DEF mine, payloads
  <2>q. QED
    BY <2>1, <2>2, <2>3, Remembered
<1> HIDE DEF payloads, length, copied
<1>7. first = [f \in CacheFields |-> first[f]]
  BY <1>5 DEF Kept
<1>8. /\ after = [f \in CacheFields |-> after[f]] /\ after.payloads = payloads
      /\ after.parsed = first.parsed /\ after.colours = first.colours
      /\ after.properties = first.properties
  BY <1>7 DEF CacheFields
<1> HIDE DEF after
<1>9. Kept(after) /\ after.properties[id] = PropertiesOf(id) /\ after.payloads[id] = PayloadOf(id)
  BY <1>5, <1>6, <1>8 DEF Kept
<1>q. QED
  BY <1>1, <1>9 DEF TileFrom, TileOf

\* What is computed from the metadata stays, as they do.
LEMMA EagerKept ==
    ASSUME meta' = meta
    PROVE  /\ PrimaryKind' = PrimaryKind
           /\ Targets' = Targets
           /\ \A k : ColourAt(k)' = ColourAt(k)
           /\ \A id : PayloadOf(id)' = PayloadOf(id)
           /\ \A id : PropertiesOf(id)' = PropertiesOf(id)
           /\ \A id : TileOf(id)' = TileOf(id)
           /\ \A id : HasConfig(id)' = HasConfig(id)
<1>1. \A id : UsesOf(id)' = UsesOf(id)
  BY DEF UsesOf
<1>2. \A uses, kinds : OfKind(uses, kinds)' = OfKind(uses, kinds)
  BY DEF OfKind
<1>3. \A uses, kind : LastUse(uses, kind)' = LastUse(uses, kind)
  BY <1>2 DEF LastUse
<1>4. \A id : PayloadOf(id)' = PayloadOf(id)
  BY DEF PayloadOf
<1>5. \A k : ColourAt(k)' = ColourAt(k)
  BY DEF ColourAt
<1>6. \A id : PropertiesOf(id)' = PropertiesOf(id)
  BY <1>1, <1>2, <1>3, <1>5 DEF PropertiesOf
<1>7. \A id : TileOf(id)' = TileOf(id)
  BY <1>4, <1>6 DEF TileOf
<1>8. \A id : HasConfig(id)' = HasConfig(id)
  BY <1>1, <1>2 DEF HasConfig
<1>10. Targets' = Targets
  BY DEF Targets
<1>11. PrimaryKind' = PrimaryKind
  BY DEF PrimaryKind
<1>q. QED
  BY <1>4, <1>5, <1>6, <1>7, <1>8, <1>10, <1>11

\* A sequence is one of its own members, and so it is with one more.
LEMMA OwnSequence ==
    ASSUME NEW S, NEW s \in Seq(S)
    PROVE  /\ s \in Seq(ToSet(s))
           /\ Len(s) \in Nat /\ DOMAIN s = 1 .. Len(s)
           /\ \A x : /\ Append(s, x) \in Seq(ToSet(Append(s, x)))
                     /\ DOMAIN Append(s, x) = 1 .. Len(s) + 1
                     /\ \A i \in 1 .. Len(s) : Append(s, x)[i] = s[i]
                     /\ Append(s, x)[Len(s) + 1] = x
<1>1. ASSUME NEW R, NEW r \in Seq(R)
      PROVE  r \in Seq(ToSet(r)) /\ Len(r) \in Nat /\ DOMAIN r = 1 .. Len(r)
  <2>1. Len(r) \in Nat /\ DOMAIN r = 1 .. Len(r) /\ r = [i \in 1 .. Len(r) |-> r[i]]
    BY <1>1, LenProperties
  <2>2. \A i \in 1 .. Len(r) : r[i] \in ToSet(r)
    BY <2>1 DEF ToSet
  <2>3. [i \in 1 .. Len(r) |-> r[i]] \in Seq(ToSet(r))
    <3> DEFINE T == ToSet(r)
    <3>1. \A i \in 1 .. Len(r) : r[i] \in T
      BY <2>2
    <3> HIDE DEF T
    <3>2. [i \in 1 .. Len(r) |-> r[i]] \in [1 .. Len(r) -> T]
      BY <3>1
    <3>3. [i \in 1 .. Len(r) |-> r[i]] \in Seq(T)
      BY <2>1, <3>2, SeqDef
    <3>q. QED
      BY <3>3 DEF T
  <2>q. QED
    BY <2>1, <2>3
<1>2. ASSUME NEW x
      PROVE  /\ Append(s, x) \in Seq(S \cup {x})
             /\ Len(Append(s, x)) = Len(s) + 1
             /\ \A i \in 1 .. Len(s) : Append(s, x)[i] = s[i]
             /\ Append(s, x)[Len(s) + 1] = x
  <2> DEFINE R == S \cup {x}
  <2>1. s \in Seq(R) /\ x \in R
    <3>1. S \subseteq R /\ x \in R
      OBVIOUS
    <3>2. Len(s) \in Nat /\ s = [i \in 1 .. Len(s) |-> s[i]]
      BY LenProperties
    <3>3. \A i \in 1 .. Len(s) : s[i] \in S
      BY ElementOfSeq
    <3> HIDE DEF R
    <3>4. [i \in 1 .. Len(s) |-> s[i]] \in [1 .. Len(s) -> R]
      BY <3>1, <3>3
    <3>5. [i \in 1 .. Len(s) |-> s[i]] \in Seq(R)
      BY <3>2, <3>4, SeqDef
    <3>q. QED
      BY <3>1, <3>2, <3>5
  <2> HIDE DEF R
  <2>2. /\ Append(s, x) \in Seq(R) /\ Len(Append(s, x)) = Len(s) + 1
        /\ \A i \in 1 .. Len(s) : Append(s, x)[i] = s[i]
        /\ Append(s, x)[Len(s) + 1] = x
    BY <2>1, AppendProperties
  <2>q. QED
    BY <2>2 DEF R
<1>q. QED
  BY <1>1, <1>2

\* What is extracted for a target.
IsTile(tile, id) == HasConfig(id) /\ tile = TileOf(id)

\* The inductive invariant of the caches: all that they hold is right, and so is
\* each tile of a grid that has been extracted.
CacheInv ==
    /\ meta \in Metadata
    /\ Kept(cache)
    /\ tiles \in Seq(ToSet(tiles))
    /\ \A i \in DOMAIN tiles : PrimaryKind = "grid" => IsTile(tiles[i], Targets[i])

\* Extracting a tile keeps both.
LEMMA ExtractKeeps ==
    ASSUME CacheInv, ExtractTile
    PROVE  /\ Kept(cache')
           /\ tiles' \in Seq(ToSet(tiles'))
           /\ \A i \in DOMAIN tiles' : PrimaryKind = "grid" => IsTile(tiles'[i], Targets[i])
<1> DEFINE id == Targets[Len(tiles) + 1]
           known == CacheWith(cache, id)
<1>0. meta \in Metadata /\ Kept(cache) /\ tiles \in Seq(ToSet(tiles))
  BY DEF CacheInv
<1>1. CASE TileResolves(id) /\ WithinLimits(known)
  <2>1. cache' = known /\ tiles' = Append(tiles, TileFrom(known, id))
    BY <1>1 DEF ExtractTile
  <2>2. HasConfig(id)
    BY <1>1 DEF TileResolves, HasConfig
  <2>3. Kept(known) /\ TileFrom(known, id) = TileOf(id)
    BY <1>0, <2>2, TileKept
  <2> HIDE DEF known
  <2>4. tiles' = Append(tiles, TileOf(id))
    BY <2>1, <2>3
  <2> DEFINE S == ToSet(tiles)
             x == TileOf(id)
  <2> HIDE DEF S, x
  <2>5. /\ Append(tiles, x) \in Seq(ToSet(Append(tiles, x)))
        /\ Len(tiles) \in Nat /\ DOMAIN tiles = 1 .. Len(tiles)
        /\ DOMAIN Append(tiles, x) = 1 .. Len(tiles) + 1
        /\ \A i \in 1 .. Len(tiles) : Append(tiles, x)[i] = tiles[i]
        /\ Append(tiles, x)[Len(tiles) + 1] = x
    <3>1. tiles \in Seq(S)
      BY <1>0 DEF S
    <3>q. QED
      BY ONLY <3>1, OwnSequence
  <2>6. ASSUME PrimaryKind = "grid", NEW i \in 1 .. Len(tiles) + 1
        PROVE  IsTile(Append(tiles, x)[i], Targets[i])
    <3>1. CASE i = Len(tiles) + 1
      BY <2>2, <2>5, <3>1 DEF x, id, IsTile
    <3>2. CASE i # Len(tiles) + 1
      <4>1. i \in 1 .. Len(tiles)
        BY <2>5, <2>6, <3>2
      <4>2. IsTile(tiles[i], Targets[i])
        BY <2>5, <2>6, <4>1 DEF CacheInv
      <4>q. QED
        BY <2>5, <4>1, <4>2
    <3>q. QED
      BY <3>1, <3>2
  <2>q. QED
    BY <2>1, <2>3, <2>4, <2>5, <2>6 DEF x
<1>2. CASE ~(TileResolves(id) /\ WithinLimits(known))
  <2>1. UNCHANGED <<tiles, cache>>
    BY <1>2 DEF ExtractTile
  <2>q. QED
    BY <2>1 DEF CacheInv
<1>q. QED
  BY <1>1, <1>2

\* So does resolving the primary item, which extracts no tile of a grid.
LEMMA ResolveKeeps ==
    ASSUME CacheInv, EagerResolve
    PROVE  /\ Kept(cache')
           /\ tiles' \in Seq(ToSet(tiles'))
           /\ \A i \in DOMAIN tiles' : PrimaryKind = "grid" => IsTile(tiles'[i], Targets[i])
<1>1. cache' = cache
  BY DEF EagerResolve
<1>2. PrimaryKind = "grid" => tiles' = << >>
  <2>1. SUFFICES ASSUME PrimaryKind = "grid" PROVE stage' # "accepted"
    BY DEF EagerResolve
  <2>2. PrimaryKind \notin Coded
    BY <2>1 DEF Coded
  <2>q. QED
    BY <2>2 DEF EagerResolve
<1>3. tiles' = << >> \/ \E x : tiles' = <<x>>
  BY DEF EagerResolve
<1>4. tiles' \in Seq(ToSet(tiles'))
  <2>1. \E S : tiles' \in Seq(S)
    <3>1. ASSUME NEW x, tiles' = <<x>> PROVE tiles' \in Seq({x})
      BY <3>1
    <3>2. ASSUME tiles' = << >> PROVE tiles' \in Seq({})
      BY <3>2, EmptySeq
    <3>q. QED
      BY <1>3, <3>1, <3>2
  <2>2. PICK S : tiles' \in Seq(S)
    BY <2>1
  <2> DEFINE s == tiles'
  <2>3. s \in Seq(S)
    BY <2>2
  <2> HIDE DEF s
  <2>4. s \in Seq(ToSet(s))
    BY ONLY <2>3, OwnSequence
  <2>q. QED
    BY <2>4 DEF s
<1>q. QED
  BY <1>1, <1>2, <1>4 DEF CacheInv

\* For any metadata: each tile that grid extraction gives with its caches is the
\* tile that it would give of that item alone.
THEOREM CacheStaysInvisible == ItemsSpec => []CacheIsTransparent
<1>1. ItemsInit => CacheInv
  <2> SUFFICES ASSUME ItemsInit PROVE CacheInv
    OBVIOUS
  <2>1. meta \in Metadata /\ cache = EmptyCache /\ tiles = << >>
    BY DEF ItemsInit, EagerInit
  <2>2. << >> \in Seq(ToSet(<< >>))
    <3> DEFINE S == ToSet(<< >>)
    <3> HIDE DEF S
    <3>1. << >> \in Seq(S)
      BY EmptySeq
    <3>q. QED
      BY <3>1 DEF S
  <2>q. QED
    BY <2>1, <2>2, EmptyKept DEF CacheInv
<1>2. ASSUME CacheInv, [ItemsNext]_itemVars
      PROVE  CacheInv'
  <2>1. meta' = meta
    BY <1>2 DEF ItemsNext, itemVars
  <2>2. /\ Kept(cache')
        /\ tiles' \in Seq(ToSet(tiles'))
        /\ \A i \in DOMAIN tiles' : PrimaryKind = "grid" => IsTile(tiles'[i], Targets[i])
    <3>1. CASE UNCHANGED <<tiles, cache>>
      BY <1>2, <3>1 DEF CacheInv
    <3>2. CASE EagerNext
      BY <1>2, <3>2, ResolveKeeps, ExtractKeeps DEF EagerNext
    <3>q. QED
      BY <1>2, <3>1, <3>2 DEF ItemsNext, itemVars, eagerVars
  <2>3. Kept(cache)'
    <3>1. /\ \A k : ColourAt(k)' = ColourAt(k)
          /\ \A id : PayloadOf(id)' = PayloadOf(id)
          /\ \A id : PropertiesOf(id)' = PropertiesOf(id)
      BY <2>1, EagerKept
    <3>2. CacheFields' = CacheFields
      BY DEF CacheFields
    <3>q. QED
      BY <2>1, <2>2, <3>1 DEF Kept
  <2>4. /\ PrimaryKind' = PrimaryKind /\ Targets' = Targets
        /\ \A id : TileOf(id)' = TileOf(id)
        /\ \A id : HasConfig(id)' = HasConfig(id)
    BY <2>1, EagerKept
  <2>5. meta' \in Metadata
    BY <1>2, <2>1 DEF CacheInv
  <2>6. (\A i \in DOMAIN tiles : PrimaryKind = "grid" => IsTile(tiles[i], Targets[i]))'
    BY <2>2, <2>4 DEF IsTile
  <2>q. QED
    BY <2>2, <2>3, <2>5, <2>6 DEF CacheInv
<1>3. CacheInv => CacheIsTransparent
  <2> SUFFICES ASSUME CacheInv, PrimaryKind = "grid", NEW i \in DOMAIN tiles
               PROVE  tiles[i] = Alone(Targets[i])
    BY DEF CacheIsTransparent
  <2>1. HasConfig(Targets[i]) /\ tiles[i] = TileOf(Targets[i]) /\ meta \in Metadata
    BY DEF CacheInv, IsTile
  <2>q. QED
    BY <2>1, TileKept, EmptyKept DEF Alone
<1>q. QED
  BY <1>1, <1>2, <1>3, PTL DEF ItemsSpec

\* Parameter sets: width, height and the video usability information.
IsConfig(config) == config \in Seq(Nat) /\ Len(config) = 3

\* What Index::associations has checked of all associations.
Indexed == \A i \in DOMAIN meta.associations : InRange(meta.associations[i].uses)

\* The uses of an item all name properties that are there, or none.
LEMMA UsesIndexed ==
    ASSUME meta \in Metadata, Indexed, NEW id
    PROVE  Uses(id) \in Seq(Use) /\ InRange(Uses(id))
<1>1. CASE Has(meta.associations, id)
  <2> DEFINE S == {i \in DOMAIN meta.associations : meta.associations[i].id = id}
  <2>1. S # {} /\ S \subseteq Nat
    <3>1. meta.associations \in Seq([id : Nat, uses : Seq(Use)])
      BY MetadataTyped
    <3>2. DOMAIN meta.associations \subseteq Nat
      BY <3>1, LenProperties
    <3>q. QED
      BY <1>1, <3>2 DEF Has
  <2>2. Min(S) \in S
    <3> HIDE DEF S
    <3>q. QED
      BY <2>1, LeastOfNaturals DEF Min
  <2>3. Min(S) \in DOMAIN meta.associations /\ Uses(id) = meta.associations[Min(S)].uses
    BY <1>1, <2>2 DEF Uses, First
  <2>4. meta.associations[Min(S)].uses \in Seq(Use)
    <3>1. meta.associations \in Seq([id : Nat, uses : Seq(Use)])
      BY MetadataTyped
    <3>2. meta.associations[Min(S)] \in [id : Nat, uses : Seq(Use)]
      BY <2>3, <3>1, ElementOfSeq, LenProperties
    <3>q. QED
      BY <3>2
  <2>q. QED
    BY <2>3, <2>4 DEF Indexed
<1>2. CASE ~Has(meta.associations, id)
  BY <1>2, EmptySeq DEF Uses, InRange
<1>q. QED
  BY <1>1, <1>2

\* The parameter sets that a tile is planned with are those of a property.
LEMMA ConfigOfTile ==
    ASSUME meta \in Metadata, Indexed, NEW id, ValueOf(Uses(id), "hvcC") # << >>
    PROVE  IsConfig(ValueOf(Uses(id), "hvcC"))
<1> DEFINE uses == Uses(id)
           picked == OfKind(uses, {"hvcC"})
<1>1. uses \in Seq(Use) /\ InRange(uses)
  BY UsesIndexed
<1>2. picked # << >> /\ ValueOf(uses, "hvcC") = Values(picked)[1].value
  BY DEF ValueOf
<1> HIDE DEF uses
<1>3. 1 \in DOMAIN picked
  BY <1>1, <1>2, OfKindFrom
<1>4. PICK j \in DOMAIN uses : /\ picked[1] = uses[j] /\ uses[j].index # 0
                               /\ meta.properties[uses[j].index].kind \in {"hvcC"}
  BY <1>1, <1>3, OfKindFrom
<1> DEFINE k == uses[j].index
<1>5. Values(picked)[1] = meta.properties[k]
  BY <1>3, <1>4 DEF Values
<1>6. k \in 1 .. Len(meta.properties)
  <2>1. k \in Nat
    <3>1. uses[j] \in Use
      BY <1>1, <1>4, ElementOfSeq, LenProperties
    <3>q. QED
      BY <3>1 DEF Use
  <2>2. k <= Len(meta.properties)
    BY <1>1, <1>4 DEF InRange
  <2>3. Len(meta.properties) \in Nat
    BY MetadataTyped
  <2>q. QED
    BY <1>4, <2>1, <2>2, <2>3
<1>7. meta.properties[k] \in Property /\ meta.properties[k].kind = "hvcC"
  BY <1>4, <1>6, MetadataTyped
<1> DEFINE p == meta.properties[k]
<1> HIDE DEF k
<1>8. p.value \in Seq(Nat) /\ Len(p.value) = 3
  BY <1>7 DEF Property, Width
<1>q. QED
  BY <1>2, <1>5, <1>8 DEF IsConfig, uses

\* The width and the height of parameter sets are numbers.
LEMMA GeometryOfConfig ==
    ASSUME NEW config, IsConfig(config)
    PROVE  /\ Geometry(config)[1] = config[1] /\ Geometry(config)[2] = config[2]
           /\ config[1] \in Nat /\ config[2] \in Nat
<1>1. config \in Seq(Nat) /\ Len(config) = 3
  BY DEF IsConfig
<1>2. \A i \in 1 .. 3 : config[i] \in Nat
  BY <1>1, ElementOfSeq
<1>3. \A i \in 1 .. 2 - 1 + 1 : SubSeq(config, 1, 2)[i] = config[1 + i - 1]
  <2>1. 1 \in Int /\ 2 \in Int /\ \A i \in 1 .. 2 : config[i] \in Nat
    BY <1>2
  <2>q. QED
    BY ONLY <2>1, SubSeqProperties
<1>4. SubSeq(config, 1, 2)[1] = config[1] /\ SubSeq(config, 1, 2)[2] = config[2]
  BY <1>3
<1>q. QED
  BY <1>2, <1>4 DEF Geometry

\* What Grid::tiled has established once it loops over the tiles: all that are
\* planned have the same parameter sets.
OnGrid ==
    /\ Indexed
    /\ Len(GridTiles) = meta.grid.rows * meta.grid.columns
    /\ meta.grid.width * meta.grid.height \in Nat \ {0}
    /\ plan \in Seq(ToSet(plan))
    /\ \A i \in DOMAIN plan : IsConfig(plan[i].config) /\ plan[i].config = plan[1].config

\* The inductive invariant of the plan of a grid: while there are tiles to plan
\* fewer are planned, and afterwards all of them, which cover the picture.
PlanInv ==
    /\ meta \in Metadata
    /\ step = "plan" => Indexed
    /\ step = "tiles" => OnGrid /\ Len(plan) < Len(GridTiles)
    /\ step \in {"references", "accepted"} /\ Kind(meta.primary) = "grid" =>
         OnGrid /\ Len(plan) = Len(GridTiles) /\ Covers(plan[1])

\* What the plan is checked against stays, as the metadata do.
LEMMA BoundedKept ==
    ASSUME meta' = meta
    PROVE  /\ Indexed' = Indexed
           /\ GridTiles' = GridTiles
           /\ \A id : Kind(id)' = Kind(id)
           /\ \A tile : Covers(tile)' = Covers(tile)
<1>1. \A uses : InRange(uses)' = InRange(uses)
  BY DEF InRange
<1>2. Indexed' = Indexed
  BY <1>1 DEF Indexed
<1>3. GridTiles' = GridTiles
  BY DEF GridTiles, Derivations
<1>4. \A id : Kind(id)' = Kind(id)
  BY DEF Kind
<1>5. \A tile : Covers(tile)' = Covers(tile)
  BY DEF Covers
<1>q. QED
  BY <1>2, <1>3, <1>4, <1>5

\* The descriptor of a grid holds numbers, and it has a tile.
LEMMA GridTyped ==
    ASSUME meta \in Metadata
    PROVE  /\ meta.grid.rows \in Nat \ {0} /\ meta.grid.columns \in Nat \ {0}
           /\ meta.grid.width \in Nat /\ meta.grid.height \in Nat
           /\ meta.grid.rows * meta.grid.columns \in Nat \ {0}
<1>1. /\ meta.grid.rows \in Nat \ {0} /\ meta.grid.columns \in Nat \ {0}
      /\ meta.grid.width \in Nat /\ meta.grid.height \in Nat
  BY DEF Metadata
<1>2. \A a, b \in Nat \ {0} : a * b \in Nat \ {0}
  OBVIOUS
<1>q. QED
  BY <1>1, <1>2

\* Grid::tiled starts a plan, or a coded picture is planned alone.
LEMMA PrimaryPlanned ==
    ASSUME PlanInv, PlanPrimary, meta' = meta
    PROVE  /\ step' = "tiles" => /\ Indexed /\ plan' = << >>
                                 /\ Len(GridTiles) = meta.grid.rows * meta.grid.columns
                                 /\ meta.grid.width * meta.grid.height \in Nat \ {0}
           /\ step' \in {"tiles", "references", "refused"}
           /\ step' = "references" => Kind(meta.primary) # "grid"
<1>1. step = "plan" /\ Indexed /\ meta \in Metadata
  BY DEF PlanInv, PlanPrimary
<1>2. step' \in {"tiles", "references", "refused"}
  BY DEF PlanPrimary
<1>3. step' = "references" => Kind(meta.primary) # "grid"
  BY DEF PlanPrimary, Coded
<1>4. ASSUME step' = "tiles"
      PROVE  /\ plan' = << >> /\ Len(GridTiles) = meta.grid.rows * meta.grid.columns
             /\ meta.grid.width * meta.grid.height \in 1 .. MaxPixels
  BY <1>4 DEF PlanPrimary, GridAccepted
<1>5. \A n \in 1 .. MaxPixels : n \in Nat \ {0}
  OBVIOUS
<1>q. QED
  BY <1>1, <1>2, <1>3, <1>4, <1>5

\* A tile that is planned has the parameter sets of the first one, and the last
\* one is followed by the check that the tiles cover the picture.
LEMMA TilePlanned ==
    ASSUME PlanInv, PlanTile
    PROVE  /\ step' \in {"tiles", "references", "refused"}
           /\ step' # "refused" =>
                /\ plan' \in Seq(ToSet(plan'))
                /\ \A i \in DOMAIN plan' : /\ IsConfig(plan'[i].config)
                                           /\ plan'[i].config = plan'[1].config
           /\ step' = "tiles" => Len(plan') < Len(GridTiles)
           /\ step' = "references" => Len(plan') = Len(GridTiles) /\ Covers(plan'[1])
<1> DEFINE id == GridTiles[Len(plan) + 1]
           x == Planned(id)
           planned == Append(plan, x)
           n == Len(plan)
<1>0. /\ meta \in Metadata /\ OnGrid /\ n < Len(GridTiles) /\ Len(GridTiles) \in Nat
      /\ n \in Nat
  <2>1. meta \in Metadata /\ OnGrid /\ Len(plan) < Len(GridTiles)
    BY DEF PlanInv, PlanTile
  <2>2. Len(GridTiles) \in Nat
    BY <2>1, GridTyped DEF OnGrid
  <2>3. plan \in Seq(ToSet(plan))
    BY <2>1 DEF OnGrid
  <2>4. Len(plan) \in Nat
    <3> DEFINE S == ToSet(plan)
    <3> HIDE DEF S
    <3>1. plan \in Seq(S)
      BY <2>3 DEF S
    <3>q. QED
      BY <3>1, LenProperties
  <2>q. QED
    BY <2>1, <2>2, <2>4
<1>1. step' = "refused" \/ (/\ TileAccepted(id) /\ Uniform(x, planned[1])
                            /\ plan' = planned
                            /\ step' = IF n + 1 # Len(GridTiles) THEN "tiles"
                                       ELSE IF Covers(planned[1]) THEN "references"
                                       ELSE "refused")
  BY DEF PlanTile
<1> SUFFICES ASSUME step' # "refused"
             PROVE  /\ step' \in {"tiles", "references"}
                    /\ plan' \in Seq(ToSet(plan'))
                    /\ \A i \in DOMAIN plan' : /\ IsConfig(plan'[i].config)
                                               /\ plan'[i].config = plan'[1].config
                    /\ step' = "tiles" => Len(plan') < Len(GridTiles)
                    /\ step' = "references" => Len(plan') = Len(GridTiles) /\ Covers(plan'[1])
  OBVIOUS
<1>2. /\ TileAccepted(id) /\ Uniform(x, planned[1]) /\ plan' = planned
      /\ step' = IF n + 1 # Len(GridTiles) THEN "tiles"
                 ELSE IF Covers(planned[1]) THEN "references" ELSE "refused"
  BY <1>1
<1>3. x.config = ValueOf(Uses(id), "hvcC") /\ IsConfig(x.config)
  <2>1. ValueOf(Uses(id), "hvcC") # << >>
    BY <1>2 DEF TileAccepted
  <2>2. Indexed
    BY <1>0 DEF OnGrid
  <2>q. QED
    BY <1>0, <2>1, <2>2, ConfigOfTile DEF Planned
<1> HIDE DEF x
<1>4. /\ planned \in Seq(ToSet(planned)) /\ DOMAIN planned = 1 .. n + 1
      /\ \A i \in 1 .. n : planned[i] = plan[i]
      /\ planned[n + 1] = x /\ DOMAIN plan = 1 .. n
  <2> DEFINE S == ToSet(plan)
  <2>1. plan \in Seq(S)
    BY <1>0 DEF OnGrid
  <2> HIDE DEF S
  <2>q. QED
    BY ONLY <2>1, OwnSequence
<1>5. x.config = planned[1].config
  BY <1>2 DEF Uniform
<1> HIDE DEF planned
<1>6. ASSUME NEW i \in 1 .. n + 1
      PROVE  IsConfig(planned[i].config) /\ planned[i].config = planned[1].config
  <2>1. CASE i = n + 1
    BY <1>3, <1>4, <1>5, <2>1
  <2>2. CASE i \in 1 .. n
    <3>1. 1 \in 1 .. n /\ planned[1] = plan[1] /\ planned[i] = plan[i]
      BY <1>0, <1>4, <2>2
    <3>q. QED
      BY <1>0, <1>4, <2>2, <3>1 DEF OnGrid
  <2>q. QED
    BY <1>0, <2>1, <2>2
<1>7. Len(planned) = n + 1
  <2> DEFINE S == ToSet(planned)
  <2>1. planned \in Seq(S)
    BY <1>4
  <2> HIDE DEF S
  <2>2. Len(planned) \in Nat /\ DOMAIN planned = 1 .. Len(planned)
    BY <2>1, LenProperties
  <2>q. QED
    BY <1>0, <1>4, <2>2
<1>q. QED
  BY <1>0, <1>2, <1>4, <1>6, <1>7

\* Every step of either path keeps the invariant.
LEMMA PlanStep ==
    ASSUME PlanInv, [ItemsNext]_itemVars
    PROVE  PlanInv'
<1>1. meta' = meta
  BY DEF ItemsNext, itemVars
<1>2. /\ Indexed' = Indexed /\ GridTiles' = GridTiles
      /\ Kind(meta.primary)' = Kind(meta.primary)
      /\ \A tile : Covers(tile)' = Covers(tile)
  BY <1>1, BoundedKept
<1> DEFINE Grid(p) == /\ Indexed
                      /\ Len(GridTiles) = meta.grid.rows * meta.grid.columns
                      /\ meta.grid.width * meta.grid.height \in Nat \ {0}
                      /\ p \in Seq(ToSet(p))
                      /\ \A i \in DOMAIN p : /\ IsConfig(p[i].config)
                                             /\ p[i].config = p[1].config
<1>3. OnGrid = Grid(plan) /\ OnGrid' = Grid(plan')
  BY <1>1, <1>2 DEF OnGrid
<1>4. /\ meta \in Metadata
      /\ step' = "plan" => Indexed
      /\ step' = "tiles" => Grid(plan') /\ Len(plan') < Len(GridTiles)
      /\ step' \in {"references", "accepted"} /\ Kind(meta.primary) = "grid" =>
           Grid(plan') /\ Len(plan') = Len(GridTiles) /\ Covers(plan'[1])
  <2>0. meta \in Metadata
    BY DEF PlanInv
  <2>1. CASE UNCHANGED <<step, plan>>
    BY <1>3, <2>1 DEF PlanInv
  <2>2. CASE ParseIndex
    BY <2>0, <2>2 DEF ParseIndex, IndexValid, AssociationsValid, Indexed
  <2>3. CASE PlanPrimary
    <3>1. ASSUME step' = "tiles"
          PROVE  Grid(plan') /\ Len(plan') < Len(GridTiles)
      <4>1. /\ Indexed /\ plan' = << >>
            /\ Len(GridTiles) = meta.grid.rows * meta.grid.columns
            /\ meta.grid.width * meta.grid.height \in Nat \ {0}
        BY <1>1, <2>3, <3>1, PrimaryPlanned
      <4>2. 0 < Len(GridTiles) /\ Len(<< >>) = 0
        BY <2>0, <4>1, GridTyped
      <4>3. << >> \in Seq(ToSet(<< >>))
        <5> DEFINE S == ToSet(<< >>)
        <5> HIDE DEF S
        <5>1. << >> \in Seq(S)
          BY EmptySeq
        <5>q. QED
          BY <5>1 DEF S
      <4>q. QED
        BY <4>1, <4>2, <4>3
    <3> HIDE DEF Grid
    <3>q. QED
      BY <1>1, <2>0, <2>3, <3>1, PrimaryPlanned
  <2>4. CASE PlanTile
    <3>1. OnGrid
      BY <2>4 DEF PlanTile, PlanInv
    <3>2. step' # "refused" => Grid(plan')
      BY <2>4, <3>1, TilePlanned DEF OnGrid
    <3> HIDE DEF Grid
    <3>q. QED
      BY <2>0, <2>4, <3>2, TilePlanned
  <2>5. CASE CheckReference \/ AcceptPlan
    <3>1. plan' = plan /\ step = "references" /\ step' \in {"references", "accepted", "refused"}
      BY <2>5 DEF CheckReference, AcceptPlan
    <3> HIDE DEF Grid
    <3>q. QED
      BY <1>3, <2>0, <3>1 DEF PlanInv
  <2> HIDE DEF Grid
  <2>q. QED
    BY <2>1, <2>2, <2>3, <2>4, <2>5
       DEF ItemsNext, itemVars, boundedVars, BoundedNext
<1>5. meta' \in Metadata
  BY <1>1, <1>4
<1> HIDE DEF Grid
<1>6. Covers(plan'[1]) = Covers(plan[1])'
  BY <1>1 DEF Covers
<1>q. QED
  BY <1>1, <1>2, <1>3, <1>4, <1>6 DEF PlanInv

\* Columns that cover a width, the last of them in part, are the places of a
\* pixel on that width, and each of them has a pixel; the same for rows.
LEMMA PlaceInGrid ==
    ASSUME NEW rows \in Nat \ {0}, NEW columns \in Nat \ {0},
           NEW width \in Nat \ {0}, NEW height \in Nat \ {0}, NEW w \in Nat, NEW h \in Nat,
           w * columns >= width, h * rows >= height,
           w * (columns - 1) < width, h * (rows - 1) < height
    PROVE  /\ \A x \in 0 .. width - 1 : x \div w \in 0 .. columns - 1
           /\ \A y \in 0 .. height - 1 : y \div h \in 0 .. rows - 1
           /\ \A c \in 0 .. columns - 1 : c * w \in 0 .. width - 1 /\ (c * w) \div w = c
           /\ \A r \in 0 .. rows - 1 : r * h \in 0 .. height - 1 /\ (r * h) \div h = r
<1>1. ASSUME NEW a \in Nat, NEW n \in Nat \ {0}, NEW length \in Nat \ {0},
             a * n >= length, a * (n - 1) < length
      PROVE  /\ \A x \in 0 .. length - 1 : x \div a \in 0 .. n - 1
             /\ \A k \in 0 .. n - 1 : k * a \in 0 .. length - 1 /\ (k * a) \div a = k
  <2>1. a # 0
    BY <1>1
  <2>2. ASSUME NEW x \in 0 .. length - 1
        PROVE  x \div a \in 0 .. n - 1
    <3> DEFINE q == x \div a
    <3>1. q \in Nat /\ a * q <= x
      BY <2>1, DivNatural, DivBounds
    <3> HIDE DEF q
    <3>2. CASE q >= n
      <4>1. a * n <= a * q
        BY <3>1, <3>2, ProductGrows
      <4>2. a * n \in Nat /\ a * q \in Nat
        BY <3>1, ProductNatural
      <4>q. QED
        BY <1>1, <3>1, <4>1, <4>2
    <3>q. QED
      BY <3>1, <3>2 DEF q
  <2>3. ASSUME NEW k \in 0 .. n - 1
        PROVE  k * a \in 0 .. length - 1 /\ (k * a) \div a = k
    <3>1. k \in Nat /\ n - 1 \in Nat /\ k <= n - 1
      OBVIOUS
    <3>2. k * a <= (n - 1) * a /\ a * (n - 1) = (n - 1) * a
      BY <3>1, ProductGrows, Distributes
    <3>3. k * a \in Nat /\ (n - 1) * a \in Nat /\ a * k = k * a
      BY <3>1, ProductNatural, Distributes
    <3>4. (k * a) \div a = k
      BY <2>1, <3>1, <3>3, DivUnique
    <3>q. QED
      BY <1>1, <3>2, <3>3, <3>4
  <2>q. QED
    BY <2>2, <2>3
<1>q. QED
  BY <1>1

\* The tiles that the pixels of a picture lie in.
TilesOf(columns, width, height, w, h) ==
    {(p[2] \div h) * columns + p[1] \div w + 1 :
         p \in (0 .. width - 1) \X (0 .. height - 1)}

\* They are all tiles of the grid.
LEMMA PartitionOfPicture ==
    ASSUME NEW rows \in Nat \ {0}, NEW columns \in Nat \ {0},
           NEW width \in Nat \ {0}, NEW height \in Nat \ {0}, NEW w \in Nat, NEW h \in Nat,
           w * columns >= width, h * rows >= height,
           w * (columns - 1) < width, h * (rows - 1) < height
    PROVE  TilesOf(columns, width, height, w, h) = 1 .. rows * columns
<1> DEFINE Pixels == (0 .. width - 1) \X (0 .. height - 1)
           At(p) == (p[2] \div h) * columns + p[1] \div w + 1
<1>1. ASSUME NEW p \in Pixels
      PROVE  At(p) \in 1 .. rows * columns
  <2> DEFINE c == p[1] \div w
             r == p[2] \div h
  <2>1. c \in 0 .. columns - 1 /\ r \in 0 .. rows - 1
    BY PlaceInGrid
  <2> HIDE DEF c, r
  <2>2. r * columns <= (rows - 1) * columns
    BY <2>1, ProductGrows
  <2>3. (rows - 1) * columns = rows * columns - columns
    <3>1. (rows - 1) * columns = columns * (rows - 1) /\ rows * columns = columns * rows
      BY Distributes
    <3>2. columns * (rows - 1) = columns * rows - columns * 1
      BY Distributes
    <3>q. QED
      BY <3>1, <3>2
  <2>4. r * columns \in Nat /\ rows * columns \in Nat
    BY <2>1, ProductNatural
  <2>5. r * columns + c + 1 \in 1 .. rows * columns
    BY <2>1, <2>2, <2>3, <2>4
  <2>q. QED
    BY <2>5 DEF c, r
<1>2. ASSUME NEW k \in 1 .. rows * columns
      PROVE  \E p \in Pixels : At(p) = k
  <2> DEFINE r == (k - 1) \div columns
             c == (k - 1) % columns
  <2>0. rows * columns \in Nat
    BY ProductNatural
  <2>1. k - 1 \in Nat /\ k - 1 < rows * columns
    BY <2>0
  <2>2. r \in Nat /\ c \in 0 .. columns - 1 /\ k - 1 = columns * r + c
    BY <2>1, Splits
  <2> HIDE DEF r, c
  <2>3. r \in 0 .. rows - 1
    <3>1. CASE r >= rows
      <4>1. columns * rows <= columns * r /\ columns * rows = rows * columns
        BY <2>2, <3>1, ProductGrows, Distributes
      <4>2. columns * r \in Nat
        BY <2>2, ProductNatural
      <4>q. QED
        BY <2>0, <2>1, <2>2, <4>1, <4>2
    <3>q. QED
      BY <2>2, <3>1
  <2>4. <<c * w, r * h>> \in Pixels /\ (c * w) \div w = c /\ (r * h) \div h = r
    BY <2>2, <2>3, PlaceInGrid
  <2>5. r * columns = columns * r /\ r * columns \in Nat
    BY <2>2, ProductNatural, Distributes
  <2>6. r * columns + c + 1 = k
    BY <2>2, <2>5
  <2>7. At(<<c * w, r * h>>) = k
    BY <2>4, <2>6
  <2>q. QED
    BY <2>4, <2>7
<1>q. QED
  <2> HIDE DEF At, Pixels
  <2>1. {At(p) : p \in Pixels} = 1 .. rows * columns
    BY <1>1, <1>2
  <2>q. QED
    BY <2>1 DEF At, Pixels, TilesOf

\* The invariant gives the partition.
LEMMA PlannedCovers ==
    ASSUME PlanInv, step \in {"references", "accepted"}, Kind(meta.primary) = "grid"
    PROVE  LET size == Geometry(plan[1].config)
               pixels == (0 .. meta.grid.width - 1) \X (0 .. meta.grid.height - 1)
               tileAt(p) == (p[2] \div size[2]) * meta.grid.columns
                            + p[1] \div size[1] + 1
           IN  /\ \A i \in DOMAIN plan : Geometry(plan[i].config) = size
               /\ \A p \in pixels : p[1] \div size[1] < meta.grid.columns
               /\ {tileAt(p) : p \in pixels} = DOMAIN plan
<1> DEFINE g == meta.grid
           size == Geometry(plan[1].config)
           w == size[1]
           h == size[2]
           pixels == (0 .. g.width - 1) \X (0 .. g.height - 1)
<1>1. meta \in Metadata /\ OnGrid /\ Len(plan) = Len(GridTiles) /\ Covers(plan[1])
  BY DEF PlanInv
<1>2. /\ g.rows \in Nat \ {0} /\ g.columns \in Nat \ {0} /\ g.width \in Nat /\ g.height \in Nat
      /\ g.rows * g.columns \in Nat \ {0}
  BY <1>1, GridTyped
<1>3. Len(plan) = g.rows * g.columns /\ g.width * g.height # 0
  BY <1>1 DEF OnGrid
<1>4. DOMAIN plan = 1 .. g.rows * g.columns /\ 1 \in DOMAIN plan
  <2> DEFINE S == ToSet(plan)
  <2>1. plan \in Seq(S)
    BY <1>1 DEF OnGrid
  <2> HIDE DEF S, g
  <2>2. DOMAIN plan = 1 .. Len(plan)
    BY <2>1, LenProperties
  <2>q. QED
    BY <1>2, <1>3, <2>2
<1>5. w \in Nat /\ h \in Nat
  <2>1. IsConfig(plan[1].config)
    BY <1>1, <1>4 DEF OnGrid
  <2>q. QED
    BY <2>1, GeometryOfConfig
<1>6. w * g.columns >= g.width /\ h * g.rows >= g.height
      /\ w * (g.columns - 1) < g.width /\ h * (g.rows - 1) < g.height
  BY <1>1 DEF Covers
<1>7. \A i \in DOMAIN plan : Geometry(plan[i].config) = size
  <2>1. \A i \in DOMAIN plan : plan[i].config = plan[1].config
    BY <1>1 DEF OnGrid
  <2>q. QED
    BY <2>1
<1> HIDE DEF size, w, h, g
<1>8. g.width \in Nat \ {0} /\ g.height \in Nat \ {0}
  BY <1>2, <1>3
<1>9. \A x \in 0 .. g.width - 1 : x \div w < g.columns
  <2>1. \A x \in 0 .. g.width - 1 : x \div w \in 0 .. g.columns - 1
    BY <1>2, <1>5, <1>6, <1>8, PlaceInGrid
  <2>q. QED
    BY <1>2, <2>1
<1>10. {(p[2] \div h) * g.columns + p[1] \div w + 1 : p \in pixels} = DOMAIN plan
  <2> DEFINE rows == g.rows
             columns == g.columns
             width == g.width
             height == g.height
  <2>1. /\ rows \in Nat \ {0} /\ columns \in Nat \ {0}
        /\ width \in Nat \ {0} /\ height \in Nat \ {0}
        /\ w * columns >= width /\ h * rows >= height
        /\ w * (columns - 1) < width /\ h * (rows - 1) < height
    BY <1>2, <1>6, <1>8
  <2> HIDE DEF rows, columns, width, height
  <2>2. TilesOf(columns, width, height, w, h) = 1 .. rows * columns
    BY ONLY <1>5, <2>1, PartitionOfPicture
  <2>q. QED
    BY <1>4, <2>2 DEF rows, columns, width, height, TilesOf
<1>11. \A p \in pixels : p[1] \div w < g.columns
  BY <1>9
<1>q. QED
  BY <1>7, <1>10, <1>11 DEF size, w, h, g

\* For any metadata: the tiles of a grid that the bounded path plans have one
\* geometry, every pixel of the picture is in one of them, and none of them is
\* without a pixel.
THEOREM GridIsPartitioned == ItemsSpec => []PlanCovers
<1>1. ItemsInit => PlanInv
  BY DEF ItemsInit, BoundedInit, PlanInv
<1>2. PlanInv /\ [ItemsNext]_itemVars => PlanInv'
  BY PlanStep
<1>3. PlanInv => PlanCovers
  BY PlannedCovers DEF PlanCovers
<1>q. QED
  BY <1>1, <1>2, <1>3, PTL DEF ItemsSpec
=============================================================================
