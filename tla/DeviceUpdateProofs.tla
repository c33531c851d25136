--------------------------- MODULE DeviceUpdateProofs ---------------------------
(***************************************************************************)
(* Theorems about DeviceUpdate, for every set of devices, packages and     *)
(* URLs, whatever the packages hold, the URLs serve and the specs ask for, *)
(* and for any number of workers left behind.                              *)
(***************************************************************************)
EXTENDS DeviceUpdate, TLAPS

-----------------------------------------------------------------------------
(* Records *)

Paths == [fw : Dirs \cup {None}, ddp : Dirs \cup {None},
          fwIs : Archives \cup {None}, ddpIs : Archives \cup {None}]

MainRecord ==
  [pc : MainPCs, cfg : Wants \cup {None}, dev : Devices \cup {None}, todo : SUBSET Devices,
   queue : [Devices -> Paths], slot : Slots \cup {None}]

WorkerRecord ==
  [pc : WorkerPCs, queue : [Devices -> Paths], dev : Devices \cup {None}, todo : SUBSET Devices,
   tool : Archives \cup {None}, said : BOOLEAN, reboot : BOOLEAN, alone : BOOLEAN,
   behind : SUBSET Devices, cut : SUBSET Devices]

\* UpdateTypeOK with whole records.
RecordsOK ==
  /\ want \in Wants /\ server \in [Urls -> Archives]
  /\ files \in [Devices -> Folder \cup {None}]
  /\ main \in MainRecord
  /\ worker \in [Slots -> WorkerRecord]
  /\ dirty \in BOOLEAN
  /\ fw \in [Devices -> Archives \cup {Factory}]
  /\ ddp \in [Devices -> [Places -> Archives \cup {Factory}]]
  /\ asked \in [Devices -> SUBSET Archives]
  /\ trouble \in Nat

FWSteps == {"fwGet", "fwUntar", "fwFind"}
DDPSteps == {"ddpGet", "ddpUnpack", "ddpFind"}
DeviceSteps == {"fw", "running", "result", "ddp", "copied"}

\* Where main and a worker are says which of their fields mean something.
StepsOK ==
  /\ main.pc # "idle" => main.cfg \in Wants
  /\ main.pc \in FWSteps \cup DDPSteps => main.dev \in Devices
  /\ main.pc \in FWSteps => main.cfg[main.dev].fw # None
  /\ main.pc \in DDPSteps => main.cfg[main.dev].ddp # None
  /\ main.pc = "run" <=> main.slot # None
  /\ \A s \in Slots :
       /\ worker[s].pc \in DeviceSteps => worker[s].dev \in Devices
       /\ worker[s].pc = "copied" => worker[s].queue[worker[s].dev].ddp # None
       /\ worker[s].pc = "running" => worker[s].tool \in Archives

\* What can still reach a device was asked for: the files of its folder, what a
\* download that went well left to unpack, the tools that run.
AskedInv ==
  /\ \A d \in Devices : files[d] # None =>
       \A p \in Dirs : {files[d].tools[p], files[d].pkgs[p]} \subseteq asked[d] \cup {None}
  /\ main.pc \in {"fwUntar", "ddpUnpack"} => Archive(main.dev) \in asked[main.dev] \cup {None}
  /\ \A s \in Slots : worker[s].pc = "running" => worker[s].tool \in asked[worker[s].dev]
  /\ \A d \in Devices : {fw[d], ddp[d]["intel"], ddp[d]["updates"]} \subseteq asked[d] \cup {Factory}

\* What the paths of a queue entry lead to in a folder is what they led to when
\* the device was prepared, or nothing.
Leads(f, q) ==
  f # None => /\ q.fw # None => f.tools[q.fw] \in {None, q.fwIs}
              /\ q.ddp # None => f.pkgs[q.ddp] \in {None, q.ddpIs}

\* No paths yet for what is still to be prepared; and those that are there lead
\* home, but for the tool of a device whose DDP package was just unpacked over it.
QueueInv ==
  /\ main.pc # "idle" => \A d \in main.todo : main.queue[d].fw = None /\ main.queue[d].ddp = None
  /\ main.pc \in FWSteps => main.queue[main.dev].fw = None
  /\ main.pc \in FWSteps \cup DDPSteps => main.queue[main.dev].ddp = None /\ main.dev \notin main.todo
  /\ main.pc \notin {"idle", "run"} =>
       \A d \in Devices : ~(main.pc = "ddpFind" /\ d = main.dev) => Leads(files[d], main.queue[d])
  /\ main.pc = "run" => \A d \in Devices : Leads(files[d], worker[main.slot].queue[d])

\* A worker that is alone is the one that Run waits for, and the only one alive.
AloneInv ==
  \A s \in Slots : worker[s].alone /\ worker[s].pc # "off" =>
    main.slot = s /\ \A t \in Slots \ {s} : ~Alive(t)

\* Which devices of its queue a worker has behind it, for the FW and for the DDP.
FWDone(w) == Devices \ (w.todo \cup IF w.pc \in {"fw", "running"} THEN {w.dev} ELSE {})
DDPDone(w) == Devices \ (w.todo \cup IF w.pc \in DeviceSteps THEN {w.dev} ELSE {})

ResultOf(d) == IF files[d] = None THEN None ELSE files[d].result

\* A worker that is alone has stored what it has behind it, and knows of the
\* reboot that this takes; it runs the tool it was given.
StoredBy(w) ==
  /\ \A d \in FWDone(w) : w.queue[d].fw # None => fw[d] = w.queue[d].fwIs
  /\ \A d \in DDPDone(w) : w.queue[d].ddp # None =>
       w.reboot /\ \A p \in Places : ddp[d][p] = w.queue[d].ddpIs
  /\ w.pc = "running" => w.queue[w.dev].fw # None /\ w.tool = w.queue[w.dev].fwIs
  /\ w.pc = "copied" => ddp[w.dev]["intel"] = w.queue[w.dev].ddpIs
  /\ w.pc = "result" /\ w.dev \in w.behind =>
       w.said \/ ResultOf(w.dev) \in {None, "one", "unreadable", "cutBefore"}
  /\ w.reboot \/ w.behind \ w.cut \subseteq IF w.pc = "result" THEN {w.dev} ELSE {}
  /\ w.pc \in {"done", "reboot"} => w.todo = {} /\ (w.pc = "reboot" <=> w.reboot)
  /\ w.behind \subseteq FWDone(w) /\ (w.pc \in DeviceSteps => w.dev \notin w.todo)

StoredInv ==
  \A s \in Slots : worker[s].alone /\ worker[s].pc \notin {"off", "failed"} => StoredBy(worker[s])

-----------------------------------------------------------------------------
(* Types *)

\* The records the daemon starts with.
LEMMA IdleAndOff ==
  /\ Idle \in MainRecord
  /\ Idle.pc = "idle" /\ Idle.slot = None /\ Idle.cfg = None /\ Idle.todo = {} /\ Idle.dev = None
  /\ Idle.queue = NoPaths
  /\ Off \in WorkerRecord
  /\ Off.pc = "off" /\ Off.tool = None /\ Off.dev = None
  /\ NoPaths \in [Devices -> Paths]
  /\ \A d \in Devices : NoPaths[d].fw = None /\ NoPaths[d].ddp = None
  /\ NewFolder \in Folder
BY DEF Idle, Off, MainRecord, WorkerRecord, NoPaths, Paths, MainPCs, WorkerPCs, NewFolder, Folder, NoFiles, Result

\* A folder stays a folder under what main and the tools do to it.
LEMMA FolderUpdates ==
  ASSUME NEW f \in Folder, NEW a \in Archives, NEW r \in Result
  PROVE  /\ [f EXCEPT !.archive = a] \in Folder
         /\ [f EXCEPT !.archive = a].tools = f.tools /\ [f EXCEPT !.archive = a].pkgs = f.pkgs
         /\ [f EXCEPT !.archive = a].archive = a
         /\ [f EXCEPT !.result = r] \in Folder
         /\ [f EXCEPT !.result = r].tools = f.tools /\ [f EXCEPT !.result = r].pkgs = f.pkgs
         /\ [f EXCEPT !.result = r].archive = f.archive /\ [f EXCEPT !.result = r].result = r
         /\ Unpacked(f, a) \in Folder
         /\ \A p \in Dirs : /\ Unpacked(f, a).tools[p] \in {a, f.tools[p]}
                            /\ Unpacked(f, a).pkgs[p] \in {a, f.pkgs[p]}
         /\ Unpacked(f, a).archive = f.archive
BY DEF Folder, Unpacked

\* Put changes the folder of one device.
LEMMA PutEffect ==
  ASSUME RecordsOK, NEW d \in Devices, NEW f \in Folder, Put(d, f)
  PROVE  files' \in [Devices -> Folder \cup {None}] /\ files' = [files EXCEPT ![d] = f]
BY DEF RecordsOK, Put, TargetPath

\* A record of main, by its fields.
MainIs(n, l, c, d, t, q, s) ==
  n \in MainRecord /\ n.pc = l /\ n.cfg = c /\ n.dev = d /\ n.todo = t /\ n.queue = q /\ n.slot = s

\* main's record stays one under the updates of prepareUpdateQueue.
LEMMA MainGoto ==
  ASSUME NEW m \in MainRecord, NEW l \in MainPCs
  PROVE  MainIs([m EXCEPT !.pc = l], l, m.cfg, m.dev, m.todo, m.queue, m.slot)
BY DEF MainRecord, MainIs

\* main takes the next device of its list.
LEMMA MainNext ==
  ASSUME NEW m \in MainRecord, NEW l \in MainPCs, NEW d \in Devices, NEW t \in SUBSET Devices
  PROVE  MainIs([m EXCEPT !.dev = d, !.todo = t, !.pc = l], l, m.cfg, d, t, m.queue, m.slot)
BY DEF MainRecord, MainIs

\* main hands its queue to the worker in a slot.
LEMMA MainRuns ==
  ASSUME NEW m \in MainRecord, NEW l \in MainPCs, NEW s \in Slots
  PROVE  MainIs([m EXCEPT !.pc = l, !.slot = s], l, m.cfg, m.dev, m.todo, m.queue, s)
BY DEF MainRecord, MainIs

\* main notes the paths of one device in its queue.
LEMMA MainFinds ==
  ASSUME NEW m \in MainRecord, NEW l \in MainPCs, NEW d \in Devices, NEW q \in Paths
  PROVE  /\ MainIs([m EXCEPT !.queue[d] = q, !.pc = l],
                   l, m.cfg, m.dev, m.todo, [m.queue EXCEPT ![d] = q], m.slot)
         /\ MainIs([m EXCEPT !.pc = l, !.queue[d] = q],
                   l, m.cfg, m.dev, m.todo, [m.queue EXCEPT ![d] = q], m.slot)
         /\ \A e \in Devices : [m.queue EXCEPT ![d] = q][e] = IF e = d THEN q ELSE m.queue[e]
<1>1. [m.queue EXCEPT ![d] = q] \in [Devices -> Paths]
  BY DEF MainRecord
<1> QED
  BY <1>1 DEF MainRecord, MainIs

\* A worker's record, by what its steps change: all but the queue it was given.
WorkerIs(n, l, w, d, t, x, y, b, a) ==
  /\ n \in WorkerRecord /\ n.pc = l /\ n.queue = w.queue /\ n.dev = d /\ n.todo = t
  /\ n.tool = x /\ n.said = y /\ n.reboot = b /\ n.alone = a

\* A worker's record stays one when its lease is lost.
LEMMA WorkerLeft ==
  ASSUME NEW w \in WorkerRecord
  PROVE  LET n == [w EXCEPT !.alone = FALSE, !.behind = {}, !.cut = {}]
         IN WorkerIs(n, w.pc, w, w.dev, w.todo, w.tool, w.said, w.reboot, FALSE)
BY DEF WorkerRecord, WorkerIs

\* One worker's record is replaced.
LEMMA WorkerSet ==
  ASSUME RecordsOK, NEW s \in Slots, NEW w \in WorkerRecord, worker' = [worker EXCEPT ![s] = w]
  PROVE  /\ worker' \in [Slots -> WorkerRecord]
         /\ worker'[s] = w /\ \A t \in Slots \ {s} : worker'[t] = worker[t]
BY DEF RecordsOK

TypeInv == RecordsOK /\ StepsOK

\* A step that leaves main alone and changes one worker keeps the types.
LEMMA WorkerTypes ==
  ASSUME TypeInv, NEW s \in Slots, NEW w \in WorkerRecord,
         worker' = [worker EXCEPT ![s] = w],
         w.pc \in DeviceSteps => w.dev \in Devices,
         w.pc = "copied" => w.queue[w.dev].ddp # None,
         w.pc = "running" => w.tool \in Archives,
         UNCHANGED <<main, asked, envVars>>,
         files' \in [Devices -> Folder \cup {None}], dirty' \in BOOLEAN,
         fw' \in [Devices -> Archives \cup {Factory}],
         ddp' \in [Devices -> [Places -> Archives \cup {Factory}]],
         trouble' \in Nat
  PROVE  TypeInv'
<1>1. /\ worker' \in [Slots -> WorkerRecord]
      /\ worker'[s] = w /\ \A t \in Slots \ {s} : worker'[t] = worker[t]
  BY WorkerSet DEF TypeInv
<1>2. RecordsOK'
  BY <1>1 DEF TypeInv, RecordsOK, envVars
<1>3. StepsOK'
  BY <1>1 DEF TypeInv, StepsOK, envVars
<1> QED
  BY <1>2, <1>3 DEF TypeInv

\* A step of main that keeps the workers.
LEMMA MainTypes ==
  ASSUME TypeInv, UNCHANGED <<worker, envVars, devVars, trouble>>,
         main' \in MainRecord, dirty' \in BOOLEAN, files' \in [Devices -> Folder \cup {None}],
         asked' \in [Devices -> SUBSET Archives],
         main'.pc # "idle" => main'.cfg \in Wants,
         main'.pc \in FWSteps => main'.dev \in Devices /\ main'.cfg[main'.dev].fw # None,
         main'.pc \in DDPSteps => main'.dev \in Devices /\ main'.cfg[main'.dev].ddp # None,
         main'.pc = "run" <=> main'.slot # None
  PROVE  TypeInv'
BY DEF TypeInv, RecordsOK, StepsOK, envVars, devVars

\* What the steps of main that set no folder and end no process do to its record.
LEMMA TypePrepare ==
  ASSUME TypeInv, PrepareStart \/ PrepareDevice \/ PrepareStepFails
  PROVE  TypeInv'
<1> USE IdleAndOff
<1>0. main \in MainRecord /\ main.cfg \in Wants \cup {None} /\ main.todo \subseteq Devices /\ trouble \in Nat
  BY DEF TypeInv, RecordsOK, MainRecord
<1>1. CASE PrepareStart
  <2>1. main' \in MainRecord /\ main'.pc = "next" /\ main'.cfg = want /\ main'.slot = None
    BY <1>1 DEF PrepareStart, TypeInv, RecordsOK, MainRecord, Idle, MainPCs
  <2> QED
    BY <1>1, <2>1, MainTypes DEF PrepareStart, TypeInv, RecordsOK, FWSteps, DDPSteps
<1>2. CASE PrepareDevice
  <2> DEFINE d == CHOOSE e \in main.todo : TRUE
             l == CASE main.cfg[d].fw # None -> "fwGet"
                    [] main.cfg[d].fw = None /\ main.cfg[d].ddp # None -> "ddpGet"
                    [] OTHER -> "next"
  <2>1. d \in Devices /\ main.todo \ {d} \in SUBSET Devices
    BY <1>0, <1>2 DEF PrepareDevice
  <2>2. l \in MainPCs /\ l \in {"fwGet", "ddpGet", "next"}
    BY DEF MainPCs
  <2>3. MainIs(main', l, main.cfg, d, main.todo \ {d}, main.queue, main.slot)
    <3>1. main' = [main EXCEPT !.dev = d, !.todo = main.todo \ {d}, !.pc = l]
      BY <1>2 DEF PrepareDevice
    <3> HIDE DEF d, l
    <3> QED
      BY <1>0, <2>1, <2>2, <3>1, MainNext
  <2>4. /\ l = "fwGet" => main.cfg[d].fw # None
        /\ l = "ddpGet" => main.cfg[d].ddp # None
    OBVIOUS
  <2>5. main.cfg \in Wants /\ main.slot = None
    BY <1>2 DEF PrepareDevice, TypeInv, StepsOK
  <2>6. /\ UNCHANGED <<worker, envVars, devVars, trouble>>
        /\ dirty' \in BOOLEAN /\ files' \in [Devices -> Folder \cup {None}]
        /\ asked' \in [Devices -> SUBSET Archives]
    BY <1>2 DEF PrepareDevice, TypeInv, RecordsOK
  <2> HIDE DEF d, l
  <2> QED
    BY <2>1, <2>2, <2>3, <2>4, <2>5, <2>6, MainTypes DEF MainIs, FWSteps, DDPSteps
<1>3. CASE PrepareStepFails
  BY <1>0, <1>3 DEF PrepareStepFails, PrepareFails, Fault, TypeInv, RecordsOK, StepsOK, FWSteps, DDPSteps,
                    envVars, devVars
<1> QED
  BY <1>1, <1>2, <1>3

\* What DownloadFile does, for either package: the archive is there, and one whose
\* checksum fits is what the spec asked for.
Downloaded(d, a, next) ==
  /\ d = main.dev /\ d \in Devices /\ a \in Archives
  /\ files' = [files EXCEPT ![d] = [FolderOf(d) EXCEPT !.archive = a]]
  /\ asked' \in [Devices -> SUBSET Archives]
  /\ \A e \in Devices : asked[e] \subseteq asked'[e]
  /\ \/ /\ MainIs(main', next, main.cfg, d, main.todo, main.queue, None)
        /\ dirty' = dirty /\ a \in asked'[d]
     \/ main' = Idle /\ dirty' = TRUE
  /\ UNCHANGED <<envVars, devVars, worker, trouble>>

\* A download puts an archive into one folder; main goes on with an archive that
\* was asked for, or gives up.
LEMMA DownloadEffect ==
  ASSUME TypeInv
  PROVE  /\ DownloadFW => main.pc = "fwGet" /\ \E a : Downloaded(main.dev, a, "fwUntar")
         /\ DownloadDDP => main.pc = "ddpGet" /\ \E a : Downloaded(main.dev, a, "ddpUnpack")
<1>0. main \in MainRecord
  BY DEF TypeInv, RecordsOK
<1>1. ASSUME NEW url \in Urls, NEW sum, NEW pc \in {"fwGet", "ddpGet"},
             NEW next \in {"fwUntar", "ddpUnpack"}, Download(pc, url, sum, next), main.dev \in Devices
      PROVE  \E a : Downloaded(main.dev, a, next)
  <2> DEFINE a == server[url]
             d == main.dev
  <2>1. a \in Archives /\ main.slot = None /\ d \in Devices
    BY <1>1 DEF TypeInv, RecordsOK, StepsOK, Download
  <2>2. FolderOf(main.dev) \in Folder
    BY <2>1 DEF FolderOf, TypeInv, RecordsOK, NewFolder, Folder, NoFiles, Result
  <2>3. [FolderOf(main.dev) EXCEPT !.archive = a] \in Folder
    BY <2>1, <2>2, FolderUpdates DEF Result
  <2>4. files' = [files EXCEPT ![d] = [FolderOf(d) EXCEPT !.archive = a]]
    BY <1>1, <2>1, <2>3, PutEffect DEF Download, TypeInv
  <2>5. /\ asked' = [asked EXCEPT ![d] = IF sum \in {None, a} THEN @ \cup {a} ELSE @]
        /\ UNCHANGED <<envVars, devVars, worker, trouble>>
        /\ \/ main' = [main EXCEPT !.pc = next] /\ dirty' = dirty /\ sum \in {None, a}
           \/ main' = Idle /\ dirty' = TRUE
    BY <1>1 DEF Download, PrepareFails, goto, ChecksumFits
  <2>6. /\ asked' \in [Devices -> SUBSET Archives]
        /\ \A e \in Devices : asked[e] \subseteq asked'[e]
        /\ sum \in {None, a} => a \in asked'[d]
    BY <2>1, <2>5 DEF TypeInv, RecordsOK
  <2>7. main' = [main EXCEPT !.pc = next] => MainIs(main', next, main.cfg, d, main.todo, main.queue, None)
    BY <1>0, <1>1, <2>1, MainGoto DEF MainPCs
  <2> QED
    BY <2>1, <2>4, <2>5, <2>6, <2>7 DEF Downloaded
<1>2. main.pc \in FWSteps \cup DDPSteps => main.dev \in Devices /\ main.cfg[main.dev] \in Request
  BY WantsAssumption DEF TypeInv, StepsOK, FWSteps, DDPSteps
<1>3. CASE DownloadFW
  <2>1. main.pc = "fwGet" /\ main.cfg[main.dev].fw # None /\ ~DownloadDDP
    BY <1>3 DEF DownloadFW, DownloadDDP, Download, TypeInv, StepsOK, FWSteps
  <2>2. main.cfg[main.dev].fw \in Urls /\ main.dev \in Devices
    BY <1>2, <2>1 DEF Request, FWSteps
  <2> QED
    BY <1>1, <1>3, <2>1, <2>2 DEF DownloadFW
<1>4. CASE DownloadDDP
  <2>1. main.pc = "ddpGet" /\ main.cfg[main.dev].ddp # None /\ ~DownloadFW
    BY <1>4 DEF DownloadFW, DownloadDDP, Download, TypeInv, StepsOK, DDPSteps
  <2>2. main.cfg[main.dev].ddp \in Urls /\ main.dev \in Devices
    BY <1>2, <2>1 DEF Request, DDPSteps
  <2> QED
    BY <1>1, <1>4, <2>1, <2>2 DEF DownloadDDP
<1> QED
  BY <1>3, <1>4

\* Downloads keep the types.
LEMMA TypeDownload ==
  ASSUME TypeInv, DownloadFW \/ DownloadDDP
  PROVE  TypeInv'
<1> USE IdleAndOff
<1>1. PICK a, next : /\ Downloaded(main.dev, a, next)
                     /\ \/ main.pc = "fwGet" /\ next = "fwUntar"
                        \/ main.pc = "ddpGet" /\ next = "ddpUnpack"
  <2>1. CASE DownloadFW
    BY <2>1, DownloadEffect, Zenon
  <2>2. CASE DownloadDDP
    BY <2>2, DownloadEffect, Zenon
  <2> QED
    BY <2>1, <2>2
<1>2. main.cfg \in Wants
  BY <1>1 DEF TypeInv, StepsOK
<1>3. /\ main.pc = "fwGet" => main.cfg[main.dev].fw # None
      /\ main.pc = "ddpGet" => main.cfg[main.dev].ddp # None
  BY DEF TypeInv, StepsOK, FWSteps, DDPSteps
<1>4. FolderOf(main.dev) \in Folder
  BY <1>1 DEF FolderOf, TypeInv, RecordsOK, Downloaded
<1>5. [FolderOf(main.dev) EXCEPT !.archive = a] \in Folder
  BY <1>1, <1>4, FolderUpdates DEF Result, Downloaded
<1>6. files' \in [Devices -> Folder \cup {None}]
  BY <1>1, <1>5 DEF Downloaded, TypeInv, RecordsOK
<1>7. CASE main' = Idle
  BY <1>1, <1>6, <1>7, MainTypes DEF Downloaded, FWSteps, DDPSteps, TypeInv, RecordsOK
<1>8. CASE MainIs(main', next, main.cfg, main.dev, main.todo, main.queue, None)
  <2>1. dirty' \in BOOLEAN
    BY <1>1 DEF Downloaded, TypeInv, RecordsOK
  <2> QED
    BY <1>1, <1>2, <1>3, <1>6, <1>8, <2>1, MainTypes DEF Downloaded, MainIs, FWSteps, DDPSteps
<1> QED
  BY <1>1, <1>7, <1>8 DEF Downloaded

\* What untarring or unzipping does, for either package: files of an archive that
\* is there come into the folder of the device, all of them or not.
UnpackedTo(d, next) ==
  /\ d = main.dev /\ d \in Devices
  /\ \/ /\ MainIs(main', next, main.cfg, d, main.todo, main.queue, None) /\ dirty' = dirty
        /\ Archive(d) \in Archives
        /\ files' = [files EXCEPT ![d] = Unpacked(files[d], files[d].archive)]
     \/ /\ main' = Idle /\ dirty' = TRUE
        /\ \/ UNCHANGED files
           \/ /\ Archive(d) \in Archives
              /\ files' = [files EXCEPT ![d] = Unpacked(files[d], files[d].archive)]
  /\ UNCHANGED <<envVars, devVars, worker, asked, trouble>>

\* Unpacking leaves a folder as it is or with the files of its archive; main goes
\* on only with the files.
LEMMA UnpackEffect ==
  ASSUME TypeInv
  PROVE  /\ UntarFW => main.pc = "fwUntar" /\ UnpackedTo(main.dev, "fwFind")
         /\ UnpackDDPArchive => main.pc = "ddpUnpack" /\ UnpackedTo(main.dev, "ddpFind")
<1>0. main \in MainRecord
  BY DEF TypeInv, RecordsOK
<1>1. ASSUME NEW pc \in {"fwUntar", "ddpUnpack"}, NEW formats, NEW next \in {"fwFind", "ddpFind"},
             Unpack(pc, formats, next)
      PROVE  UnpackedTo(main.dev, next)
  <2> DEFINE d == main.dev
             f == files[d]
  <2>1. d \in Devices /\ main.slot = None
    BY <1>1 DEF Unpack, TypeInv, RecordsOK, StepsOK, FWSteps, DDPSteps
  <2>2. Archive(d) # None => f \in Folder /\ f.archive \in Archives /\ Archive(d) \in Archives
    BY <2>1 DEF TypeInv, RecordsOK, Archive, Folder
  <2>3. Archive(d) # None => Unpacked(f, f.archive) \in Folder
    BY <2>2, FolderUpdates DEF Result
  <2>4. Put(d, Unpacked(f, f.archive)) /\ Archive(d) # None =>
          files' = [files EXCEPT ![d] = Unpacked(f, f.archive)]
    BY <2>1, <2>3, PutEffect DEF TypeInv
  <2>5. Put(d, f) /\ Archive(d) # None => UNCHANGED files
    BY <2>1, <2>2 DEF Put, TargetPath, TypeInv, RecordsOK
  <2>6. goto(next) => MainIs(main', next, main.cfg, d, main.todo, main.queue, None)
    BY <1>0, <1>1, <2>1, MainGoto DEF MainPCs, goto
  <2> QED
    BY <1>1, <2>1, <2>2, <2>4, <2>5, <2>6 DEF Unpack, UnpackedTo, PrepareFails
<1> QED
  BY <1>1 DEF UntarFW, UnpackDDPArchive, Unpack

\* Unpacking keeps the types.
LEMMA TypeUnpack ==
  ASSUME TypeInv, UntarFW \/ UnpackDDPArchive
  PROVE  TypeInv'
<1> USE IdleAndOff
<1>1. PICK next : /\ UnpackedTo(main.dev, next)
                  /\ \/ main.pc = "fwUntar" /\ next = "fwFind"
                     \/ main.pc = "ddpUnpack" /\ next = "ddpFind"
  <2>1. CASE UntarFW
    BY <2>1, UnpackEffect, Zenon
  <2>2. CASE UnpackDDPArchive
    BY <2>2, UnpackEffect, Zenon
  <2> QED
    BY <2>1, <2>2
<1>2. /\ main.cfg \in Wants
      /\ main.pc = "fwUntar" => main.cfg[main.dev].fw # None
      /\ main.pc = "ddpUnpack" => main.cfg[main.dev].ddp # None
  BY <1>1 DEF TypeInv, StepsOK, FWSteps, DDPSteps
<1>3. Archive(main.dev) \in Archives => Unpacked(files[main.dev], files[main.dev].archive) \in Folder
  <2> SUFFICES ASSUME Archive(main.dev) \in Archives
               PROVE  Unpacked(files[main.dev], files[main.dev].archive) \in Folder
    OBVIOUS
  <2>1. files[main.dev] \in Folder /\ files[main.dev].archive \in Archives
    BY <1>1, NamesAssumption DEF Archive, TypeInv, RecordsOK, UnpackedTo
  <2> QED
    BY <2>1, FolderUpdates DEF Result
<1>4. files' \in [Devices -> Folder \cup {None}] /\ dirty' \in BOOLEAN /\ asked' \in [Devices -> SUBSET Archives]
  BY <1>1, <1>3 DEF UnpackedTo, TypeInv, RecordsOK
<1>5. CASE main' = Idle
  BY <1>1, <1>4, <1>5, MainTypes DEF UnpackedTo, FWSteps, DDPSteps
<1>6. CASE MainIs(main', next, main.cfg, main.dev, main.todo, main.queue, None)
  BY <1>1, <1>2, <1>4, <1>6, MainTypes DEF UnpackedTo, MainIs, FWSteps, DDPSteps
<1> QED
  BY <1>1, <1>5, <1>6 DEF UnpackedTo

\* Exactly one tool, or one profile, is found, and goes into the queue; or the
\* preparation fails.
FoundOne(d, p, q) ==
  /\ d = main.dev /\ d \in Devices /\ p \in Dirs /\ q \in Paths /\ files[d] \in Folder /\ files[d] # None
  /\ MainIs(main', main'.pc, main.cfg, d, main.todo, [main.queue EXCEPT ![d] = q], None)
  /\ \A e \in Devices : main'.queue[e] = IF e = d THEN q ELSE main.queue[e]
  /\ dirty' = dirty

FindFails == main' = Idle /\ dirty' = TRUE

FindRest == UNCHANGED <<envVars, devVars, files, worker, asked, trouble>>

\* findFwExec gives the place of the tool.
LEMMA FindFWEffect ==
  ASSUME TypeInv, FindFW
  PROVE  /\ main.pc = "fwFind" /\ FindRest
         /\ \/ FindFails
            \/ \E p, q :
                 /\ FoundOne(main.dev, p, q)
                 /\ q.fw = p /\ q.fwIs = files[main.dev].tools[p]
                 /\ q.ddp = main.queue[main.dev].ddp /\ q.ddpIs = main.queue[main.dev].ddpIs
                 /\ \/ main'.pc = "ddpGet" /\ main.cfg[main.dev].ddp # None
                    \/ main'.pc = "next"
<1> DEFINE d == main.dev
           f == files[d]
<1>1. /\ main \in MainRecord /\ d \in Devices /\ main.slot = None /\ f \in Folder /\ main.pc = "fwFind"
      /\ f # None
  BY DEF FindFW, TypeInv, RecordsOK, StepsOK, FWSteps, DDPSteps
<1>2. FindRest
  BY DEF FindFW, FindRest
<1>3. CASE PrepareFails
  BY <1>1, <1>2, <1>3 DEF PrepareFails, FindFails
<1>4. CASE ~PrepareFails
  <2> DEFINE l == IF main.cfg[d].ddp # None THEN "ddpGet" ELSE "next"
  <2>1. PICK p \in Found(f.tools) :
          main' = [main EXCEPT !.queue[d] = [main.queue[d] EXCEPT !.fw = p, !.fwIs = f.tools[p]], !.pc = l]
    BY <1>4 DEF FindFW
  <2>2. dirty' = dirty
    BY <1>4 DEF FindFW
  <2> DEFINE q == [main.queue[d] EXCEPT !.fw = p, !.fwIs = f.tools[p]]
  <2>3. p \in Dirs /\ main.queue[d] \in Paths /\ f.tools[p] \in Archives \cup {None}
    BY <1>1 DEF Found, MainRecord, Folder
  <2>4. /\ q \in Paths /\ q.fw = p /\ q.fwIs = f.tools[p]
        /\ q.ddp = main.queue[d].ddp /\ q.ddpIs = main.queue[d].ddpIs
    BY <2>3 DEF Paths
  <2>5. l \in MainPCs /\ ((l = "ddpGet" /\ main.cfg[d].ddp # None) \/ l = "next")
    BY DEF MainPCs
  <2>6. main' = [main EXCEPT !.queue[d] = q, !.pc = l]
    BY <2>1
  <2> HIDE DEF q, l
  <2>7. /\ MainIs(main', l, main.cfg, d, main.todo, [main.queue EXCEPT ![d] = q], None)
        /\ \A e \in Devices : [main.queue EXCEPT ![d] = q][e] = IF e = d THEN q ELSE main.queue[e]
    BY <1>1, <2>4, <2>5, <2>6, MainFinds
  <2>8. FoundOne(d, p, q) /\ main'.pc = l
    BY <1>1, <2>2, <2>3, <2>4, <2>7 DEF FoundOne, MainIs
  <2> QED
    BY <1>1, <1>2, <2>4, <2>5, <2>8, Zenon
<1> QED
  BY <1>3, <1>4

\* findDdpProfile gives the place of the profile.
LEMMA FindDDPEffect ==
  ASSUME TypeInv, FindDDP
  PROVE  /\ main.pc = "ddpFind" /\ FindRest
         /\ \/ FindFails
            \/ \E p, q :
                 /\ FoundOne(main.dev, p, q)
                 /\ q.fw = main.queue[main.dev].fw
                 /\ q.fw # None => q.fwIs = files[main.dev].tools[q.fw]
                 /\ q.ddp = p /\ q.ddpIs = files[main.dev].pkgs[p]
                 /\ main'.pc = "next"
<1> DEFINE d == main.dev
           f == files[d]
<1>1. /\ main \in MainRecord /\ d \in Devices /\ main.slot = None /\ f \in Folder /\ main.pc = "ddpFind"
      /\ f # None
  BY DEF FindDDP, TypeInv, RecordsOK, StepsOK, FWSteps, DDPSteps
<1>2. FindRest
  BY DEF FindDDP, FindRest
<1>3. CASE PrepareFails
  BY <1>1, <1>2, <1>3 DEF PrepareFails, FindFails
<1>4. CASE ~PrepareFails
  <2> DEFINE o == main.queue[d]
             b == IF o.fw = None THEN None ELSE f.tools[o.fw]
  <2>1. PICK p \in Found(f.pkgs) :
          main' = [main EXCEPT !.pc = "next", !.queue[d] =
                     [o EXCEPT !.ddp = p, !.ddpIs = f.pkgs[p], !.fwIs = b]]
    BY <1>4 DEF FindDDP
  <2>2. dirty' = dirty
    BY <1>4 DEF FindDDP
  <2> DEFINE q == [o EXCEPT !.ddp = p, !.ddpIs = f.pkgs[p], !.fwIs = b]
  <2>3. p \in Dirs /\ o \in Paths /\ f.pkgs[p] \in Archives \cup {None}
    BY <1>1 DEF Found, MainRecord, Folder
  <2>4. b \in Archives \cup {None} /\ (o.fw # None => b = f.tools[o.fw])
    BY <1>1, <2>3 DEF Folder, Paths
  <2> HIDE DEF b, o
  <2>5. /\ q \in Paths /\ q.ddp = p /\ q.ddpIs = f.pkgs[p]
        /\ q.fw = o.fw /\ q.fwIs = b
    BY <2>3, <2>4 DEF Paths
  <2>6. main' = [main EXCEPT !.pc = "next", !.queue[d] = q]
    BY <2>1
  <2> HIDE DEF q
  <2>7. /\ MainIs(main', "next", main.cfg, d, main.todo, [main.queue EXCEPT ![d] = q], None)
        /\ \A e \in Devices : [main.queue EXCEPT ![d] = q][e] = IF e = d THEN q ELSE main.queue[e]
    <3> DEFINE l == "next"
    <3>1. l \in MainPCs /\ main' = [main EXCEPT !.pc = l, !.queue[d] = q]
      BY <2>6 DEF MainPCs
    <3> HIDE DEF l
    <3>2. /\ MainIs(main', l, main.cfg, d, main.todo, [main.queue EXCEPT ![d] = q], main.slot)
          /\ \A e \in Devices : [main.queue EXCEPT ![d] = q][e] = IF e = d THEN q ELSE main.queue[e]
      BY <1>1, <2>5, <3>1, MainFinds
    <3> QED
      BY <1>1, <3>2 DEF l
  <2>8. FoundOne(d, p, q) /\ main'.pc = "next"
    BY <1>1, <2>2, <2>3, <2>5, <2>7 DEF FoundOne, MainIs
  <2>9. q.fw = main.queue[main.dev].fw /\ (q.fw # None => q.fwIs = files[main.dev].tools[q.fw])
    BY <2>4, <2>5 DEF o
  <2> QED
    BY <1>1, <1>2, <2>5, <2>8, <2>9, Zenon
<1> QED
  BY <1>3, <1>4

\* Looking for the tool and the profile keeps the types.
LEMMA TypeFind ==
  ASSUME TypeInv, FindFW \/ FindDDP
  PROVE  TypeInv'
<1> USE IdleAndOff
<1>1. /\ FindRest
      /\ \/ FindFails
         \/ \E p, q : FoundOne(main.dev, p, q) /\ ((main'.pc = "ddpGet" /\ main.cfg[main.dev].ddp # None)
                                                   \/ main'.pc = "next")
  <2>1. CASE FindFW
    BY <2>1, FindFWEffect, Zenon
  <2>2. CASE FindDDP
    BY <2>2, FindDDPEffect, Zenon
  <2> QED
    BY <2>1, <2>2
<1>2. main.pc \in {"fwFind", "ddpFind"} /\ main.cfg \in Wants
  BY DEF FindFW, FindDDP, TypeInv, StepsOK
<1>3. /\ files' \in [Devices -> Folder \cup {None}] /\ asked' \in [Devices -> SUBSET Archives]
      /\ dirty \in BOOLEAN
  BY <1>1 DEF FindRest, TypeInv, RecordsOK
<1>4. CASE FindFails
  BY <1>1, <1>3, <1>4, MainTypes DEF FindRest, FindFails, FWSteps, DDPSteps
<1>5. ASSUME NEW p, NEW q, FoundOne(main.dev, p, q),
             (main'.pc = "ddpGet" /\ main.cfg[main.dev].ddp # None) \/ main'.pc = "next"
      PROVE  TypeInv'
  BY <1>1, <1>2, <1>3, <1>5, MainTypes DEF FindRest, FoundOne, MainIs, FWSteps, DDPSteps
<1> QED
  BY <1>1, <1>4, <1>5

\* A fault uses up some trouble.
LEMMA FaultEffect ==
  ASSUME TypeInv, Fault
  PROVE  trouble' \in Nat
BY DEF Fault, TypeInv, RecordsOK

\* The end of the process: nothing runs any more; at most one tool did its work.
LEMMA ProcessEndsEffect ==
  ASSUME TypeInv, ProcessEnds
  PROVE  /\ main' = Idle /\ dirty' = TRUE /\ worker' = [s \in Slots |-> Off]
         /\ \A d \in Devices :
              \/ fw'[d] = fw[d]
              \/ \E s \in Slots : worker[s].pc = "running" /\ worker[s].dev = d /\ fw'[d] = worker[s].tool
         /\ fw' \in [Devices -> Archives \cup {Factory}]
<1>1. CASE fw' = fw
  BY <1>1 DEF ProcessEnds, TypeInv, RecordsOK
<1>2. ASSUME NEW s \in Slots, worker[s].pc = "running", fw' = [fw EXCEPT ![worker[s].dev] = worker[s].tool]
      PROVE  /\ \A d \in Devices : fw'[d] = fw[d] \/ (worker[s].dev = d /\ fw'[d] = worker[s].tool)
             /\ fw' \in [Devices -> Archives \cup {Factory}]
  <2>1. worker[s].tool \in Archives /\ worker[s].dev \in Devices
    BY <1>2 DEF TypeInv, StepsOK, DeviceSteps
  <2>2. fw \in [Devices -> Archives \cup {Factory}]
    BY DEF TypeInv, RecordsOK
  <2>3. PICK e \in Devices, a \in Archives : e = worker[s].dev /\ a = worker[s].tool
    BY <2>1
  <2>4. fw' = [fw EXCEPT ![e] = a]
    BY <1>2, <2>3
  <2>5. fw' \in [Devices -> Archives \cup {Factory}] /\ \A d \in Devices : fw'[d] = IF d = e THEN a ELSE fw[d]
    BY <2>2, <2>4
  <2> QED
    BY <2>3, <2>5
<1> QED
  BY <1>1, <1>2 DEF ProcessEnds

\* A panic, a crash, a reboot and the end of Run keep the types.
LEMMA TypeEnds ==
  ASSUME TypeInv, FindPanics \/ Crash \/ (\E s \in Slots : Reboot(s))
  PROVE  TypeInv'
<1> USE IdleAndOff
<1>1. CASE FindPanics \/ Crash
  <2>1. ProcessEnds /\ UNCHANGED <<want, server, files, ddp, asked>> /\ trouble' \in Nat
    BY <1>1 DEF FindPanics, Crash, Fault, envVars, TypeInv, RecordsOK
  <2>2. /\ main' = Idle /\ dirty' = TRUE /\ worker' = [s \in Slots |-> Off]
        /\ fw' \in [Devices -> Archives \cup {Factory}]
    BY <2>1, ProcessEndsEffect
  <2>3. RecordsOK'
    BY <2>1, <2>2 DEF TypeInv, RecordsOK
  <2>4. StepsOK'
    BY <2>2 DEF StepsOK, FWSteps, DDPSteps, DeviceSteps
  <2> QED
    BY <2>3, <2>4 DEF TypeInv
<1>2. ASSUME NEW s \in Slots, Reboot(s)
      PROVE  TypeInv'
  BY <1>2 DEF Reboot, TypeInv, RecordsOK, StepsOK, FWSteps, DDPSteps, DeviceSteps, envVars
<1> QED
  BY <1>1, <1>2

\* Run starts a worker in a slot that is free, and gives it the queue.
LEMMA RunStartEffect ==
  ASSUME TypeInv, RunStart
  PROVE  \E s \in Slots, w \in WorkerRecord :
           /\ worker[s].pc = "off" /\ worker' = [worker EXCEPT ![s] = w]
           /\ MainIs(main', "run", main.cfg, main.dev, main.todo, main.queue, s)
           /\ w.pc = "next" /\ w.queue = main.queue /\ w.todo = Devices /\ w.reboot = FALSE
           /\ w.behind = {} /\ w.alone = (Others(s) = {})
           /\ main.pc = "next" /\ main.todo = {}
           /\ UNCHANGED <<envVars, devVars, files, dirty, asked, trouble>>
<1> DEFINE s == CHOOSE t \in Slots : worker[t].pc = "off"
           w == [Off EXCEPT !.pc = "next", !.queue = main.queue, !.todo = Devices, !.alone = (Others(s) = {})]
<1>1. s \in Slots /\ worker[s].pc = "off"
  BY DEF RunStart
<1>2. /\ main \in MainRecord /\ main.queue \in [Devices -> Paths]
  BY DEF TypeInv, RecordsOK, MainRecord
<1>3. PICK b \in BOOLEAN : b = (Others(s) = {})
  OBVIOUS
<1>4. /\ w \in WorkerRecord /\ w.pc = "next" /\ w.queue = main.queue /\ w.todo = Devices
      /\ w.reboot = FALSE /\ w.alone = (Others(s) = {}) /\ w.behind = {}
  <2>1. w = [Off EXCEPT !.pc = "next", !.queue = main.queue, !.todo = Devices, !.alone = b]
    BY <1>3
  <2> HIDE DEF w
  <2>2. /\ w \in WorkerRecord /\ w.pc = "next" /\ w.queue = main.queue /\ w.todo = Devices
        /\ w.reboot = FALSE /\ w.alone = b /\ w.behind = {}
    <3>1. PICK q \in [Devices -> Paths] : q = main.queue
      BY <1>2
    <3>2. w = [Off EXCEPT !.pc = "next", !.queue = q, !.todo = Devices, !.alone = b]
      BY <2>1, <3>1
    <3> QED
      BY <3>1, <3>2, IdleAndOff DEF Off, WorkerRecord, WorkerPCs
  <2> QED
    BY <1>3, <2>2
<1>5. worker' = [worker EXCEPT ![s] = w] /\ main' = [main EXCEPT !.pc = "run", !.slot = s]
  BY DEF RunStart
<1>6. main.pc = "next" /\ main.todo = {} /\ UNCHANGED <<envVars, devVars, files, dirty, asked, trouble>>
  BY DEF RunStart
<1> HIDE DEF s, w
<1>7. MainIs(main', "run", main.cfg, main.dev, main.todo, main.queue, s)
  <2>1. "run" \in MainPCs
    BY DEF MainPCs
  <2> QED
    BY <1>1, <1>2, <1>5, <2>1, MainRuns
<1> QED
  BY <1>1, <1>4, <1>5, <1>6, <1>7

\* The start and the end of Run keep the types.
LEMMA TypeRun ==
  ASSUME TypeInv, RunStart \/ LoseLease \/ RunReturns \/ (\E s \in Slots : LeftoverEnds(s))
  PROVE  TypeInv'
<1> USE IdleAndOff
<1>1. CASE RunStart
  <2>1. PICK s \in Slots, w \in WorkerRecord :
           /\ worker[s].pc = "off" /\ worker' = [worker EXCEPT ![s] = w]
           /\ MainIs(main', "run", main.cfg, main.dev, main.todo, main.queue, s)
           /\ w.pc = "next" /\ main.pc = "next"
           /\ UNCHANGED <<envVars, devVars, files, dirty, asked, trouble>>
    BY <1>1, RunStartEffect
  <2>2. /\ worker' \in [Slots -> WorkerRecord]
        /\ worker'[s] = w /\ \A t \in Slots \ {s} : worker'[t] = worker[t]
    BY <2>1, WorkerSet DEF TypeInv
  <2>3. RecordsOK'
    BY <2>1, <2>2 DEF TypeInv, RecordsOK, MainIs, envVars, devVars
  <2>4. main.cfg \in Wants /\ s # None
    BY <2>1, NamesAssumption DEF TypeInv, StepsOK
  <2>5. StepsOK'
    BY <2>1, <2>2, <2>4 DEF TypeInv, StepsOK, MainIs, FWSteps, DDPSteps, DeviceSteps
  <2> QED
    BY <2>3, <2>5 DEF TypeInv
<1>2. CASE LoseLease
  <2>1. \A s \in Slots : /\ worker'[s] \in WorkerRecord
                         /\ worker'[s].pc = worker[s].pc /\ worker'[s].dev = worker[s].dev
                         /\ worker'[s].queue = worker[s].queue /\ worker'[s].tool = worker[s].tool
    <3> TAKE s \in Slots
    <3>1. worker[s] \in WorkerRecord
      BY DEF TypeInv, RecordsOK
    <3>2. worker'[s] \in {worker[s], [worker[s] EXCEPT !.alone = FALSE, !.behind = {}, !.cut = {}]}
      BY <1>2 DEF LoseLease
    <3> QED
      BY <3>1, <3>2, WorkerLeft DEF WorkerIs
  <2>2. worker' \in [Slots -> WorkerRecord]
    BY <1>2, <2>1 DEF LoseLease
  <2>3. RecordsOK'
    <3>1. trouble' \in Nat
      BY <1>2, FaultEffect DEF LoseLease
    <3>2. main' = Idle /\ UNCHANGED <<want, server, fw, ddp, files, dirty, asked>>
      BY <1>2 DEF LoseLease, envVars, devVars
    <3> QED
      BY <2>2, <3>1, <3>2 DEF TypeInv, RecordsOK
  <2>4. StepsOK'
    <3>1. main' = Idle
      BY <1>2 DEF LoseLease
    <3> QED
      BY <2>1, <3>1 DEF TypeInv, StepsOK, FWSteps, DDPSteps, DeviceSteps
  <2> QED
    BY <2>3, <2>4 DEF TypeInv
<1>3. CASE RunReturns
  <2>1. main.slot \in Slots
    BY <1>3 DEF RunReturns, TypeInv, RecordsOK, StepsOK, MainRecord
  <2>2. /\ worker' \in [Slots -> WorkerRecord]
        /\ worker'[main.slot] = Off /\ \A t \in Slots \ {main.slot} : worker'[t] = worker[t]
    BY <1>3, <2>1, WorkerSet DEF RunReturns, TypeInv
  <2>3. RecordsOK'
    BY <1>3, <2>2 DEF RunReturns, TypeInv, RecordsOK, envVars, devVars
  <2>4. StepsOK'
    BY <1>3, <2>1, <2>2 DEF RunReturns, TypeInv, StepsOK, FWSteps, DDPSteps, DeviceSteps
  <2> QED
    BY <2>3, <2>4 DEF TypeInv
<1>4. ASSUME NEW s \in Slots, LeftoverEnds(s)
      PROVE  TypeInv'
  BY <1>4, WorkerTypes DEF LeftoverEnds, TypeInv, RecordsOK, DeviceSteps, envVars, devVars
<1> QED
  BY <1>1, <1>2, <1>3, <1>4

\* A step of drainFunc of worker s, by the record v it leaves: its place, device,
\* devices to do, tool, what the tool said, whether a reboot is due.
WorkerMoves(s, v, l, d, t, x, y, b) ==
  /\ WorkerIs(v, l, worker[s], d, t, x, y, b, worker[s].alone)
  /\ worker' = [worker EXCEPT ![s] = v]
  /\ UNCHANGED <<main, dirty, asked, envVars>>

\* drainFunc takes the next device.
LEMMA NextDeviceEffect ==
  ASSUME TypeInv, NEW s \in Slots, NEW d \in Devices, NextDevice(s, d)
  PROVE  LET w == worker[s]
         IN /\ w.pc = "next" /\ d \in w.todo /\ UNCHANGED <<devVars, files, trouble>>
            /\ \E v : /\ WorkerMoves(s, v, "fw", d, w.todo \ {d}, w.tool, w.said, w.reboot)
                      /\ v.behind = w.behind /\ v.cut = w.cut
<1>1. PICK w \in WorkerRecord : w = worker[s]
  BY DEF TypeInv, RecordsOK
<1>2. PICK t \in SUBSET Devices : t = w.todo \ {d}
  BY <1>1 DEF WorkerRecord
<1>3. PICK l \in WorkerPCs : l = "fw"
  BY DEF WorkerPCs
<1>4. PICK v : v = [w EXCEPT !.dev = d, !.todo = t, !.pc = l]
  OBVIOUS
<1>5. WorkerIs(v, l, w, d, t, w.tool, w.said, w.reboot, w.alone) /\ v.behind = w.behind /\ v.cut = w.cut
  BY <1>4 DEF WorkerIs, WorkerRecord
<1>6. worker' = [worker EXCEPT ![s] = v]
  BY <1>1, <1>2, <1>3, <1>4 DEF NextDevice
<1>7. /\ w.pc = "next" /\ d \in w.todo
      /\ UNCHANGED <<main, dirty, asked, envVars>> /\ UNCHANGED <<devVars, files, trouble>>
  BY <1>1 DEF NextDevice
<1> QED
  BY <1>1, <1>2, <1>3, <1>5, <1>6, <1>7 DEF WorkerMoves

\* A step that only moves a worker on.
LEMMA StepEffect ==
  ASSUME TypeInv, NEW s \in Slots, NEW l \in WorkerPCs, Step(s, l), UNCHANGED <<main, dirty, asked, envVars>>
  PROVE  LET w == worker[s]
         IN \E v : /\ WorkerMoves(s, v, l, w.dev, w.todo, w.tool, w.said, w.reboot)
                   /\ v.behind = w.behind /\ v.cut = w.cut
<1>1. PICK w \in WorkerRecord : w = worker[s]
  BY DEF TypeInv, RecordsOK
<1>2. PICK v : v = [w EXCEPT !.pc = l]
  OBVIOUS
<1>3. /\ WorkerIs(v, l, w, w.dev, w.todo, w.tool, w.said, w.reboot, w.alone)
      /\ v.behind = w.behind /\ v.cut = w.cut
  BY <1>2 DEF WorkerIs, WorkerRecord
<1>4. worker' = [worker EXCEPT ![s] = v]
  BY <1>1, <1>2 DEF Step
<1> QED
  BY <1>1, <1>3, <1>4 DEF WorkerMoves

\* handleFWUpdate starts the tool that is where the path leads, if any.
LEMMA ToolStartEffect ==
  ASSUME TypeInv, NEW s \in Slots, ToolStart(s)
  PROVE  LET w == worker[s]
             d == w.dev
             p == w.queue[d].fw
         IN /\ w.pc = "fw" /\ d \in Devices /\ UNCHANGED <<devVars, files, trouble>>
            /\ \E v :
                 /\ \/ p = None /\ WorkerMoves(s, v, "ddp", d, w.todo, w.tool, w.said, w.reboot)
                    \/ WorkerMoves(s, v, "failed", d, w.todo, w.tool, w.said, w.reboot)
                    \/ /\ p \in Dirs /\ files[d] # None /\ files[d] \in Folder
                       /\ files[d].tools[p] \in Archives
                       /\ WorkerMoves(s, v, "running", d, w.todo, files[d].tools[p], w.said, w.reboot)
                 /\ v.behind = w.behind /\ v.cut = w.cut
<1>1. PICK w \in WorkerRecord : w = worker[s]
  BY DEF TypeInv, RecordsOK
<1> DEFINE d == w.dev
           p == w.queue[d].fw
<1>2. /\ w.pc = "fw" /\ d \in Devices /\ UNCHANGED <<devVars, files, trouble>>
      /\ UNCHANGED <<main, dirty, asked, envVars>>
  BY <1>1 DEF ToolStart, TypeInv, StepsOK, DeviceSteps
<1>3. CASE p = None /\ Step(s, "ddp")
  <2>1. \E v : /\ WorkerMoves(s, v, "ddp", w.dev, w.todo, w.tool, w.said, w.reboot)
               /\ v.behind = w.behind /\ v.cut = w.cut
    BY <1>1, <1>2, <1>3, StepEffect DEF WorkerPCs
  <2> QED
    BY <1>1, <1>2, <1>3, <2>1
<1>4. CASE Step(s, "failed")
  <2>1. \E v : /\ WorkerMoves(s, v, "failed", w.dev, w.todo, w.tool, w.said, w.reboot)
               /\ v.behind = w.behind /\ v.cut = w.cut
    BY <1>1, <1>2, <1>4, StepEffect DEF WorkerPCs
  <2> QED
    BY <1>1, <1>2, <2>1
<1>5. CASE /\ p # None /\ FileAt(d, "tools", p) # None
           /\ worker' = [worker EXCEPT ![s] = [worker[s] EXCEPT !.pc = "running", !.tool = files[d].tools[p]]]
  <2>1. p \in Dirs
    BY <1>2, <1>5 DEF WorkerRecord, Paths
  <2>2. files[d] # None /\ files[d] \in Folder
    BY <1>2, <1>5 DEF FileAt, TypeInv, RecordsOK
  <2>3. PICK a : a = files[d].tools[p]
    OBVIOUS
  <2>4. a \in Archives
    <3>1. FileAt(d, "tools", p) = a
      BY <2>2, <2>3 DEF FileAt, Folder
    <3>2. a \in Archives \cup {None}
      BY <2>1, <2>2, <2>3 DEF Folder
    <3> QED
      BY <1>5, <3>1, <3>2
  <2>5. PICK v : v = [w EXCEPT !.pc = "running", !.tool = a]
    OBVIOUS
  <2>6. WorkerIs(v, "running", w, w.dev, w.todo, a, w.said, w.reboot, w.alone) /\ v.behind = w.behind /\ v.cut = w.cut
    BY <2>4, <2>5 DEF WorkerIs, WorkerRecord, WorkerPCs
  <2>7. worker' = [worker EXCEPT ![s] = v]
    BY <1>1, <1>5, <2>3, <2>5
  <2> QED
    BY <1>1, <1>2, <2>1, <2>2, <2>3, <2>4, <2>6, <2>7 DEF WorkerMoves
<1> QED
  BY <1>1, <1>3, <1>4, <1>5 DEF ToolStart

\* The tool ends: its firmware is on the device, its result where the path leads.
LEMMA ToolEndEffect ==
  ASSUME TypeInv, NEW s \in Slots, NEW o \in ToolOutcome, ToolEnd(s, o)
  PROVE  LET w == worker[s]
             d == w.dev
         IN /\ w.pc = "running" /\ d \in Devices /\ w.tool \in Archives /\ UNCHANGED <<ddp, trouble>>
            /\ fw' = [fw EXCEPT ![d] = w.tool]
            /\ files' = IF files[d] = None THEN files
                        ELSE [files EXCEPT ![d] = [files[d] EXCEPT !.result = o.result]]
            /\ \E v : /\ WorkerMoves(s, v, "result", d, w.todo, None, o.said, w.reboot)
                      /\ v.behind = w.behind \cup {e \in {d} : o.needs /\ w.alone} /\ v.cut = w.cut
<1>1. PICK w \in WorkerRecord : w = worker[s]
  BY DEF TypeInv, RecordsOK
<1>2. PICK d : d = w.dev
  OBVIOUS
<1>3. /\ w.pc = "running" /\ d \in Devices /\ w.tool \in Archives /\ UNCHANGED <<ddp, trouble>>
      /\ UNCHANGED <<main, dirty, asked, envVars>>
      /\ fw' = [fw EXCEPT ![d] = w.tool]
      /\ files' = IF files[d] = None THEN files
                  ELSE [files EXCEPT ![d] = [files[d] EXCEPT !.result = o.result]]
  BY <1>1, <1>2 DEF ToolEnd, TypeInv, StepsOK, DeviceSteps
<1>4. PICK y \in BOOLEAN : y = o.said
  BY DEF ToolOutcome
<1>5. PICK b \in SUBSET Devices : b = w.behind \cup {e \in {d} : o.needs /\ w.alone}
  BY <1>3 DEF WorkerRecord
<1>6. PICK v : v = [w EXCEPT !.pc = "result", !.tool = None, !.said = y, !.behind = b]
  OBVIOUS
<1>7. WorkerIs(v, "result", w, w.dev, w.todo, None, y, w.reboot, w.alone) /\ v.behind = b /\ v.cut = w.cut
  BY <1>6 DEF WorkerIs, WorkerRecord, WorkerPCs
<1>8. worker' = [worker EXCEPT ![s] = v]
  BY <1>1, <1>2, <1>4, <1>5, <1>6 DEF ToolEnd
<1> QED
  BY <1>1, <1>2, <1>3, <1>4, <1>5, <1>7, <1>8 DEF WorkerMoves

\* The tool fails, with or without having done its work.
LEMMA ToolFailsEffect ==
  ASSUME TypeInv, NEW s \in Slots, ToolFails(s)
  PROVE  LET w == worker[s]
             d == w.dev
         IN /\ w.pc = "running" /\ d \in Devices /\ w.tool \in Archives /\ UNCHANGED <<ddp, files>>
            /\ trouble' \in Nat
            /\ fw' \in {fw, [fw EXCEPT ![d] = w.tool]}
            /\ \E v : /\ WorkerMoves(s, v, "failed", d, w.todo, None, w.said, w.reboot)
                      /\ v.behind = w.behind /\ v.cut = w.cut
<1>1. PICK w \in WorkerRecord : w = worker[s]
  BY DEF TypeInv, RecordsOK
<1>2. PICK d : d = w.dev
  OBVIOUS
<1>3. /\ w.pc = "running" /\ d \in Devices /\ w.tool \in Archives /\ UNCHANGED <<ddp, files>>
      /\ UNCHANGED <<main, dirty, asked, envVars>>
      /\ fw' \in {fw, [fw EXCEPT ![d] = w.tool]}
  BY <1>1, <1>2 DEF ToolFails, TypeInv, StepsOK, DeviceSteps
<1>4. trouble' \in Nat
  BY FaultEffect DEF ToolFails
<1>6. PICK v : v = [w EXCEPT !.pc = "failed", !.tool = None]
  OBVIOUS
<1>7. WorkerIs(v, "failed", w, w.dev, w.todo, None, w.said, w.reboot, w.alone) /\ v.behind = w.behind /\ v.cut = w.cut
  BY <1>6 DEF WorkerIs, WorkerRecord, WorkerPCs
<1>8. worker' = [worker EXCEPT ![s] = v]
  BY <1>1, <1>6 DEF ToolFails
<1> QED
  BY <1>1, <1>2, <1>3, <1>4, <1>7, <1>8 DEF WorkerMoves

\* What the exit code and the result said decides on the reboot.
LEMMA ReadResultEffect ==
  ASSUME TypeInv, NEW s \in Slots, ReadResult(s)
  PROVE  LET w == worker[s]
             d == w.dev
         IN /\ w.pc = "result" /\ d \in Devices /\ UNCHANGED <<devVars, files, trouble>>
            /\ \E v : /\ WorkerMoves(s, v, "ddp", d, w.todo, w.tool, w.said,
                                     w.reboot \/ RebootDecision(w.said, ResultOf(d)))
                      /\ v.behind = w.behind
                      /\ v.cut = w.cut \cup {e \in {d} : ResultOf(d) = "cutBefore" /\ w.alone}
<1>1. PICK w \in WorkerRecord : w = worker[s]
  BY DEF TypeInv, RecordsOK
<1>2. PICK d : d = w.dev
  OBVIOUS
<1>3. /\ w.pc = "result" /\ d \in Devices /\ UNCHANGED <<devVars, files, trouble>>
      /\ UNCHANGED <<main, dirty, asked, envVars>>
  BY <1>1, <1>2 DEF ReadResult, TypeInv, StepsOK, DeviceSteps
<1>4. PICK b \in BOOLEAN : b = (w.reboot \/ RebootDecision(w.said, ResultOf(d)))
  OBVIOUS
<1>5. PICK c \in SUBSET Devices : c = w.cut \cup {e \in {d} : ResultOf(d) = "cutBefore" /\ w.alone}
  BY <1>3 DEF WorkerRecord
<1>6. PICK v : v = [w EXCEPT !.pc = "ddp", !.reboot = b, !.cut = c]
  OBVIOUS
<1>7. WorkerIs(v, "ddp", w, w.dev, w.todo, w.tool, w.said, b, w.alone) /\ v.behind = w.behind /\ v.cut = c
  BY <1>6 DEF WorkerIs, WorkerRecord, WorkerPCs
<1>8. worker' = [worker EXCEPT ![s] = v]
  BY <1>1, <1>2, <1>4, <1>5, <1>6 DEF ReadResult, ResultOf
<1> QED
  BY <1>1, <1>2, <1>3, <1>4, <1>5, <1>7, <1>8 DEF WorkerMoves

\* The profile where the path leads is copied to one of the two places.
ProfileCopied(d, p, place) ==
  /\ p \in Dirs /\ files[d] # None /\ files[d] \in Folder /\ files[d].pkgs[p] \in Archives
  /\ ddp' = [ddp EXCEPT ![d] = [ddp[d] EXCEPT ![place] = files[d].pkgs[p]]]

\* A file that is there is one of a folder.
LEMMA ProfileThere ==
  ASSUME TypeInv, NEW d \in Devices, NEW p \in Dirs, FileAt(d, "pkgs", p) # None
  PROVE  files[d] # None /\ files[d] \in Folder /\ files[d].pkgs[p] \in Archives
<1>1. files[d] # None /\ files[d] \in Folder
  BY DEF FileAt, TypeInv, RecordsOK
<1>2. FileAt(d, "pkgs", p) = files[d].pkgs[p]
  BY <1>1 DEF FileAt, Folder
<1>3. files[d].pkgs[p] \in Archives \cup {None}
  BY <1>1 DEF Folder
<1> QED
  BY <1>1, <1>2, <1>3

\* handleDDPUpdate copies to the first place ...
LEMMA CopyFirstEffect ==
  ASSUME TypeInv, NEW s \in Slots, CopyFirst(s)
  PROVE  LET w == worker[s]
             d == w.dev
             p == w.queue[d].ddp
         IN /\ w.pc = "ddp" /\ d \in Devices /\ UNCHANGED <<fw, files, trouble>>
            /\ \E v, l : /\ WorkerMoves(s, v, l, d, w.todo, w.tool, w.said, w.reboot)
                         /\ v.behind = w.behind /\ v.cut = w.cut
                         /\ \/ l = "next" /\ p = None /\ UNCHANGED ddp
                            \/ l = "failed" /\ UNCHANGED ddp
                            \/ l = "copied" /\ p # None /\ ProfileCopied(d, p, "intel")
<1>1. PICK w \in WorkerRecord : w = worker[s]
  BY DEF TypeInv, RecordsOK
<1> DEFINE d == w.dev
           p == w.queue[d].ddp
<1>2. /\ w.pc = "ddp" /\ d \in Devices /\ UNCHANGED <<fw, files, trouble>>
      /\ UNCHANGED <<main, dirty, asked, envVars>>
  BY <1>1 DEF CopyFirst, TypeInv, StepsOK, DeviceSteps
<1>3. PICK l \in WorkerPCs :
        /\ Step(s, l)
        /\ \/ l = "next" /\ p = None /\ UNCHANGED ddp
           \/ l = "failed" /\ UNCHANGED ddp
           \/ /\ l = "copied" /\ p # None /\ FileAt(d, "pkgs", p) # None
              /\ ddp' = [ddp EXCEPT ![d] = [ddp[d] EXCEPT !["intel"] = files[d].pkgs[p]]]
  BY <1>1 DEF CopyFirst, WorkerPCs
<1>4. l = "copied" => ProfileCopied(d, p, "intel")
  <2> SUFFICES ASSUME l = "copied"
               PROVE  ProfileCopied(d, p, "intel")
    OBVIOUS
  <2>1. p \in Dirs
    BY <1>2, <1>3 DEF WorkerRecord, Paths
  <2> QED
    BY <1>2, <1>3, <2>1, ProfileThere DEF ProfileCopied
<1>5. PICK v : /\ WorkerMoves(s, v, l, w.dev, w.todo, w.tool, w.said, w.reboot)
               /\ v.behind = w.behind /\ v.cut = w.cut
  BY <1>1, <1>2, <1>3, StepEffect
<1>6. /\ WorkerMoves(s, v, l, d, w.todo, w.tool, w.said, w.reboot)
      /\ v.behind = w.behind /\ v.cut = w.cut
      /\ \/ l = "next" /\ p = None /\ UNCHANGED ddp
         \/ l = "failed" /\ UNCHANGED ddp
         \/ l = "copied" /\ p # None /\ ProfileCopied(d, p, "intel")
  BY <1>3, <1>4, <1>5
<1> HIDE DEF p
<1> QED
  BY <1>1, <1>2, <1>6, Zenon DEF p

\* ... and to the second.
LEMMA CopySecondEffect ==
  ASSUME TypeInv, NEW s \in Slots, CopySecond(s)
  PROVE  LET w == worker[s]
             d == w.dev
             p == w.queue[d].ddp
         IN /\ w.pc = "copied" /\ d \in Devices /\ p # None /\ UNCHANGED <<fw, files, trouble>>
            /\ \E v : /\ v.behind = w.behind /\ v.cut = w.cut
                      /\ \/ /\ WorkerMoves(s, v, "failed", d, w.todo, w.tool, w.said, w.reboot)
                            /\ UNCHANGED ddp
                         \/ /\ WorkerMoves(s, v, "next", d, w.todo, w.tool, w.said, TRUE)
                            /\ ProfileCopied(d, p, "updates")
<1>1. PICK w \in WorkerRecord : w = worker[s]
  BY DEF TypeInv, RecordsOK
<1> DEFINE d == w.dev
           p == w.queue[d].ddp
<1>2. /\ w.pc = "copied" /\ d \in Devices /\ p # None /\ UNCHANGED <<fw, files, trouble>>
      /\ UNCHANGED <<main, dirty, asked, envVars>>
  BY <1>1 DEF CopySecond, TypeInv, StepsOK, DeviceSteps
<1>3. p \in Dirs
  BY <1>2 DEF WorkerRecord, Paths
<1>4. CASE Step(s, "failed") /\ UNCHANGED ddp
  <2>1. \E v : /\ WorkerMoves(s, v, "failed", w.dev, w.todo, w.tool, w.said, w.reboot)
               /\ v.behind = w.behind /\ v.cut = w.cut
    BY <1>1, <1>2, <1>4, StepEffect DEF WorkerPCs
  <2> QED
    BY <1>1, <1>2, <1>4, <2>1
<1>5. CASE /\ FileAt(d, "pkgs", p) # None
           /\ ddp' = [ddp EXCEPT ![d] = [ddp[d] EXCEPT !["updates"] = files[d].pkgs[p]]]
           /\ worker' = [worker EXCEPT ![s] = [worker[s] EXCEPT !.pc = "next", !.reboot = TRUE]]
  <2>1. ProfileCopied(d, p, "updates")
    BY <1>2, <1>3, <1>5, ProfileThere DEF ProfileCopied
  <2>2. PICK v : v = [w EXCEPT !.pc = "next", !.reboot = TRUE]
    OBVIOUS
  <2>3. WorkerIs(v, "next", w, w.dev, w.todo, w.tool, w.said, TRUE, w.alone) /\ v.behind = w.behind /\ v.cut = w.cut
    BY <2>2 DEF WorkerIs, WorkerRecord, WorkerPCs
  <2>4. worker' = [worker EXCEPT ![s] = v]
    BY <1>1, <1>5, <2>2
  <2> QED
    BY <1>1, <1>2, <2>1, <2>3, <2>4 DEF WorkerMoves
<1> QED
  BY <1>1, <1>4, <1>5 DEF CopySecond

\* Copying fails.
LEMMA CopyFailsEffect ==
  ASSUME TypeInv, NEW s \in Slots, CopyFails(s)
  PROVE  LET w == worker[s]
         IN /\ w.pc \in {"ddp", "copied"} /\ UNCHANGED <<devVars, files>> /\ trouble' \in Nat
            /\ \E v : /\ WorkerMoves(s, v, "failed", w.dev, w.todo, w.tool, w.said, w.reboot)
                      /\ v.behind = w.behind /\ v.cut = w.cut
<1>1. trouble' \in Nat
  BY FaultEffect DEF CopyFails
<1>2. worker[s].pc \in {"ddp", "copied"} /\ UNCHANGED <<devVars, files>> /\ Step(s, "failed")
      /\ UNCHANGED <<main, dirty, asked, envVars>>
  BY DEF CopyFails
<1>3. "failed" \in WorkerPCs
  BY DEF WorkerPCs
<1> QED
  BY <1>1, <1>2, <1>3, StepEffect

\* The queue is done.
LEMMA WorkerEndsEffect ==
  ASSUME TypeInv, NEW s \in Slots, WorkerEnds(s)
  PROVE  LET w == worker[s]
         IN /\ w.pc = "next" /\ w.todo = {} /\ UNCHANGED <<devVars, trouble>>
            /\ files' = [d \in Devices |-> None]
            /\ \E v : /\ WorkerMoves(s, v, IF w.reboot THEN "reboot" ELSE "done",
                                     w.dev, w.todo, w.tool, w.said, w.reboot)
                      /\ v.behind = w.behind /\ v.cut = w.cut
<1>1. PICK l \in WorkerPCs : l = IF worker[s].reboot THEN "reboot" ELSE "done"
  BY DEF WorkerPCs
<1>2. /\ worker[s].pc = "next" /\ worker[s].todo = {} /\ UNCHANGED <<devVars, trouble>>
      /\ files' = [d \in Devices |-> None] /\ Step(s, l)
      /\ UNCHANGED <<main, dirty, asked, envVars>>
  BY <1>1 DEF WorkerEnds
<1> QED
  BY <1>1, <1>2, StepEffect

\* The steps of drainFunc keep the types.
LEMMA TypeWorker ==
  ASSUME TypeInv, NEW s \in Slots,
         \/ \E d \in Devices : NextDevice(s, d)
         \/ ToolStart(s) \/ ReadResult(s) \/ CopyFirst(s) \/ CopySecond(s) \/ WorkerEnds(s)
         \/ \E o \in ToolOutcome : ToolEnd(s, o)
         \/ ToolFails(s) \/ CopyFails(s)
  PROVE  TypeInv'
<1> DEFINE w == worker[s]
<1>0. /\ w \in WorkerRecord /\ fw \in [Devices -> Archives \cup {Factory}]
      /\ ddp \in [Devices -> [Places -> Archives \cup {Factory}]]
      /\ files \in [Devices -> Folder \cup {None}] /\ dirty \in BOOLEAN /\ trouble \in Nat
  BY DEF TypeInv, RecordsOK
<1>1. ASSUME NEW v, NEW l, NEW d, NEW t, NEW x, NEW y, NEW b, WorkerMoves(s, v, l, d, t, x, y, b),
             l \in DeviceSteps => d \in Devices, l = "copied" => w.queue[d].ddp # None,
             l = "running" => x \in Archives,
             files' \in [Devices -> Folder \cup {None}], trouble' \in Nat,
             fw' \in [Devices -> Archives \cup {Factory}],
             ddp' \in [Devices -> [Places -> Archives \cup {Factory}]]
      PROVE  TypeInv'
  <2>1. /\ v \in WorkerRecord /\ v.pc = l /\ v.dev = d /\ v.tool = x /\ v.queue = w.queue
        /\ worker' = [worker EXCEPT ![s] = v] /\ UNCHANGED <<main, asked, envVars>> /\ dirty' = dirty
    BY <1>1 DEF WorkerMoves, WorkerIs
  <2> HIDE DEF w
  <2> QED
    BY <1>0, <1>1, <2>1, WorkerTypes
<1>2. ASSUME NEW d \in Devices, NextDevice(s, d)
      PROVE  TypeInv'
  BY <1>0, <1>1, <1>2, NextDeviceEffect DEF devVars, DeviceSteps
<1>3. CASE ToolStart(s)
  BY <1>0, <1>1, <1>3, ToolStartEffect DEF devVars, DeviceSteps
<1>4. CASE ReadResult(s)
  BY <1>0, <1>1, <1>4, ReadResultEffect DEF devVars, DeviceSteps
<1>5. CASE CopyFirst(s)
  <2>1. ASSUME NEW d \in Devices, NEW p, ProfileCopied(d, p, "intel")
        PROVE  ddp' \in [Devices -> [Places -> Archives \cup {Factory}]]
    BY <1>0, <2>1 DEF ProfileCopied, Places
  <2> QED
    BY <1>0, <1>1, <1>5, <2>1, CopyFirstEffect DEF devVars, DeviceSteps
<1>6. CASE CopySecond(s)
  <2>1. ASSUME NEW d \in Devices, NEW p, ProfileCopied(d, p, "updates")
        PROVE  ddp' \in [Devices -> [Places -> Archives \cup {Factory}]]
    BY <1>0, <2>1 DEF ProfileCopied, Places
  <2>2. PICK v, l, b : /\ WorkerMoves(s, v, l, w.dev, w.todo, w.tool, w.said, b)
                       /\ l \in {"failed", "next"}
                       /\ UNCHANGED ddp \/ ProfileCopied(w.dev, w.queue[w.dev].ddp, "updates")
    BY <1>6, CopySecondEffect
  <2>3. w.dev \in Devices /\ UNCHANGED <<fw, files, trouble>>
    BY <1>6, CopySecondEffect
  <2> QED
    BY <1>0, <1>1, <2>1, <2>2, <2>3 DEF DeviceSteps
<1>7. CASE WorkerEnds(s)
  BY <1>0, <1>1, <1>7, WorkerEndsEffect DEF devVars, DeviceSteps
<1>8. ASSUME NEW o \in ToolOutcome, ToolEnd(s, o)
      PROVE  TypeInv'
  <2>1. o.result \in Result
    BY DEF ToolOutcome, Result
  <2>2. \A f \in Folder : [f EXCEPT !.result = o.result] \in Folder
    BY <2>1 DEF Folder
  <2>3. PICK d \in Devices, a \in Archives : d = w.dev /\ a = w.tool
    BY <1>8, ToolEndEffect
  <2>4. fw' = [fw EXCEPT ![d] = a] /\ UNCHANGED <<ddp, trouble>>
    BY <1>8, <2>3, ToolEndEffect
  <2>5. fw' \in [Devices -> Archives \cup {Factory}]
    BY <1>0, <2>4
  <2>6. files' = IF files[d] = None THEN files
                 ELSE [files EXCEPT ![d] = [files[d] EXCEPT !.result = o.result]]
    BY <1>8, <2>3, ToolEndEffect
  <2>7. files' \in [Devices -> Folder \cup {None}]
    BY <1>0, <2>2, <2>6
  <2>8. \E v : WorkerMoves(s, v, "result", d, w.todo, None, o.said, w.reboot)
    BY <1>8, <2>3, ToolEndEffect
  <2> QED
    BY <1>0, <1>1, <2>4, <2>5, <2>7, <2>8
<1>9. CASE ToolFails(s)
  <2>1. PICK d \in Devices, a \in Archives : d = w.dev /\ a = w.tool
    BY <1>9, ToolFailsEffect
  <2>2. fw' \in {fw, [fw EXCEPT ![d] = a]} /\ UNCHANGED <<ddp, files>> /\ trouble' \in Nat
    BY <1>9, <2>1, ToolFailsEffect
  <2>3. fw' \in [Devices -> Archives \cup {Factory}]
    BY <1>0, <2>2
  <2>4. \E v : WorkerMoves(s, v, "failed", d, w.todo, None, w.said, w.reboot)
    BY <1>9, <2>1, ToolFailsEffect
  <2> QED
    BY <1>0, <1>1, <2>2, <2>3, <2>4 DEF DeviceSteps
<1>10. CASE CopyFails(s)
  BY <1>0, <1>1, <1>10, CopyFailsEffect DEF devVars, DeviceSteps
<1> QED
  BY <1>2, <1>3, <1>4, <1>5, <1>6, <1>7, <1>8, <1>9, <1>10

\* What happens outside keeps the types.
LEMMA TypeOutside ==
  ASSUME TypeInv, Outside
  PROVE  TypeInv'
<1>1. ASSUME NEW v \in Wants, EditSpec(v)
      PROVE  TypeInv'
  <2>1. trouble' \in Nat
    BY <1>1, FaultEffect DEF EditSpec
  <2> QED
    BY <1>1, <2>1 DEF EditSpec, TypeInv, RecordsOK, StepsOK, devVars
<1>2. ASSUME NEW pub \in Publications, Publish(pub[1], pub[2])
      PROVE  TypeInv'
  <2>1. trouble' \in Nat
    BY <1>2, FaultEffect DEF Publish
  <2>2. pub[1] \in Urls /\ pub[2] \in Archives
    BY PublicationsAssumption
  <2> QED
    BY <1>2, <2>1, <2>2 DEF Publish, TypeInv, RecordsOK, StepsOK, devVars
<1> QED
  BY <1>1, <1>2 DEF Outside

\* Every step keeps the types.
LEMMA TypeStep == TypeInv /\ [UpdateNext]_updVars => TypeInv'
<1> SUFFICES ASSUME TypeInv, [UpdateNext]_updVars PROVE TypeInv'
  OBVIOUS
<1>1. CASE MainStep
  BY <1>1, TypePrepare, TypeDownload, TypeUnpack, TypeFind, TypeEnds, TypeRun, Zenon DEF MainStep
<1>2. ASSUME NEW s \in Slots, WorkerStep(s)
      PROVE  TypeInv'
  BY <1>2, TypeWorker, TypeRun, TypeEnds, Zenon DEF WorkerStep
<1>3. CASE Trouble
  BY <1>3, TypePrepare, TypeEnds, TypeRun, TypeWorker, Zenon DEF Trouble
<1>4. CASE Outside
  BY <1>4, TypeOutside
<1>5. CASE UNCHANGED updVars
  BY <1>5 DEF updVars, TypeInv, RecordsOK, StepsOK
<1> QED
  BY <1>1, <1>2, <1>3, <1>4, <1>5 DEF UpdateNext

\* The daemon starts with all records of their types.
LEMMA TypeInit == UpdateInit => TypeInv
<1> SUFFICES ASSUME UpdateInit PROVE TypeInv
  OBVIOUS
<1>1. RecordsOK
  BY IdleAndOff, WantsAssumption, ServerAssumption, TroubleAssumption DEF UpdateInit, RecordsOK
<1>2. StepsOK
  BY IdleAndOff DEF UpdateInit, StepsOK, FWSteps, DDPSteps, DeviceSteps
<1> QED
  BY <1>1, <1>2 DEF TypeInv

\* Whole records have what UpdateTypeOK asks of their fields.
LEMMA TypeInvIsType == TypeInv => UpdateTypeOK
<1> SUFFICES ASSUME TypeInv PROVE UpdateTypeOK
  OBVIOUS
<1>1. \A s \in Slots :
       /\ worker[s].pc \in WorkerPCs /\ worker[s].dev \in Devices \cup {None}
       /\ worker[s].todo \subseteq Devices /\ worker[s].behind \cup worker[s].cut \subseteq Devices
       /\ worker[s].tool \in Archives \cup {None}
       /\ \A d \in Devices : {worker[s].queue[d].fw, worker[s].queue[d].ddp} \subseteq Dirs \cup {None}
  <2> TAKE s \in Slots
  <2>1. worker[s] \in WorkerRecord
    BY DEF TypeInv, RecordsOK
  <2> QED
    BY <2>1 DEF WorkerRecord, Paths
<1>2. /\ main.pc \in MainPCs /\ main.dev \in Devices \cup {None} /\ main.todo \subseteq Devices
      /\ main.slot \in Slots \cup {None} /\ (main.pc = "run" <=> main.slot # None)
  BY DEF TypeInv, RecordsOK, StepsOK, MainRecord
<1> QED
  BY <1>1, <1>2 DEF TypeInv, RecordsOK, UpdateTypeOK

-----------------------------------------------------------------------------
(* Nothing is stored that was not asked for *)

\* What AskedInv says of one folder and of what is asked for its device.
FilesAsked(f, a) == f # None => \A p \in Dirs : {f.tools[p], f.pkgs[p]} \subseteq a \cup {None}

\* A step that starts nothing, unpacks nothing and stores nothing new.
LEMMA AskedQuiet ==
  ASSUME TypeInv, AskedInv,
         \A d \in Devices : /\ asked[d] \subseteq asked'[d] /\ FilesAsked(files'[d], asked'[d])
                            /\ {fw'[d], ddp'[d]["intel"], ddp'[d]["updates"]} \subseteq asked'[d] \cup {Factory},
         main'.pc \in {"fwUntar", "ddpUnpack"} => Archive(main.dev)' \in asked'[main'.dev] \cup {None},
         \A s \in Slots : worker'[s].pc = "running" => worker'[s].tool \in asked'[worker'[s].dev]
  PROVE  AskedInv'
BY DEF AskedInv, FilesAsked

\* The folders that are there, and those of files that were emptied.
LEMMA AskedFolders ==
  ASSUME TypeInv, AskedInv
  PROVE  /\ \A d \in Devices : /\ FilesAsked(files[d], asked[d]) /\ FilesAsked(None, asked[d])
                               /\ {fw[d], ddp[d]["intel"], ddp[d]["updates"]} \subseteq asked[d] \cup {Factory}
         /\ \A s \in Slots : worker[s].pc = "running" => worker[s].tool \in asked[worker[s].dev]
         /\ main.pc \in {"fwUntar", "ddpUnpack"} => Archive(main.dev) \in asked[main.dev] \cup {None}
BY DEF AskedInv, FilesAsked

\* A download is asked for when it goes on; it brings no file but itself.
LEMMA AskedDownload ==
  ASSUME TypeInv, AskedInv, NEW a, NEW next \in {"fwUntar", "ddpUnpack"}, Downloaded(main.dev, a, next)
  PROVE  AskedInv'
<1> DEFINE d == main.dev
           f == [FolderOf(d) EXCEPT !.archive = a]
<1>1. /\ d \in Devices /\ a \in Archives /\ files' = [files EXCEPT ![d] = f]
      /\ \A e \in Devices : asked[e] \subseteq asked'[e]
      /\ worker' = worker /\ fw' = fw /\ ddp' = ddp
  BY DEF Downloaded, devVars
<1>2. FolderOf(d) \in Folder /\ files \in [Devices -> Folder \cup {None}]
  BY <1>1, IdleAndOff DEF FolderOf, TypeInv, RecordsOK
<1>3. f \in Folder /\ f.tools = FolderOf(d).tools /\ f.pkgs = FolderOf(d).pkgs /\ f.archive = a
  <2>1. PICK g \in Folder : g = FolderOf(d)
    BY <1>2
  <2>2. [g EXCEPT !.archive = a] \in Folder /\ [g EXCEPT !.archive = a].tools = g.tools
        /\ [g EXCEPT !.archive = a].pkgs = g.pkgs /\ [g EXCEPT !.archive = a].archive = a
    BY <1>1 DEF Folder
  <2> QED
    BY <2>1, <2>2
<1>4. FilesAsked(FolderOf(d), asked[d])
  BY <1>1, AskedFolders DEF FolderOf, FilesAsked, NewFolder, NoFiles
<1>5. FilesAsked(f, asked'[d])
  <2>1. FolderOf(d) # None \/ FolderOf(d) = None
    OBVIOUS
  <2>2. \A p \in Dirs : {FolderOf(d).tools[p], FolderOf(d).pkgs[p]} \subseteq asked[d] \cup {None}
    BY <1>1, AskedFolders DEF FolderOf, FilesAsked, NewFolder, NoFiles
  <2> HIDE DEF f
  <2> QED
    BY <1>1, <1>3, <2>2 DEF FilesAsked
<1> HIDE DEF f
<1>6. \A e \in Devices : FilesAsked(files'[e], asked'[e])
  <2> TAKE e \in Devices
  <2>1. CASE e = d
    BY <1>1, <1>2, <1>5, <2>1
  <2>2. CASE e # d
    <3>1. files'[e] = files[e] /\ FilesAsked(files[e], asked[e])
      BY <1>1, <1>2, <2>2, AskedFolders
    <3> QED
      BY <1>1, <3>1 DEF FilesAsked
  <2> QED
    BY <2>1, <2>2
<1>7. main'.pc \in {"fwUntar", "ddpUnpack"} => Archive(main.dev)' \in asked'[main'.dev] \cup {None}
  <2> SUFFICES ASSUME main'.pc \in {"fwUntar", "ddpUnpack"}
               PROVE  Archive(main.dev)' \in asked'[main'.dev] \cup {None}
    OBVIOUS
  <2>1. main'.dev = d /\ a \in asked'[d]
    BY IdleAndOff DEF Downloaded, MainIs
  <2>2. files'[d] = f
    BY <1>1, <1>2
  <2> QED
    BY <1>3, <2>1, <2>2 DEF Archive
<1>8. /\ \A e \in Devices : {fw'[e], ddp'[e]["intel"], ddp'[e]["updates"]} \subseteq asked'[e] \cup {Factory}
      /\ \A s \in Slots : worker'[s].pc = "running" => worker'[s].tool \in asked'[worker'[s].dev]
  <2>1. \A s \in Slots : worker[s].pc = "running" => worker[s].dev \in Devices
    BY DEF TypeInv, StepsOK, DeviceSteps
  <2> QED
    BY <1>1, <2>1, AskedFolders
<1> QED
  BY <1>1, <1>6, <1>7, <1>8, AskedQuiet

\* What is unpacked was asked for.
LEMMA AskedUnpack ==
  ASSUME TypeInv, AskedInv, main.pc \in {"fwUntar", "ddpUnpack"},
         NEW next \in {"fwFind", "ddpFind"}, UnpackedTo(main.dev, next)
  PROVE  AskedInv'
<1> DEFINE d == main.dev
           f == files[d]
           g == Unpacked(f, f.archive)
<1>1. /\ d \in Devices /\ asked' = asked /\ worker' = worker /\ fw' = fw /\ ddp' = ddp
      /\ main'.pc \notin {"fwUntar", "ddpUnpack"}
  BY IdleAndOff DEF UnpackedTo, devVars, MainIs
<1>2. \/ files' = files
      \/ files' = [files EXCEPT ![d] = g] /\ Archive(d) \in Archives
  BY DEF UnpackedTo
<1>3. Archive(d) \in Archives => FilesAsked(g, asked[d])
  <2> SUFFICES ASSUME Archive(d) \in Archives
               PROVE  FilesAsked(g, asked[d])
    OBVIOUS
  <2>1. f # None /\ f.archive = Archive(d) /\ f \in Folder
    BY <1>1, NamesAssumption DEF Archive, TypeInv, RecordsOK
  <2>2. f.archive \in asked[d]
    BY <2>1, AskedFolders, NamesAssumption
  <2>3. \A p \in Dirs : g.tools[p] \in {f.archive, f.tools[p]} /\ g.pkgs[p] \in {f.archive, f.pkgs[p]}
    BY <2>1, FolderUpdates DEF Result
  <2>4. \A p \in Dirs : {f.tools[p], f.pkgs[p]} \subseteq asked[d] \cup {None}
    BY <1>1, <2>1, AskedFolders DEF FilesAsked
  <2> HIDE DEF g, f
  <2> QED
    BY <2>2, <2>3, <2>4 DEF FilesAsked
<1> HIDE DEF g, f
<1>4. \A e \in Devices : FilesAsked(files'[e], asked'[e])
  <2> TAKE e \in Devices
  <2>1. files \in [Devices -> Folder \cup {None}] /\ FilesAsked(files[e], asked[e])
    BY AskedFolders DEF TypeInv, RecordsOK
  <2>2. CASE files' = files
    BY <1>1, <2>1, <2>2
  <2>3. CASE files' = [files EXCEPT ![d] = g] /\ Archive(d) \in Archives
    BY <1>1, <1>3, <2>1, <2>3
  <2> QED
    BY <1>2, <2>2, <2>3
<1> QED
  BY <1>1, <1>4, AskedQuiet, AskedFolders

\* A step of main, or of the world outside, that brings no file.
LEMMA AskedMain ==
  ASSUME TypeInv, AskedInv,
         files' = files \/ files' = [d \in Devices |-> None],
         asked' = asked, worker' = worker, fw' = fw, ddp' = ddp,
         main' = main \/ main'.pc \notin {"fwUntar", "ddpUnpack"}
  PROVE  AskedInv'
<1>1. \A d \in Devices : FilesAsked(files'[d], asked'[d])
  BY AskedFolders
<1>2. main'.pc \in {"fwUntar", "ddpUnpack"} => Archive(main.dev)' \in asked'[main'.dev] \cup {None}
  <2> SUFFICES ASSUME main'.pc \in {"fwUntar", "ddpUnpack"}
               PROVE  Archive(main.dev)' \in asked'[main'.dev] \cup {None}
    OBVIOUS
  <2>1. main' = main /\ main.dev \in Devices
    BY DEF TypeInv, StepsOK, FWSteps, DDPSteps
  <2>2. CASE files' = files
    BY <2>1, <2>2, AskedFolders DEF Archive
  <2>3. CASE files' = [d \in Devices |-> None]
    BY <2>1, <2>3 DEF Archive
  <2> QED
    BY <2>2, <2>3
<1> QED
  BY <1>1, <1>2, AskedQuiet, AskedFolders

\* A worker starts no tool but one that was asked for, and stores only such.
LEMMA AskedWorker ==
  ASSUME TypeInv, AskedInv, NEW s \in Slots,
         NEW v, NEW l, NEW d, NEW t, NEW x, NEW y, NEW b, WorkerMoves(s, v, l, d, t, x, y, b),
         l = "running" => x \in asked[d],
         \A e \in Devices : /\ FilesAsked(files'[e], asked[e])
                            /\ {fw'[e], ddp'[e]["intel"], ddp'[e]["updates"]} \subseteq asked[e] \cup {Factory}
                            /\ files'[e] # None => files[e] # None /\ files'[e].archive = files[e].archive
  PROVE  AskedInv'
<1>1. /\ v.pc = l /\ v.dev = d /\ v.tool = x /\ v \in WorkerRecord
      /\ worker' = [worker EXCEPT ![s] = v] /\ main' = main /\ asked' = asked
  BY DEF WorkerMoves, WorkerIs
<1>2. worker'[s] = v /\ \A r \in Slots \ {s} : worker'[r] = worker[r]
  BY <1>1, WorkerSet DEF TypeInv
<1>3. \A r \in Slots : worker'[r].pc = "running" => worker'[r].tool \in asked'[worker'[r].dev]
  BY <1>1, <1>2, AskedFolders
<1>4. main'.pc \in {"fwUntar", "ddpUnpack"} => Archive(main.dev)' \in asked'[main'.dev] \cup {None}
  <2> SUFFICES ASSUME main.pc \in {"fwUntar", "ddpUnpack"}
               PROVE  Archive(main.dev)' \in asked[main.dev] \cup {None}
    BY <1>1
  <2>1. main.dev \in Devices
    BY DEF TypeInv, StepsOK, FWSteps, DDPSteps
  <2>2. Archive(main.dev)' \in {None, Archive(main.dev)}
    BY <1>1, <2>1 DEF Archive
  <2> QED
    BY <2>2, AskedFolders
<1> QED
  BY <1>1, <1>3, <1>4, AskedQuiet, AskedFolders

\* A profile that is copied was asked for.
LEMMA AskedProfile ==
  ASSUME TypeInv, AskedInv, NEW d \in Devices, NEW p, NEW place \in Places, ProfileCopied(d, p, place)
  PROVE  \A e \in Devices : {ddp'[e]["intel"], ddp'[e]["updates"]} \subseteq asked[e] \cup {Factory}
<1>1. PICK a \in Archives : a = files[d].pkgs[p]
  BY DEF ProfileCopied
<1>2. a \in asked[d]
  BY <1>1, AskedFolders, NamesAssumption DEF ProfileCopied, FilesAsked
<1>3. ddp' = [ddp EXCEPT ![d] = [ddp[d] EXCEPT ![place] = a]]
  BY <1>1 DEF ProfileCopied
<1>4. ddp \in [Devices -> [Places -> Archives \cup {Factory}]]
  BY DEF TypeInv, RecordsOK
<1>5. \A e \in Devices : {ddp[e]["intel"], ddp[e]["updates"]} \subseteq asked[e] \cup {Factory}
  BY AskedFolders
<1>6. \A e \in Devices, q \in Places : ddp'[e][q] = IF e = d /\ q = place THEN a ELSE ddp[e][q]
  BY <1>3, <1>4
<1>7. "intel" \in Places /\ "updates" \in Places
  BY DEF Places
<1> QED
  BY <1>2, <1>5, <1>6, <1>7

\* Every step of drainFunc.
LEMMA AskedWorkerStep ==
  ASSUME TypeInv, AskedInv, NEW s \in Slots,
         \/ \E d \in Devices : NextDevice(s, d)
         \/ ToolStart(s) \/ ReadResult(s) \/ CopyFirst(s) \/ CopySecond(s) \/ WorkerEnds(s)
         \/ \E o \in ToolOutcome : ToolEnd(s, o)
         \/ ToolFails(s) \/ CopyFails(s)
  PROVE  AskedInv'
<1> DEFINE w == worker[s]
<1>0. \A d \in Devices : /\ FilesAsked(files[d], asked[d]) /\ FilesAsked(None, asked[d])
                         /\ {fw[d], ddp[d]["intel"], ddp[d]["updates"]} \subseteq asked[d] \cup {Factory}
  BY AskedFolders
<1>1. ASSUME NEW d \in Devices, NextDevice(s, d)
      PROVE  AskedInv'
  <2>1. files' = files /\ fw' = fw /\ ddp' = ddp
    BY <1>1, NextDeviceEffect DEF devVars
  <2>2. PICK v : WorkerMoves(s, v, "fw", d, w.todo \ {d}, w.tool, w.said, w.reboot)
    BY <1>1, NextDeviceEffect
  <2> QED
    BY <1>0, <2>1, <2>2, AskedWorker
<1>2. CASE ToolStart(s)
  <2>1. /\ w.dev \in Devices /\ files' = files /\ fw' = fw /\ ddp' = ddp
    BY <1>2, ToolStartEffect DEF devVars
  <2>2. PICK v, l, x : /\ WorkerMoves(s, v, l, w.dev, w.todo, x, w.said, w.reboot)
                       /\ \/ l \in {"ddp", "failed"}
                          \/ \E p \in Dirs : /\ l = "running" /\ files[w.dev] # None
                                             /\ x = files[w.dev].tools[p] /\ x \in Archives
    BY <1>2, ToolStartEffect
  <2>3. l = "running" => x \in asked[w.dev]
    BY <1>0, <2>1, <2>2, NamesAssumption DEF FilesAsked
  <2> QED
    BY <1>0, <2>1, <2>2, <2>3, AskedWorker
<1>3. CASE ReadResult(s)
  BY <1>0, <1>3, ReadResultEffect, AskedWorker DEF devVars
<1>4. CASE CopyFirst(s)
  <2>1. w.dev \in Devices /\ files' = files /\ fw' = fw
    BY <1>4, CopyFirstEffect
  <2>2. PICK v, l, b : /\ WorkerMoves(s, v, l, w.dev, w.todo, w.tool, w.said, b) /\ l # "running"
                       /\ UNCHANGED ddp \/ ProfileCopied(w.dev, w.queue[w.dev].ddp, "intel")
    BY <1>4, CopyFirstEffect
  <2>3. \A e \in Devices : {ddp'[e]["intel"], ddp'[e]["updates"]} \subseteq asked[e] \cup {Factory}
    BY <1>0, <2>1, <2>2, AskedProfile DEF Places
  <2> QED
    BY <1>0, <2>1, <2>2, <2>3, AskedWorker
<1>5. CASE CopySecond(s)
  <2>1. w.dev \in Devices /\ files' = files /\ fw' = fw
    BY <1>5, CopySecondEffect
  <2>2. PICK v, l, b : /\ WorkerMoves(s, v, l, w.dev, w.todo, w.tool, w.said, b) /\ l # "running"
                       /\ UNCHANGED ddp \/ ProfileCopied(w.dev, w.queue[w.dev].ddp, "updates")
    BY <1>5, CopySecondEffect
  <2>3. \A e \in Devices : {ddp'[e]["intel"], ddp'[e]["updates"]} \subseteq asked[e] \cup {Factory}
    BY <1>0, <2>1, <2>2, AskedProfile DEF Places
  <2> QED
    BY <1>0, <2>1, <2>2, <2>3, AskedWorker
<1>6. CASE WorkerEnds(s)
  <2>1. (IF w.reboot THEN "reboot" ELSE "done") # "running"
    OBVIOUS
  <2> QED
    BY <1>0, <1>6, <2>1, WorkerEndsEffect, AskedWorker DEF devVars
<1>7. ASSUME NEW o \in ToolOutcome, ToolEnd(s, o)
      PROVE  AskedInv'
  <2>1. PICK d \in Devices, a \in Archives : d = w.dev /\ a = w.tool /\ w.pc = "running"
    BY <1>7, ToolEndEffect
  <2>2. a \in asked[d]
    BY <2>1, AskedFolders
  <2>3. fw' = [fw EXCEPT ![d] = a] /\ ddp' = ddp
    BY <1>7, <2>1, ToolEndEffect
  <2>4. files' = IF files[d] = None THEN files
                 ELSE [files EXCEPT ![d] = [files[d] EXCEPT !.result = o.result]]
    BY <1>7, <2>1, ToolEndEffect
  <2>5. files \in [Devices -> Folder \cup {None}] /\ fw \in [Devices -> Archives \cup {Factory}]
    BY DEF TypeInv, RecordsOK
  <2>6. PICK r \in Result : r = o.result
    BY DEF ToolOutcome, Result
  <2>7. \A f \in Folder : LET g == [f EXCEPT !.result = r]
                          IN g.tools = f.tools /\ g.pkgs = f.pkgs /\ g.archive = f.archive
    BY DEF Folder
  <2>8. \A e \in Devices : /\ FilesAsked(files'[e], asked[e])
                           /\ files'[e] # None => files[e] # None /\ files'[e].archive = files[e].archive
    <3> TAKE e \in Devices
    <3>1. CASE e = d /\ files[d] # None
      <4>1. files'[e] = [files[d] EXCEPT !.result = r] /\ files[d] \in Folder
        BY <2>4, <2>5, <2>6, <3>1
      <4>2. files'[e].tools = files[e].tools /\ files'[e].pkgs = files[e].pkgs
            /\ files'[e].archive = files[e].archive
        BY <2>7, <3>1, <4>1
      <4> QED
        BY <1>0, <3>1, <4>2 DEF FilesAsked
    <3>2. CASE ~(e = d /\ files[d] # None)
      <4>1. files'[e] = files[e]
        BY <2>4, <2>5, <3>2
      <4> QED
        BY <1>0, <4>1
    <3> QED
      BY <3>1, <3>2
  <2>9. \A e \in Devices : fw'[e] \in asked[e] \cup {Factory}
    BY <1>0, <2>2, <2>3, <2>5
  <2>10. PICK v : WorkerMoves(s, v, "result", d, w.todo, None, o.said, w.reboot)
    BY <1>7, <2>1, ToolEndEffect
  <2> QED
    BY <1>0, <2>3, <2>8, <2>9, <2>10, AskedWorker
<1>8. CASE ToolFails(s)
  <2>1. PICK d \in Devices, a \in Archives : d = w.dev /\ a = w.tool /\ w.pc = "running"
    BY <1>8, ToolFailsEffect
  <2>2. a \in asked[d]
    BY <2>1, AskedFolders
  <2>3. fw' \in {fw, [fw EXCEPT ![d] = a]} /\ ddp' = ddp /\ files' = files
    BY <1>8, <2>1, ToolFailsEffect
  <2>4. fw \in [Devices -> Archives \cup {Factory}]
    BY DEF TypeInv, RecordsOK
  <2>5. \A e \in Devices : fw'[e] \in asked[e] \cup {Factory}
    BY <1>0, <2>2, <2>3, <2>4
  <2>6. PICK v : WorkerMoves(s, v, "failed", d, w.todo, None, w.said, w.reboot)
    BY <1>8, <2>1, ToolFailsEffect
  <2> QED
    BY <1>0, <2>3, <2>5, <2>6, AskedWorker
<1>9. CASE CopyFails(s)
  BY <1>0, <1>9, CopyFailsEffect, AskedWorker DEF devVars
<1> QED
  BY <1>1, <1>2, <1>3, <1>4, <1>5, <1>6, <1>7, <1>8, <1>9

\* Every step keeps to what was asked for.
LEMMA AskedStep == TypeInv /\ AskedInv /\ [UpdateNext]_updVars => AskedInv'
<1> SUFFICES ASSUME TypeInv, AskedInv, [UpdateNext]_updVars PROVE AskedInv'
  OBVIOUS
<1> USE IdleAndOff
<1>1. CASE PrepareStart \/ PrepareDevice \/ PrepareStepFails
  <2>1. main'.pc \notin {"fwUntar", "ddpUnpack"}
    <3>1. CASE PrepareStart
      BY <3>1 DEF PrepareStart, Idle
    <3>2. CASE PrepareDevice
      <4>0. main \in MainRecord
        BY DEF TypeInv, RecordsOK
      <4>1. PICK l \in {"fwGet", "ddpGet", "next"} :
               \E d, t : main' = [main EXCEPT !.dev = d, !.todo = t, !.pc = l]
        BY <3>2 DEF PrepareDevice
      <4> QED
        BY <4>0, <4>1 DEF MainRecord
    <3>3. CASE PrepareStepFails
      BY <3>3 DEF PrepareStepFails, PrepareFails
    <3> QED
      BY <1>1, <3>1, <3>2, <3>3
  <2> QED
    BY <1>1, <2>1, AskedMain DEF PrepareStart, PrepareDevice, PrepareStepFails, devVars
<1>2. CASE DownloadFW \/ DownloadDDP
  <2>1. CASE DownloadFW
    BY <2>1, DownloadEffect, AskedDownload
  <2>2. CASE DownloadDDP
    BY <2>2, DownloadEffect, AskedDownload
  <2> QED
    BY <1>2, <2>1, <2>2
<1>3. CASE UntarFW \/ UnpackDDPArchive
  <2>1. CASE UntarFW
    BY <2>1, UnpackEffect, AskedUnpack
  <2>2. CASE UnpackDDPArchive
    BY <2>2, UnpackEffect, AskedUnpack
  <2> QED
    BY <1>3, <2>1, <2>2
<1>4. CASE FindFW \/ FindDDP
  <2>1. FindRest /\ main'.pc \notin {"fwUntar", "ddpUnpack"}
    <3>1. CASE FindFW
      BY <3>1, FindFWEffect DEF FindFails
    <3>2. CASE FindDDP
      BY <3>2, FindDDPEffect DEF FindFails
    <3> QED
      BY <1>4, <3>1, <3>2
  <2> QED
    BY <2>1, AskedMain DEF FindRest, devVars
<1>5. CASE FindPanics \/ Crash
  <2>1. ProcessEnds /\ files' = files /\ ddp' = ddp /\ asked' = asked
    BY <1>5 DEF FindPanics, Crash
  <2>2. /\ main' = Idle /\ worker' = [s \in Slots |-> Off]
        /\ \A d \in Devices :
              \/ fw'[d] = fw[d]
              \/ \E s \in Slots : worker[s].pc = "running" /\ worker[s].dev = d /\ fw'[d] = worker[s].tool
    BY <2>1, ProcessEndsEffect
  <2>3. \A d \in Devices : fw'[d] \in asked[d] \cup {Factory}
    BY <2>2, AskedFolders
  <2> QED
    BY <2>1, <2>2, <2>3, AskedFolders, AskedQuiet
<1>6. CASE RunStart
  <2>1. PICK s \in Slots, v \in WorkerRecord :
           /\ worker' = [worker EXCEPT ![s] = v] /\ v.pc = "next" /\ main'.pc = "run"
           /\ UNCHANGED <<devVars, files, asked>>
    BY <1>6, RunStartEffect DEF MainIs
  <2>2. worker'[s] = v /\ \A r \in Slots \ {s} : worker'[r] = worker[r]
    BY <2>1, WorkerSet DEF TypeInv
  <2>3. \A r \in Slots : worker'[r].pc = "running" => worker'[r] = worker[r]
    BY <2>1, <2>2
  <2>4. files' = files /\ fw' = fw /\ ddp' = ddp /\ asked' = asked
    BY <2>1 DEF devVars
  <2> QED
    BY <2>1, <2>3, <2>4, AskedFolders, AskedQuiet
<1>7. CASE LoseLease
  <2>1. \A s \in Slots : /\ worker'[s].pc = worker[s].pc /\ worker'[s].dev = worker[s].dev
                         /\ worker'[s].tool = worker[s].tool
    <3> TAKE s \in Slots
    <3>1. worker[s] \in WorkerRecord
      BY DEF TypeInv, RecordsOK
    <3>2. worker'[s] \in {worker[s], [worker[s] EXCEPT !.alone = FALSE, !.behind = {}, !.cut = {}]}
      BY <1>7 DEF LoseLease
    <3> QED
      BY <3>1, <3>2, WorkerLeft DEF WorkerIs
  <2>2. files' = files /\ fw' = fw /\ ddp' = ddp /\ asked' = asked /\ main' = Idle
    BY <1>7 DEF LoseLease, devVars
  <2> QED
    BY <2>1, <2>2, AskedFolders, AskedQuiet
<1>8. CASE RunReturns \/ (\E s \in Slots : LeftoverEnds(s))
  <2>1. PICK s \in Slots : worker' = [worker EXCEPT ![s] = Off]
    BY <1>8 DEF RunReturns, LeftoverEnds, TypeInv, RecordsOK, StepsOK, MainRecord
  <2>2. worker'[s] = Off /\ \A r \in Slots \ {s} : worker'[r] = worker[r]
    BY <2>1, WorkerSet DEF TypeInv
  <2>3. \A r \in Slots : worker'[r].pc = "running" => worker'[r] = worker[r]
    BY <2>2
  <2>4. /\ files' = files /\ fw' = fw /\ ddp' = ddp /\ asked' = asked
        /\ main' = Idle \/ main' = main
    BY <1>8 DEF RunReturns, LeftoverEnds, devVars
  <2>5. main'.pc \in {"fwUntar", "ddpUnpack"} => Archive(main.dev)' \in asked'[main'.dev] \cup {None}
    BY <2>4, AskedFolders DEF Archive
  <2> QED
    BY <2>3, <2>4, <2>5, AskedFolders, AskedQuiet
<1>9. ASSUME NEW s \in Slots, Reboot(s)
      PROVE  AskedInv'
  <2>1. /\ main' = Idle /\ worker' = [t \in Slots |-> Off] /\ files' = [d \in Devices |-> None]
        /\ fw' = fw /\ ddp' = ddp /\ asked' = asked
    BY <1>9 DEF Reboot
  <2> QED
    BY <2>1, AskedFolders, AskedQuiet
<1>10. CASE Outside
  <2>1. /\ files' = files /\ fw' = fw /\ ddp' = ddp /\ asked' = asked /\ main' = main /\ worker' = worker
    BY <1>10 DEF Outside, EditSpec, Publish, devVars
  <2> QED
    BY <2>1, AskedMain
<1>11. CASE UNCHANGED updVars
  BY <1>11, AskedMain DEF updVars
<1> QED
  BY <1>1, <1>2, <1>3, <1>4, <1>5, <1>6, <1>7, <1>8, <1>9, <1>10, <1>11, AskedWorkerStep
     DEF UpdateNext, MainStep, WorkerStep, Trouble

\* Whatever the servers serve, whatever checksums fail and packages break, and
\* however many workers without a lease use the folders meanwhile, the devices
\* get only packages that a spec of theirs let pass.
THEOREM OnlyAsked == UpdateSpec => []OnlyAskedIsStored
<1>1. UpdateInit => AskedInv
  BY IdleAndOff, NamesAssumption DEF UpdateInit, AskedInv, Places
<1>2. TypeInv /\ AskedInv => OnlyAskedIsStored
  BY TypeInvIsType DEF AskedInv, OnlyAskedIsStored
<1> QED
  BY <1>1, <1>2, TypeInit, TypeStep, AskedStep, PTL DEF UpdateSpec

-----------------------------------------------------------------------------
(* The worker that Run waits for uses its own packages *)

\* A step that brings no tool and no profile into any folder.
FilesShrink ==
  \A d \in Devices : \/ files'[d] = None
                     \/ /\ files[d] # None
                        /\ files'[d].tools = files[d].tools /\ files'[d].pkgs = files[d].pkgs

\* Paths lead home in a folder that lost files, or all of itself.
LEMMA LeadsShrink ==
  ASSUME FilesShrink, NEW d \in Devices, NEW q, Leads(files[d], q)
  PROVE  Leads(files'[d], q)
BY DEF FilesShrink, Leads

\* Such a step of a worker leaves the queues alone.
LEMMA QueueQuiet ==
  ASSUME TypeInv, QueueInv, FilesShrink, main' = main,
         main.pc = "run" => worker'[main.slot].queue = worker[main.slot].queue
  PROVE  QueueInv'
BY LeadsShrink DEF QueueInv

\* A preparation that ended.
LEMMA QueueIdle ==
  ASSUME main' = Idle
  PROVE  QueueInv'
BY IdleAndOff DEF QueueInv, FWSteps, DDPSteps

\* The preparation starts with no paths and goes on with the next device.
LEMMA QueuePrepare ==
  ASSUME TypeInv, QueueInv, PrepareStart \/ PrepareDevice
  PROVE  QueueInv'
<1>1. CASE PrepareStart
  <2>1. main'.pc = "next" /\ main'.queue = NoPaths /\ main'.todo = Devices
    BY <1>1 DEF PrepareStart, Idle
  <2>2. \A d \in Devices : files'[d] = None /\ NoPaths[d].fw = None /\ NoPaths[d].ddp = None
    BY <1>1, IdleAndOff DEF PrepareStart
  <2> QED
    BY <2>1, <2>2 DEF QueueInv, Leads, FWSteps, DDPSteps
<1>2. CASE PrepareDevice
  <2> DEFINE d == CHOOSE e \in main.todo : TRUE
  <2>0. main \in MainRecord
    BY DEF TypeInv, RecordsOK
  <2>1. d \in main.todo /\ main.pc = "next" /\ files' = files
    BY <1>2 DEF PrepareDevice
  <2>2. PICK l \in MainPCs : l \in {"fwGet", "ddpGet", "next"} /\ main' = [main EXCEPT !.dev = d, !.todo = main.todo \ {d}, !.pc = l]
    BY <1>2 DEF PrepareDevice, MainPCs
  <2>3. /\ main'.pc = l /\ main'.dev = d /\ main'.todo = main.todo \ {d} /\ main'.queue = main.queue
    <3> HIDE DEF d
    <3> QED
      BY <2>0, <2>2 DEF MainRecord
  <2> HIDE DEF d
  <2> QED
    BY <2>1, <2>2, <2>3 DEF QueueInv, FWSteps, DDPSteps
<1> QED
  BY <1>1, <1>2

\* A download brings the package and nothing of it.
LEMMA QueueDownload ==
  ASSUME TypeInv, QueueInv, NEW a, NEW next, Downloaded(main.dev, a, next),
         \/ main.pc = "fwGet" /\ next = "fwUntar"
         \/ main.pc = "ddpGet" /\ next = "ddpUnpack"
  PROVE  QueueInv'
<1>1. CASE main' = Idle
  BY <1>1, QueueIdle
<1>2. CASE MainIs(main', next, main.cfg, main.dev, main.todo, main.queue, None)
  <2> DEFINE d == main.dev
  <2>1. PICK g \in Folder : g = FolderOf(d)
    BY IdleAndOff DEF FolderOf, TypeInv, RecordsOK, Downloaded
  <2>2. /\ d \in Devices /\ a \in Archives /\ files' = [files EXCEPT ![d] = [g EXCEPT !.archive = a]]
        /\ files \in [Devices -> Folder \cup {None}]
    BY <2>1 DEF Downloaded, TypeInv, RecordsOK
  <2>3. [g EXCEPT !.archive = a].tools = g.tools /\ [g EXCEPT !.archive = a].pkgs = g.pkgs
    BY DEF Folder
  <2>4. files'[d].tools = g.tools /\ files'[d].pkgs = g.pkgs /\ \A e \in Devices \ {d} : files'[e] = files[e]
    BY <2>2, <2>3
  <2>5. main.queue \in [Devices -> Paths]
    BY DEF TypeInv, RecordsOK, MainRecord
  <2>6. \A e \in Devices : Leads(files[e], main.queue[e])
    BY DEF QueueInv
  <2>7. Leads(files'[d], main.queue[d])
    <3>1. CASE files[d] = None
      <4>1. g = NewFolder
        BY <2>1, <3>1 DEF FolderOf
      <4>2. \A p \in Dirs : g.tools[p] = None /\ g.pkgs[p] = None
        BY <4>1 DEF NewFolder, NoFiles
      <4>3. main.queue[d].fw \in Dirs \cup {None} /\ main.queue[d].ddp \in Dirs \cup {None}
        BY <2>2, <2>5 DEF Paths
      <4> QED
        BY <2>4, <4>2, <4>3 DEF Leads
    <3>2. CASE files[d] # None
      <4>1. g = files[d]
        BY <2>1, <3>2 DEF FolderOf
      <4> QED
        BY <2>2, <2>4, <2>6, <3>2, <4>1 DEF Leads
    <3> QED
      BY <3>1, <3>2
  <2>8. \A e \in Devices : Leads(files'[e], main.queue[e])
    BY <2>2, <2>4, <2>6, <2>7
  <2> QED
    BY <1>2, <2>8 DEF MainIs, QueueInv, FWSteps, DDPSteps
<1> QED
  BY <1>1, <1>2 DEF Downloaded

\* A package is unpacked where no path of its kind leads yet.
LEMMA QueueUnpack ==
  ASSUME TypeInv, QueueInv, NEW next, UnpackedTo(main.dev, next),
         \/ main.pc = "fwUntar" /\ next = "fwFind"
         \/ main.pc = "ddpUnpack" /\ next = "ddpFind"
  PROVE  QueueInv'
<1>1. CASE main' = Idle
  BY <1>1, QueueIdle
<1>2. CASE main' # Idle
  <2> DEFINE d == main.dev
  <2>1. /\ MainIs(main', next, main.cfg, d, main.todo, main.queue, None) /\ d \in Devices
        /\ files' = [files EXCEPT ![d] = Unpacked(files[d], files[d].archive)]
        /\ files \in [Devices -> Folder \cup {None}]
    BY <1>2 DEF UnpackedTo, TypeInv, RecordsOK
  <2>2. \A e \in Devices \ {d} : files'[e] = files[e]
    BY <2>1
  <2>3. \A e \in Devices : Leads(files[e], main.queue[e])
    BY DEF QueueInv
  <2>4. \A e \in Devices \ {d} : Leads(files'[e], main.queue[e])
    BY <2>2, <2>3
  <2>5. next = "fwFind" => Leads(files'[d], main.queue[d])
    BY DEF QueueInv, FWSteps, Leads
  <2> QED
    BY <2>1, <2>4, <2>5 DEF MainIs, QueueInv, FWSteps, DDPSteps
<1> QED
  BY <1>1, <1>2

\* What was found leads home.
LEMMA QueueFind ==
  ASSUME TypeInv, QueueInv, FindFW \/ FindDDP
  PROVE  QueueInv'
<1>1. files' = files
  BY FindFWEffect, FindDDPEffect DEF FindRest
<1>2. CASE FindFails
  BY <1>2, QueueIdle DEF FindFails
<1>3. ASSUME NEW p, NEW q, FoundOne(main.dev, p, q), Leads(files[main.dev], q),
             main'.pc \in {"ddpGet", "next"}, main'.pc = "ddpGet" => q.ddp = None,
             main.pc \in {"fwFind", "ddpFind"}
      PROVE  QueueInv'
  <2> DEFINE d == main.dev
  <2>1. /\ d \in Devices /\ main'.cfg = main.cfg /\ main'.dev = d /\ main'.todo = main.todo
        /\ \A e \in Devices : main'.queue[e] = IF e = d THEN q ELSE main.queue[e]
    BY <1>3 DEF FoundOne, MainIs
  <2>2. main.todo \subseteq Devices /\ d \notin main.todo
    BY <1>3 DEF TypeInv, RecordsOK, MainRecord, QueueInv, FWSteps, DDPSteps
  <2>3. \A e \in Devices \ {d} : Leads(files[e], main.queue[e])
    BY <1>3 DEF QueueInv
  <2>4. \A e \in Devices : Leads(files'[e], main'.queue[e])
    BY <1>1, <1>3, <2>1, <2>3
  <2>5. \A e \in main'.todo : main'.queue[e].fw = None /\ main'.queue[e].ddp = None
    BY <1>3, <2>1, <2>2 DEF QueueInv
  <2> QED
    BY <1>3, <2>1, <2>2, <2>4, <2>5 DEF QueueInv, FWSteps, DDPSteps
<1>4. CASE FindFW /\ ~FindFails
  <2>1. PICK p, q : /\ FoundOne(main.dev, p, q)
                    /\ q.fw = p /\ q.fwIs = files[main.dev].tools[p]
                    /\ q.ddp = main.queue[main.dev].ddp
                    /\ main'.pc \in {"ddpGet", "next"} /\ main.pc = "fwFind"
    BY <1>4, FindFWEffect
  <2>2. q.ddp = None
    BY <2>1 DEF QueueInv, FWSteps
  <2>3. Leads(files[main.dev], q)
    BY <2>1, <2>2 DEF Leads
  <2> QED
    BY <1>3, <2>1, <2>2, <2>3
<1>5. CASE FindDDP /\ ~FindFails
  <2>1. PICK p, q : /\ FoundOne(main.dev, p, q)
                    /\ q.fw # None => q.fwIs = files[main.dev].tools[q.fw]
                    /\ q.ddp = p /\ q.ddpIs = files[main.dev].pkgs[p]
                    /\ main'.pc = "next" /\ main.pc = "ddpFind"
    BY <1>5, FindDDPEffect
  <2>2. Leads(files[main.dev], q)
    BY <2>1 DEF Leads
  <2> QED
    BY <1>3, <2>1, <2>2
<1> QED
  BY <1>2, <1>4, <1>5

\* A step of drainFunc is one of a worker that is alive; it leaves the worker its
\* queue, and brings no file into the folders.
DrainFuncStep(s) ==
  \/ \E d \in Devices : NextDevice(s, d)
  \/ ToolStart(s) \/ ReadResult(s) \/ CopyFirst(s) \/ CopySecond(s) \/ WorkerEnds(s)
  \/ \E o \in ToolOutcome : ToolEnd(s, o)
  \/ ToolFails(s) \/ CopyFails(s)

\* The step is a worker's own: main, its queue and whether it is alone stay.
LEMMA DrainFuncEffect ==
  ASSUME TypeInv, NEW s \in Slots, DrainFuncStep(s)
  PROVE  /\ Alive(s) /\ main' = main /\ FilesShrink
         /\ \E v \in WorkerRecord : /\ worker' = [worker EXCEPT ![s] = v] /\ v.pc # "off"
                                    /\ v.queue = worker[s].queue /\ v.alone = worker[s].alone
<1> DEFINE w == worker[s]
           Goal == /\ Alive(s) /\ main' = main /\ FilesShrink
                   /\ \E v \in WorkerRecord : /\ worker' = [worker EXCEPT ![s] = v] /\ v.pc # "off"
                                              /\ v.queue = worker[s].queue /\ v.alone = worker[s].alone
<1>0. /\ files' = files => FilesShrink
      /\ files' = [d \in Devices |-> None] => FilesShrink
  BY DEF FilesShrink
<1>1. ASSUME NEW v, NEW l, NEW d, NEW t, NEW x, NEW y, NEW b, WorkerMoves(s, v, l, d, t, x, y, b),
             l # "off", w.pc \in DeviceSteps \cup {"next"}, FilesShrink
      PROVE  Goal
  <2>1. /\ v \in WorkerRecord /\ v.pc = l /\ v.queue = w.queue /\ v.alone = w.alone
        /\ worker' = [worker EXCEPT ![s] = v] /\ main' = main
    BY <1>1 DEF WorkerMoves, WorkerIs
  <2>2. Alive(s)
    BY <1>1 DEF Alive, DeviceSteps
  <2> QED
    BY <1>1, <2>1, <2>2
<1> HIDE DEF Goal
<1> SUFFICES Goal
  BY DEF Goal
<1>2. ASSUME NEW d \in Devices, NextDevice(s, d)
      PROVE  Goal
  <2>1. files' = files /\ w.pc = "next"
    BY <1>2, NextDeviceEffect
  <2>2. PICK v : WorkerMoves(s, v, "fw", d, w.todo \ {d}, w.tool, w.said, w.reboot)
    BY <1>2, NextDeviceEffect
  <2> QED
    BY <1>0, <1>1, <2>1, <2>2
<1>3. CASE ToolStart(s)
  <2>1. files' = files /\ w.pc = "fw"
    BY <1>3, ToolStartEffect
  <2>2. PICK v, l, x : WorkerMoves(s, v, l, w.dev, w.todo, x, w.said, w.reboot) /\ l # "off"
    BY <1>3, ToolStartEffect
  <2> QED
    BY <1>0, <1>1, <2>1, <2>2 DEF DeviceSteps
<1>4. CASE ReadResult(s)
  <2>1. files' = files /\ w.pc = "result"
    BY <1>4, ReadResultEffect
  <2>2. PICK v, b : WorkerMoves(s, v, "ddp", w.dev, w.todo, w.tool, w.said, b)
    BY <1>4, ReadResultEffect
  <2> QED
    BY <1>0, <1>1, <2>1, <2>2 DEF DeviceSteps
<1>5. CASE CopyFirst(s)
  <2>1. files' = files /\ w.pc = "ddp"
    BY <1>5, CopyFirstEffect
  <2>2. PICK v, l : WorkerMoves(s, v, l, w.dev, w.todo, w.tool, w.said, w.reboot) /\ l # "off"
    BY <1>5, CopyFirstEffect
  <2> QED
    BY <1>0, <1>1, <2>1, <2>2 DEF DeviceSteps
<1>6. CASE CopySecond(s)
  <2>1. files' = files /\ w.pc = "copied"
    BY <1>6, CopySecondEffect
  <2>2. PICK v, l, b : /\ WorkerMoves(s, v, l, w.dev, w.todo, w.tool, w.said, b)
                       /\ l \in {"failed", "next"}
    BY <1>6, CopySecondEffect
  <2> QED
    BY <1>0, <1>1, <2>1, <2>2 DEF DeviceSteps
<1>7. CASE WorkerEnds(s)
  <2>1. files' = [d \in Devices |-> None] /\ w.pc = "next"
    BY <1>7, WorkerEndsEffect
  <2>2. PICK v, l : WorkerMoves(s, v, l, w.dev, w.todo, w.tool, w.said, w.reboot) /\ l # "off"
    BY <1>7, WorkerEndsEffect
  <2> QED
    BY <1>0, <1>1, <2>1, <2>2
<1>8. ASSUME NEW o \in ToolOutcome, ToolEnd(s, o)
      PROVE  Goal
  <2>1. PICK d \in Devices : d = w.dev /\ w.pc = "running"
    BY <1>8, ToolEndEffect
  <2>2. files' = IF files[d] = None THEN files
                 ELSE [files EXCEPT ![d] = [files[d] EXCEPT !.result = o.result]]
    BY <1>8, <2>1, ToolEndEffect
  <2>3. files \in [Devices -> Folder \cup {None}]
    BY DEF TypeInv, RecordsOK
  <2>4. PICK r \in Result : r = o.result
    BY DEF ToolOutcome, Result
  <2>5. \A f \in Folder : LET g == [f EXCEPT !.result = r] IN g.tools = f.tools /\ g.pkgs = f.pkgs
    BY DEF Folder
  <2>6. FilesShrink
    <3>1. CASE files[d] = None
      BY <1>0, <2>2, <3>1
    <3>2. CASE files[d] # None
      <4>1. files[d] \in Folder /\ files' = [files EXCEPT ![d] = [files[d] EXCEPT !.result = r]]
        BY <2>2, <2>3, <2>4, <3>2
      <4>2. files'[d].tools = files[d].tools /\ files'[d].pkgs = files[d].pkgs
        BY <2>3, <2>5, <4>1
      <4>3. \A e \in Devices \ {d} : files'[e] = files[e]
        BY <2>3, <4>1
      <4> QED
        BY <3>2, <4>2, <4>3 DEF FilesShrink
    <3> QED
      BY <3>1, <3>2
  <2>7. PICK v : WorkerMoves(s, v, "result", d, w.todo, None, o.said, w.reboot)
    BY <1>8, <2>1, ToolEndEffect
  <2> QED
    BY <1>1, <2>1, <2>6, <2>7 DEF DeviceSteps
<1>9. CASE ToolFails(s)
  <2>1. files' = files /\ w.pc = "running"
    BY <1>9, ToolFailsEffect
  <2>2. PICK v : WorkerMoves(s, v, "failed", w.dev, w.todo, None, w.said, w.reboot)
    BY <1>9, ToolFailsEffect
  <2> QED
    BY <1>0, <1>1, <2>1, <2>2 DEF DeviceSteps
<1>10. CASE CopyFails(s)
  <2>1. files' = files /\ w.pc \in {"ddp", "copied"}
    BY <1>10, CopyFailsEffect
  <2>2. PICK v : WorkerMoves(s, v, "failed", w.dev, w.todo, w.tool, w.said, w.reboot)
    BY <1>10, CopyFailsEffect
  <2> QED
    BY <1>0, <1>1, <2>1, <2>2 DEF DeviceSteps
<1> QED
  BY <1>2, <1>3, <1>4, <1>5, <1>6, <1>7, <1>8, <1>9, <1>10 DEF DrainFuncStep

\* Every step of the daemon, sorted by what the proofs below tell apart.
LEMMA UpdateSteps ==
  ASSUME UpdateNext
  PROVE  \/ PrepareStart \/ PrepareDevice \/ PrepareStepFails
         \/ DownloadFW \/ DownloadDDP \/ UntarFW \/ UnpackDDPArchive \/ FindFW \/ FindDDP
         \/ FindPanics \/ Crash \/ (\E s \in Slots : Reboot(s))
         \/ RunStart \/ LoseLease \/ RunReturns \/ (\E s \in Slots : LeftoverEnds(s))
         \/ (\E s \in Slots : DrainFuncStep(s)) \/ Outside
BY DEF UpdateNext, MainStep, WorkerStep, Trouble, DrainFuncStep

\* Every step keeps the paths of the queue leading home.
LEMMA QueueStep == TypeInv /\ QueueInv /\ [UpdateNext]_updVars => QueueInv'
<1> SUFFICES ASSUME TypeInv, QueueInv, [UpdateNext]_updVars PROVE QueueInv'
  OBVIOUS
<1>0. files' = files => FilesShrink
  BY DEF FilesShrink
<1>1. CASE \/ PrepareStepFails \/ FindPanics \/ Crash \/ (\E s \in Slots : Reboot(s))
           \/ LoseLease \/ RunReturns
  BY <1>1, QueueIdle
     DEF PrepareStepFails, PrepareFails, FindPanics, Crash, ProcessEnds, Reboot, LoseLease, RunReturns
<1>2. CASE DownloadFW \/ DownloadDDP
  <2>1. CASE DownloadFW
    BY <2>1, DownloadEffect, QueueDownload
  <2>2. CASE DownloadDDP
    BY <2>2, DownloadEffect, QueueDownload
  <2> QED
    BY <1>2, <2>1, <2>2
<1>3. CASE UntarFW \/ UnpackDDPArchive
  <2>1. CASE UntarFW
    BY <2>1, UnpackEffect, QueueUnpack
  <2>2. CASE UnpackDDPArchive
    BY <2>2, UnpackEffect, QueueUnpack
  <2> QED
    BY <1>3, <2>1, <2>2
<1>4. CASE RunStart
  <2>1. PICK s \in Slots, v \in WorkerRecord :
           /\ worker' = [worker EXCEPT ![s] = v] /\ v.queue = main.queue
           /\ MainIs(main', "run", main.cfg, main.dev, main.todo, main.queue, s)
           /\ main.pc = "next" /\ main.todo = {} /\ files' = files
    BY <1>4, RunStartEffect
  <2>2. worker'[s] = v
    BY <2>1, WorkerSet DEF TypeInv
  <2>3. \A d \in Devices : Leads(files[d], main.queue[d])
    BY <2>1 DEF QueueInv
  <2> QED
    BY <2>1, <2>2, <2>3 DEF MainIs, QueueInv, FWSteps, DDPSteps
<1>5. ASSUME NEW s \in Slots, LeftoverEnds(s)
      PROVE  QueueInv'
  <2>1. main' = main /\ files' = files /\ main.slot # s /\ worker' = [worker EXCEPT ![s] = Off]
    BY <1>5 DEF LeftoverEnds
  <2>2. main.pc = "run" => main.slot \in Slots
    BY DEF TypeInv, RecordsOK, MainRecord, StepsOK
  <2>3. main.pc = "run" => worker'[main.slot] = worker[main.slot]
    BY <2>1, <2>2 DEF TypeInv, RecordsOK
  <2> QED
    BY <1>0, <2>1, <2>3, QueueQuiet
<1>6. ASSUME NEW s \in Slots, DrainFuncStep(s)
      PROVE  QueueInv'
  <2>1. PICK v \in WorkerRecord : worker' = [worker EXCEPT ![s] = v] /\ v.queue = worker[s].queue
    BY <1>6, DrainFuncEffect
  <2>2. main' = main /\ FilesShrink
    BY <1>6, DrainFuncEffect
  <2>3. worker'[s] = v /\ \A t \in Slots \ {s} : worker'[t] = worker[t]
    BY <2>1, WorkerSet DEF TypeInv
  <2>4. main.pc = "run" => main.slot \in Slots
    BY DEF TypeInv, RecordsOK, MainRecord, StepsOK
  <2>5. main.pc = "run" => worker'[main.slot].queue = worker[main.slot].queue
    BY <2>1, <2>3, <2>4
  <2> QED
    BY <2>2, <2>5, QueueQuiet
<1>7. CASE Outside \/ UNCHANGED updVars
  <2>1. files' = files /\ main' = main /\ worker' = worker
    BY <1>7 DEF Outside, EditSpec, Publish, updVars
  <2> QED
    BY <1>0, <2>1, QueueQuiet
<1> QED
  BY <1>1, <1>2, <1>3, <1>4, <1>5, <1>6, <1>7, QueuePrepare, QueueFind, UpdateSteps

\* What the paths of the worker lead to, in the words of the model.
LEMMA QueueMeans == TypeInv /\ QueueInv => CurrentUsesItsOwn
<1> SUFFICES ASSUME TypeInv, QueueInv, main.pc = "run", NEW d \in Devices
             PROVE  LET q == worker[main.slot].queue[d]
                    IN /\ q.fw # None => FileAt(d, "tools", q.fw) \in {None, q.fwIs}
                       /\ q.ddp # None => FileAt(d, "pkgs", q.ddp) \in {None, q.ddpIs}
  BY DEF CurrentUsesItsOwn
<1>1. Leads(files[d], worker[main.slot].queue[d])
  BY DEF QueueInv
<1>2. CASE files[d] = None
  BY <1>2 DEF FileAt
<1>3. CASE files[d] # None
  <2>1. files[d] \in Folder
    BY <1>3 DEF TypeInv, RecordsOK
  <2>2. files[d]["tools"] = files[d].tools /\ files[d]["pkgs"] = files[d].pkgs
    BY <2>1 DEF Folder
  <2> QED
    BY <1>1, <1>3, <2>2 DEF Leads, FileAt
<1> QED
  BY <1>2, <1>3

\* Every Run starts from a folder emptied for it, filled with one folder per
\* device: whatever workers without a lease remove meanwhile, and whatever the
\* packages hold, the worker Run waits for finds its own packages or none.
THEOREM CurrentIsItsOwn == UpdateSpec => []CurrentUsesItsOwn
<1>1. UpdateInit => QueueInv
  BY IdleAndOff DEF UpdateInit, QueueInv, FWSteps, DDPSteps
<1> QED
  BY <1>1, TypeInit, TypeStep, QueueStep, QueueMeans, PTL DEF UpdateSpec

-----------------------------------------------------------------------------
(* When drainFunc ended well, all is stored *)

\* While main prepares or waits for nothing, no worker is alone.
LEMMA NobodyAlone ==
  ASSUME TypeInv, AloneInv, main.pc # "run", NEW s \in Slots
  PROVE  ~(worker[s].alone /\ worker[s].pc # "off")
BY NamesAssumption DEF AloneInv, TypeInv, StepsOK

\* A step of main outside of Run concerns no worker that is alone.
LEMMA AloneMain ==
  ASSUME TypeInv, AloneInv, main.pc # "run", worker' = worker
  PROVE  AloneInv' /\ StoredInv'
BY NobodyAlone DEF AloneInv, StoredInv

\* All workers are gone.
LEMMA AloneEnds ==
  ASSUME worker' = [s \in Slots |-> Off]
  PROVE  AloneInv' /\ StoredInv'
BY IdleAndOff DEF AloneInv, StoredInv

\* Only a worker that Run started with no other alive is alone.
LEMMA AloneRun ==
  ASSUME TypeInv, AloneInv, StoredInv,
         RunStart \/ LoseLease \/ RunReturns \/ (\E s \in Slots : LeftoverEnds(s))
  PROVE  AloneInv' /\ StoredInv'
<1>1. CASE RunStart
  <2>1. PICK s \in Slots, v \in WorkerRecord :
           /\ worker[s].pc = "off" /\ worker' = [worker EXCEPT ![s] = v]
           /\ MainIs(main', "run", main.cfg, main.dev, main.todo, main.queue, s)
           /\ v.pc = "next" /\ v.todo = Devices /\ v.behind = {}
           /\ v.alone = (Others(s) = {}) /\ main.pc = "next"
    BY <1>1, RunStartEffect
  <2>2. worker'[s] = v /\ \A t \in Slots \ {s} : worker'[t] = worker[t]
    BY <2>1, WorkerSet DEF TypeInv
  <2>3. \A t \in Slots \ {s} : ~(worker'[t].alone /\ worker'[t].pc # "off")
    BY <2>1, <2>2, NobodyAlone
  <2>4. v.alone => \A t \in Slots \ {s} : ~Alive(t)
    BY <2>1 DEF Others
  <2>5. \A t \in Slots \ {s} : Alive(t)' <=> Alive(t)
    BY <2>2 DEF Alive
  <2>6. AloneInv'
    BY <2>1, <2>2, <2>3, <2>4, <2>5 DEF AloneInv, MainIs
  <2>7. FWDone(v) = {} /\ DDPDone(v) = {}
    BY <2>1 DEF FWDone, DDPDone, DeviceSteps
  <2>8. StoredBy(v)'
    BY <2>1, <2>7 DEF StoredBy, FWDone, DDPDone, DeviceSteps
  <2> QED
    BY <2>2, <2>3, <2>6, <2>8 DEF StoredInv
<1>2. CASE LoseLease
  <2>1. \A s \in Slots : ~(worker'[s].alone /\ worker'[s].pc # "off")
    <3> TAKE s \in Slots
    <3>0. worker[s] \in WorkerRecord
      BY DEF TypeInv, RecordsOK
    <3>1. CASE Alive(s)
      <4>1. worker'[s] = [worker[s] EXCEPT !.alone = FALSE, !.behind = {}, !.cut = {}]
        BY <1>2, <3>1 DEF LoseLease
      <4> QED
        BY <3>0, <4>1, WorkerLeft DEF WorkerIs
    <3>2. CASE ~Alive(s)
      <4>1. worker'[s] = worker[s] /\ Alive(main.slot)
        BY <1>2, <3>2 DEF LoseLease
      <4> QED
        BY <3>2, <4>1 DEF AloneInv
    <3> QED
      BY <3>1, <3>2
  <2> QED
    BY <2>1 DEF AloneInv, StoredInv
<1>3. CASE RunReturns
  <2>1. main.slot \in Slots /\ worker' = [worker EXCEPT ![main.slot] = Off]
    BY <1>3 DEF RunReturns, TypeInv, RecordsOK, StepsOK, MainRecord
  <2>2. worker'[main.slot] = Off /\ \A t \in Slots \ {main.slot} : worker'[t] = worker[t]
    BY <2>1, IdleAndOff, WorkerSet DEF TypeInv
  <2>3. \A s \in Slots : ~(worker'[s].alone /\ worker'[s].pc # "off")
    BY <2>2, IdleAndOff DEF AloneInv
  <2> QED
    BY <2>3 DEF AloneInv, StoredInv
<1>4. ASSUME NEW s \in Slots, LeftoverEnds(s)
      PROVE  AloneInv' /\ StoredInv'
  <2>1. worker' = [worker EXCEPT ![s] = Off] /\ UNCHANGED <<main, files, fw, ddp>>
    BY <1>4 DEF LeftoverEnds, devVars
  <2>2. worker'[s] = Off /\ \A t \in Slots \ {s} : worker'[t] = worker[t]
    BY <2>1, IdleAndOff, WorkerSet DEF TypeInv
  <2>3. AloneInv'
    BY <2>1, <2>2, IdleAndOff DEF AloneInv, Alive
  <2>4. \A w : StoredBy(w) => StoredBy(w)'
    BY <2>1 DEF StoredBy, ResultOf, FWDone, DDPDone
  <2>5. StoredInv'
    BY <2>2, <2>4, IdleAndOff DEF StoredInv
  <2> QED
    BY <2>3, <2>5
<1> QED
  BY <1>1, <1>2, <1>3, <1>4

\* What StoredBy needs of a worker that is alone, step by step of drainFunc.
LEMMA StoredNextDevice ==
  ASSUME TypeInv, NEW s \in Slots, NEW d \in Devices, NextDevice(s, d), StoredBy(worker[s])
  PROVE  StoredBy(worker[s])'
<1>1. PICK w \in WorkerRecord : w = worker[s]
  BY DEF TypeInv, RecordsOK
<1>2. w.pc = "next" /\ d \in w.todo /\ UNCHANGED <<fw, ddp, files>>
  BY <1>1, NextDeviceEffect DEF devVars
<1>3. PICK v : /\ WorkerMoves(s, v, "fw", d, w.todo \ {d}, w.tool, w.said, w.reboot)
               /\ v.behind = w.behind /\ v.cut = w.cut
  BY <1>1, NextDeviceEffect
<1>4. worker'[s] = v /\ v.pc = "fw" /\ v.queue = w.queue /\ v.dev = d /\ v.todo = w.todo \ {d} /\ v.reboot = w.reboot
  BY <1>1, <1>3, WorkerSet DEF TypeInv, WorkerMoves, WorkerIs
<1>5. FWDone(v) = FWDone(w) /\ DDPDone(v) = DDPDone(w)
  BY <1>2, <1>4 DEF FWDone, DDPDone, DeviceSteps
<1>6. StoredBy(v)'
  BY <1>1, <1>2, <1>3, <1>4, <1>5 DEF StoredBy, FWDone, DDPDone
<1> QED
  BY <1>4, <1>6

\* handleFWUpdate has nothing to do, or runs the tool that was prepared.
LEMMA StoredToolStart ==
  ASSUME TypeInv, NEW s \in Slots, ToolStart(s), StoredBy(worker[s]), worker'[s].pc # "failed",
         \A d \in Devices : Leads(files[d], worker[s].queue[d])
  PROVE  StoredBy(worker[s])'
<1>1. PICK w \in WorkerRecord : w = worker[s]
  BY DEF TypeInv, RecordsOK
<1>2. w.pc = "fw" /\ w.dev \in Devices /\ UNCHANGED <<fw, ddp, files>>
  BY <1>1, ToolStartEffect DEF devVars
<1>3. PICK v, l, x :
        /\ WorkerMoves(s, v, l, w.dev, w.todo, x, w.said, w.reboot)
        /\ v.behind = w.behind /\ v.cut = w.cut
        /\ \/ l = "ddp" /\ w.queue[w.dev].fw = None
           \/ l = "failed"
           \/ /\ l = "running" /\ w.queue[w.dev].fw \in Dirs /\ files[w.dev] # None
              /\ x = files[w.dev].tools[w.queue[w.dev].fw] /\ x \in Archives
  BY <1>1, ToolStartEffect
<1>4. worker'[s] = v /\ v.pc = l /\ v.queue = w.queue /\ v.dev = w.dev /\ v.todo = w.todo /\ v.reboot = w.reboot
      /\ v.tool = x
  BY <1>1, <1>3, WorkerSet DEF TypeInv, WorkerMoves, WorkerIs
<1>5. CASE l = "ddp"
  <2>1. FWDone(v) \subseteq FWDone(w) \cup {w.dev} /\ DDPDone(v) = DDPDone(w)
    BY <1>2, <1>4, <1>5 DEF FWDone, DDPDone, DeviceSteps
  <2>2. w.queue[w.dev].fw = None
    BY <1>3, <1>5
  <2>3. v.behind \subseteq FWDone(v) /\ v.dev \notin v.todo
    BY <1>1, <1>2, <1>3, <1>4, <1>5 DEF StoredBy, FWDone, DeviceSteps
  <2>4. /\ \A e \in FWDone(v) : v.queue[e].fw # None => fw'[e] = v.queue[e].fwIs
        /\ \A e \in DDPDone(v) : v.queue[e].ddp # None =>
             v.reboot /\ \A p \in Places : ddp'[e][p] = v.queue[e].ddpIs
    BY <1>1, <1>2, <1>4, <2>1, <2>2 DEF StoredBy
  <2>5. v.reboot \/ v.behind \subseteq v.cut
    BY <1>1, <1>2, <1>3, <1>4 DEF StoredBy
  <2>6. StoredBy(v)'
    BY <1>4, <1>5, <2>3, <2>4, <2>5 DEF StoredBy, FWDone, DDPDone
  <2> QED
    BY <1>4, <2>6
<1>6. CASE l = "running"
  <2>1. FWDone(v) = FWDone(w) /\ DDPDone(v) = DDPDone(w)
    BY <1>2, <1>4, <1>6 DEF FWDone, DDPDone, DeviceSteps
  <2>2. w.queue[w.dev].fw # None /\ x = w.queue[w.dev].fwIs
    BY <1>1, <1>2, <1>3, <1>6, NamesAssumption DEF Leads
  <2>3. v.behind \subseteq FWDone(v) /\ v.dev \notin v.todo
    BY <1>1, <1>2, <1>3, <1>4, <2>1 DEF StoredBy, DeviceSteps
  <2>4. /\ \A e \in FWDone(v) : v.queue[e].fw # None => fw'[e] = v.queue[e].fwIs
        /\ \A e \in DDPDone(v) : v.queue[e].ddp # None =>
             v.reboot /\ \A p \in Places : ddp'[e][p] = v.queue[e].ddpIs
    BY <1>1, <1>2, <1>4, <2>1 DEF StoredBy
  <2>5. v.reboot \/ v.behind \subseteq v.cut
    BY <1>1, <1>2, <1>3, <1>4 DEF StoredBy
  <2>6. StoredBy(v)'
    BY <1>4, <1>6, <2>2, <2>3, <2>4, <2>5 DEF StoredBy, FWDone, DDPDone
  <2> QED
    BY <1>4, <2>6
<1> QED
  BY <1>3, <1>4, <1>5, <1>6

\* The tool stored its package, and what it left says whether a reboot is due.
LEMMA StoredToolEnd ==
  ASSUME TypeInv, NEW s \in Slots, NEW o \in ToolOutcome, ToolEnd(s, o), StoredBy(worker[s])
  PROVE  StoredBy(worker[s])'
<1>1. PICK w \in WorkerRecord : w = worker[s]
  BY DEF TypeInv, RecordsOK
<1>2. PICK d \in Devices : d = w.dev
  BY <1>1, ToolEndEffect
<1>3. w.pc = "running" /\ fw' = [fw EXCEPT ![d] = w.tool] /\ ddp' = ddp
  BY <1>1, <1>2, ToolEndEffect
<1>4. files' = IF files[d] = None THEN files
               ELSE [files EXCEPT ![d] = [files[d] EXCEPT !.result = o.result]]
  BY <1>1, <1>2, ToolEndEffect
<1>5. PICK v : /\ WorkerMoves(s, v, "result", d, w.todo, None, o.said, w.reboot)
               /\ v.behind \subseteq w.behind \cup {d} /\ v.cut = w.cut
               /\ d \in v.behind => d \in w.behind \/ o.needs
  <2>1. PICK v : /\ WorkerMoves(s, v, "result", worker[s].dev, worker[s].todo, None, o.said, worker[s].reboot)
                 /\ v.behind = worker[s].behind \cup {e \in {worker[s].dev} : o.needs /\ worker[s].alone}
                 /\ v.cut = worker[s].cut
    BY ToolEndEffect
  <2> QED
    BY <1>1, <1>2, <2>1
<1>6. worker'[s] = v /\ v.pc = "result" /\ v.queue = w.queue /\ v.dev = d /\ v.todo = w.todo /\ v.reboot = w.reboot
      /\ v.said = o.said
  BY <1>1, <1>5, WorkerSet DEF TypeInv, WorkerMoves, WorkerIs
<1>7. FWDone(v) \subseteq FWDone(w) \cup {d} /\ DDPDone(v) = DDPDone(w) /\ FWDone(v) \subseteq Devices
  BY <1>2, <1>3, <1>6 DEF FWDone, DDPDone, DeviceSteps
<1>8. \A e \in FWDone(v) : v.queue[e].fw # None => fw'[e] = v.queue[e].fwIs
  <2>1. fw \in [Devices -> Archives \cup {Factory}]
    BY DEF TypeInv, RecordsOK
  <2>2. w.tool = w.queue[d].fwIs
    BY <1>1, <1>2, <1>3 DEF StoredBy
  <2>3. \A e \in FWDone(w) : w.queue[e].fw # None => fw[e] = w.queue[e].fwIs
    BY <1>1 DEF StoredBy
  <2> QED
    BY <1>3, <1>6, <1>7, <2>1, <2>2, <2>3
<1>9. d \in v.behind => o.said \/ ResultOf(d)' \in {None, "one", "unreadable", "cutBefore"}
  <2>0. d \in v.behind => o.needs
    BY <1>1, <1>2, <1>3, <1>5 DEF StoredBy, FWDone
  <2>1. o.needs => o.said \/ o.result \in {"one", "unreadable", "cutBefore"}
    BY DEF ToolOutcome
  <2>2. files \in [Devices -> Folder \cup {None}]
    BY DEF TypeInv, RecordsOK
  <2>3. ResultOf(d)' \in {None, o.result}
    <3>1. CASE files[d] = None
      BY <1>4, <3>1 DEF ResultOf
    <3>2. CASE files[d] # None
      <4>1. files[d] \in Folder /\ files'[d] = [files[d] EXCEPT !.result = o.result]
        BY <1>4, <2>2, <3>2
      <4>2. files'[d].result = o.result
        BY <4>1 DEF Folder
      <4> QED
        BY <4>2 DEF ResultOf
    <3> QED
      BY <3>1, <3>2
  <2> QED
    BY <2>0, <2>1, <2>3
<1>10. w.reboot \/ w.behind \subseteq w.cut
  BY <1>1, <1>3 DEF StoredBy
<1>11. v.reboot \/ v.behind \ v.cut \subseteq {d}
  BY <1>5, <1>6, <1>10
<1>12. v.behind \subseteq FWDone(v) /\ v.dev \notin v.todo
  BY <1>1, <1>2, <1>3, <1>5, <1>6 DEF StoredBy, FWDone, DeviceSteps
<1>13. \A e \in DDPDone(v) : v.queue[e].ddp # None =>
         v.reboot /\ \A p \in Places : ddp'[e][p] = v.queue[e].ddpIs
  BY <1>1, <1>3, <1>6, <1>7 DEF StoredBy
<1>14. StoredBy(v)'
  BY <1>6, <1>8, <1>9, <1>11, <1>12, <1>13 DEF StoredBy, FWDone, DDPDone, ResultOf
<1> QED
  BY <1>6, <1>14

\* handleFWUpdate knows of the reboot, or the result was cut off before the flag.
LEMMA StoredReadResult ==
  ASSUME TypeInv, NEW s \in Slots, ReadResult(s), StoredBy(worker[s]), worker[s].alone
  PROVE  StoredBy(worker[s])'
<1>1. PICK w \in WorkerRecord : w = worker[s]
  BY DEF TypeInv, RecordsOK
<1>2. PICK d \in Devices : d = w.dev
  BY <1>1, ReadResultEffect
<1>3. w.pc = "result" /\ UNCHANGED <<fw, ddp, files>>
  BY <1>1, ReadResultEffect DEF devVars
<1>4. PICK v, b : /\ WorkerMoves(s, v, "ddp", d, w.todo, w.tool, w.said, b)
                  /\ b = (w.reboot \/ RebootDecision(w.said, ResultOf(d)))
                  /\ v.behind = w.behind
                  /\ v.cut = w.cut \cup {e \in {d} : ResultOf(d) = "cutBefore" /\ w.alone}
  BY <1>1, <1>2, ReadResultEffect
<1>5. /\ worker'[s] = v /\ v.pc = "ddp" /\ v.queue = w.queue /\ v.dev = d /\ v.todo = w.todo
      /\ v.reboot = b
  BY <1>1, <1>4, WorkerSet DEF TypeInv, WorkerMoves, WorkerIs
<1>6. FWDone(v) = FWDone(w) /\ DDPDone(v) = DDPDone(w)
  BY <1>2, <1>3, <1>5 DEF FWDone, DDPDone, DeviceSteps
<1>7. w.reboot => v.reboot
  BY <1>4, <1>5
<1>8. v.reboot \/ v.behind \subseteq v.cut
  <2>1. w.reboot \/ w.behind \ w.cut \subseteq {d}
    BY <1>1, <1>2, <1>3 DEF StoredBy
  <2>2. d \in w.behind => w.said \/ ResultOf(d) \in {None, "one", "unreadable", "cutBefore"}
    BY <1>1, <1>2, <1>3 DEF StoredBy
  <2>3. w.said \/ ResultOf(d) \in {None, "one", "unreadable"} => v.reboot
    BY <1>4, <1>5 DEF RebootDecision, isRebootRequired
  <2>4. ResultOf(d) = "cutBefore" => d \in v.cut
    BY <1>1, <1>4
  <2> QED
    BY <1>4, <1>7, <2>1, <2>2, <2>3, <2>4
<1>9. \A e \in FWDone(v) : v.queue[e].fw # None => fw'[e] = v.queue[e].fwIs
  BY <1>1, <1>3, <1>5, <1>6 DEF StoredBy
<1>10. \A e \in DDPDone(v) : v.queue[e].ddp # None =>
         v.reboot /\ \A p \in Places : ddp'[e][p] = v.queue[e].ddpIs
  BY <1>1, <1>3, <1>5, <1>6, <1>7 DEF StoredBy
<1>11. v.behind \subseteq FWDone(v) /\ v.dev \notin v.todo
  BY <1>1, <1>2, <1>3, <1>4, <1>5, <1>6 DEF StoredBy, DeviceSteps
<1>12. StoredBy(v)'
  BY <1>5, <1>8, <1>9, <1>10, <1>11 DEF StoredBy, FWDone, DDPDone
<1> QED
  BY <1>5, <1>12

\* A profile in one place leaves the other and all other devices as they are.
LEMMA ProfileStored ==
  ASSUME TypeInv, NEW d \in Devices, NEW p, NEW place \in Places, ProfileCopied(d, p, place)
  PROVE  /\ ddp'[d][place] = files[d].pkgs[p]
         /\ \A q \in Places \ {place} : ddp'[d][q] = ddp[d][q]
         /\ \A e \in Devices \ {d} : ddp'[e] = ddp[e]
<1>1. ddp \in [Devices -> [Places -> Archives \cup {Factory}]]
  BY DEF TypeInv, RecordsOK
<1>2. PICK a : a = files[d].pkgs[p]
  OBVIOUS
<1>3. PICK g : g = [ddp[d] EXCEPT ![place] = a]
  OBVIOUS
<1>4. ddp' = [ddp EXCEPT ![d] = g]
  BY <1>2, <1>3 DEF ProfileCopied
<1>5. g[place] = a /\ \A q \in Places \ {place} : g[q] = ddp[d][q]
  BY <1>1, <1>3
<1>6. ddp'[d] = g /\ \A e \in Devices \ {d} : ddp'[e] = ddp[e]
  BY <1>1, <1>4
<1> QED
  BY <1>2, <1>5, <1>6

\* handleDDPUpdate has nothing to do, or copied the profile that was prepared to
\* the first place.
LEMMA StoredCopyFirst ==
  ASSUME TypeInv, NEW s \in Slots, CopyFirst(s), StoredBy(worker[s]), worker'[s].pc # "failed",
         \A d \in Devices : Leads(files[d], worker[s].queue[d])
  PROVE  StoredBy(worker[s])'
<1>1. PICK w \in WorkerRecord : w = worker[s]
  BY DEF TypeInv, RecordsOK
<1>2. PICK d \in Devices : d = w.dev
  BY <1>1, CopyFirstEffect
<1>3. w.pc = "ddp" /\ UNCHANGED <<fw, files>>
  BY <1>1, CopyFirstEffect
<1>4. PICK v, l : /\ WorkerMoves(s, v, l, d, w.todo, w.tool, w.said, w.reboot)
                  /\ v.behind = w.behind /\ v.cut = w.cut
                  /\ \/ l = "next" /\ w.queue[d].ddp = None /\ UNCHANGED ddp
                     \/ l = "failed" /\ UNCHANGED ddp
                     \/ /\ l = "copied" /\ w.queue[d].ddp # None
                        /\ ProfileCopied(d, w.queue[d].ddp, "intel")
  BY <1>1, <1>2, CopyFirstEffect
<1>5. /\ worker'[s] = v /\ v.pc = l /\ v.queue = w.queue /\ v.dev = d /\ v.todo = w.todo
      /\ v.reboot = w.reboot /\ l # "failed"
  BY <1>1, <1>4, WorkerSet DEF TypeInv, WorkerMoves, WorkerIs
<1>6. FWDone(v) = FWDone(w) /\ DDPDone(w) \subseteq DDPDone(v) /\ DDPDone(v) \subseteq DDPDone(w) \cup {d}
  BY <1>2, <1>3, <1>4, <1>5 DEF FWDone, DDPDone, DeviceSteps
<1>7. \A e \in FWDone(v) : v.queue[e].fw # None => fw'[e] = v.queue[e].fwIs
  BY <1>1, <1>3, <1>5, <1>6 DEF StoredBy
<1>8. v.reboot \/ v.behind \subseteq v.cut
  BY <1>1, <1>3, <1>4, <1>5 DEF StoredBy
<1>9. v.behind \subseteq FWDone(v) /\ v.dev \notin v.todo
  BY <1>1, <1>2, <1>3, <1>4, <1>5, <1>6 DEF StoredBy, DeviceSteps
<1>10. \A e \in DDPDone(w) : w.queue[e].ddp # None =>
         w.reboot /\ \A p \in Places : ddp[e][p] = w.queue[e].ddpIs
  BY <1>1 DEF StoredBy
<1>11. CASE l = "next"
  <2>1. \A e \in DDPDone(v) : v.queue[e].ddp # None =>
          v.reboot /\ \A p \in Places : ddp'[e][p] = v.queue[e].ddpIs
    BY <1>4, <1>5, <1>6, <1>10, <1>11
  <2>2. StoredBy(v)'
    BY <1>5, <1>7, <1>8, <1>9, <1>11, <2>1 DEF StoredBy, FWDone, DDPDone
  <2> QED
    BY <1>5, <2>2
<1>12. CASE l = "copied"
  <2>1. ProfileCopied(d, w.queue[d].ddp, "intel") /\ w.queue[d].ddp # None
    BY <1>4, <1>12
  <2>2. ddp'[d]["intel"] = files[d].pkgs[w.queue[d].ddp] /\ \A e \in Devices \ {d} : ddp'[e] = ddp[e]
    BY <2>1, ProfileStored DEF Places
  <2>3. files[d].pkgs[w.queue[d].ddp] = w.queue[d].ddpIs
    BY <1>1, <2>1, NamesAssumption DEF ProfileCopied, Leads
  <2>4. DDPDone(v) = DDPDone(w) /\ d \notin DDPDone(v) /\ DDPDone(v) \subseteq Devices
    BY <1>2, <1>3, <1>5, <1>12 DEF DDPDone, DeviceSteps
  <2>5. \A e \in DDPDone(v) : v.queue[e].ddp # None =>
          v.reboot /\ \A p \in Places : ddp'[e][p] = v.queue[e].ddpIs
    BY <1>5, <1>10, <2>2, <2>4
  <2>6. StoredBy(v)'
    BY <1>5, <1>7, <1>8, <1>9, <1>12, <2>2, <2>3, <2>5 DEF StoredBy, FWDone, DDPDone
  <2> QED
    BY <1>5, <2>6
<1> QED
  BY <1>4, <1>5, <1>11, <1>12

\* handleDDPUpdate copied it to the second place as well, and asks for a reboot.
LEMMA StoredCopySecond ==
  ASSUME TypeInv, NEW s \in Slots, CopySecond(s), StoredBy(worker[s]), worker'[s].pc # "failed",
         \A d \in Devices : Leads(files[d], worker[s].queue[d])
  PROVE  StoredBy(worker[s])'
<1>1. PICK w \in WorkerRecord : w = worker[s]
  BY DEF TypeInv, RecordsOK
<1>2. PICK d \in Devices : d = w.dev
  BY <1>1, CopySecondEffect
<1>3. w.pc = "copied" /\ UNCHANGED <<fw, files>> /\ w.queue[d].ddp # None
  BY <1>1, <1>2, CopySecondEffect
<1>4. PICK v : /\ v.behind = w.behind /\ v.cut = w.cut
               /\ \/ WorkerMoves(s, v, "failed", d, w.todo, w.tool, w.said, w.reboot)
                  \/ /\ WorkerMoves(s, v, "next", d, w.todo, w.tool, w.said, TRUE)
                     /\ ProfileCopied(d, w.queue[d].ddp, "updates")
  BY <1>1, <1>2, CopySecondEffect
<1>5. worker'[s] = v
  BY <1>1, <1>4, WorkerSet DEF TypeInv, WorkerMoves, WorkerIs
<1>6. /\ WorkerMoves(s, v, "next", d, w.todo, w.tool, w.said, TRUE)
      /\ ProfileCopied(d, w.queue[d].ddp, "updates")
  BY <1>4, <1>5 DEF WorkerMoves, WorkerIs
<1>7. v.pc = "next" /\ v.queue = w.queue /\ v.todo = w.todo /\ v.reboot = TRUE
  BY <1>1, <1>6 DEF WorkerMoves, WorkerIs
<1>8. FWDone(v) = FWDone(w) /\ DDPDone(v) \subseteq DDPDone(w) \cup {d} /\ DDPDone(v) \subseteq Devices
  BY <1>2, <1>3, <1>7 DEF FWDone, DDPDone, DeviceSteps
<1>9. \A e \in FWDone(v) : v.queue[e].fw # None => fw'[e] = v.queue[e].fwIs
  BY <1>1, <1>3, <1>7, <1>8 DEF StoredBy
<1>10. v.behind \subseteq FWDone(v)
  BY <1>1, <1>4, <1>8 DEF StoredBy
<1>11. /\ ddp'[d]["updates"] = files[d].pkgs[w.queue[d].ddp] /\ ddp'[d]["intel"] = ddp[d]["intel"]
       /\ \A e \in Devices \ {d} : ddp'[e] = ddp[e]
  BY <1>6, ProfileStored DEF Places
<1>12. files[d].pkgs[w.queue[d].ddp] = w.queue[d].ddpIs /\ ddp[d]["intel"] = w.queue[d].ddpIs
  BY <1>1, <1>2, <1>3, <1>6, NamesAssumption DEF ProfileCopied, Leads, StoredBy
<1>13. \A p \in Places : ddp'[d][p] = w.queue[d].ddpIs
  BY <1>11, <1>12 DEF Places
<1>14. \A e \in DDPDone(w) : w.queue[e].ddp # None =>
         \A p \in Places : ddp[e][p] = w.queue[e].ddpIs
  BY <1>1 DEF StoredBy
<1>15. \A e \in DDPDone(v) : v.queue[e].ddp # None =>
         \A p \in Places : ddp'[e][p] = v.queue[e].ddpIs
  BY <1>7, <1>8, <1>11, <1>13, <1>14
<1>16. StoredBy(v)'
  BY <1>7, <1>9, <1>10, <1>15 DEF StoredBy, FWDone, DDPDone, DeviceSteps
<1> QED
  BY <1>5, <1>16

\* drainFunc ends with the decision its devices left.
LEMMA StoredWorkerEnds ==
  ASSUME TypeInv, NEW s \in Slots, WorkerEnds(s), StoredBy(worker[s])
  PROVE  StoredBy(worker[s])'
<1>1. PICK w \in WorkerRecord : w = worker[s]
  BY DEF TypeInv, RecordsOK
<1>2. w.pc = "next" /\ w.todo = {} /\ UNCHANGED <<fw, ddp>>
  BY <1>1, WorkerEndsEffect DEF devVars
<1>3. PICK v, l : /\ WorkerMoves(s, v, l, w.dev, w.todo, w.tool, w.said, w.reboot)
                  /\ l = IF w.reboot THEN "reboot" ELSE "done"
                  /\ v.behind = w.behind /\ v.cut = w.cut
  BY <1>1, WorkerEndsEffect
<1>4. worker'[s] = v /\ v.pc = l /\ v.queue = w.queue /\ v.todo = w.todo /\ v.reboot = w.reboot
  BY <1>1, <1>3, WorkerSet DEF TypeInv, WorkerMoves, WorkerIs
<1>5. FWDone(v) = FWDone(w) /\ DDPDone(v) = DDPDone(w) /\ l \notin DeviceSteps
  BY <1>2, <1>3, <1>4 DEF FWDone, DDPDone, DeviceSteps
<1>6. l \in {"done", "reboot"} /\ (l = "reboot" <=> w.reboot)
  BY <1>3
<1>7. StoredBy(v)'
  BY <1>1, <1>2, <1>3, <1>4, <1>5, <1>6 DEF StoredBy, FWDone, DDPDone
<1> QED
  BY <1>4, <1>7

\* A step of drainFunc keeps a worker that is alone alone.
LEMMA AloneDrain ==
  ASSUME TypeInv, AloneInv, NEW s \in Slots, DrainFuncStep(s)
  PROVE  /\ AloneInv'
         /\ \A t \in Slots \ {s} : ~(worker'[t].alone /\ worker'[t].pc # "off")
         /\ worker'[s].alone = worker[s].alone /\ worker[s].pc \notin {"off", "failed"}
<1>1. PICK v \in WorkerRecord : /\ worker' = [worker EXCEPT ![s] = v] /\ v.alone = worker[s].alone
  BY DrainFuncEffect
<1>2. Alive(s) /\ main' = main
  BY DrainFuncEffect
<1>3. worker'[s] = v /\ \A t \in Slots \ {s} : worker'[t] = worker[t]
  BY <1>1, WorkerSet DEF TypeInv
<1>4. \A t \in Slots \ {s} : ~(worker'[t].alone /\ worker'[t].pc # "off")
  BY <1>2, <1>3 DEF AloneInv
<1>5. worker[s].pc \notin {"off", "failed"}
  BY <1>2 DEF Alive
<1>6. AloneInv'
  BY <1>1, <1>2, <1>3, <1>4, <1>5 DEF AloneInv, Alive
<1> QED
  BY <1>1, <1>3, <1>4, <1>5, <1>6

\* So does it store what is behind it.
LEMMA StoredDrain ==
  ASSUME TypeInv, QueueInv, AloneInv, StoredInv, NEW s \in Slots, DrainFuncStep(s)
  PROVE  StoredInv'
<1>1. SUFFICES ASSUME worker[s].alone, worker'[s].pc # "failed"
               PROVE  StoredBy(worker[s])'
  BY AloneDrain DEF StoredInv
<1>2. worker[s].pc \notin {"off", "failed"}
  BY AloneDrain
<1>3. StoredBy(worker[s]) /\ main.slot = s
  BY <1>1, <1>2 DEF StoredInv, AloneInv
<1>4. main.pc = "run"
  BY <1>3, NamesAssumption DEF TypeInv, StepsOK
<1>5. \A d \in Devices : Leads(files[d], worker[s].queue[d])
  BY <1>3, <1>4 DEF QueueInv
<1>6. CASE \E d \in Devices : NextDevice(s, d)
  BY <1>3, <1>6, StoredNextDevice
<1>7. CASE \E o \in ToolOutcome : ToolEnd(s, o)
  BY <1>3, <1>7, StoredToolEnd
<1>8. CASE ToolFails(s)
  BY <1>1, <1>8, ToolFailsEffect, WorkerSet DEF TypeInv, WorkerMoves, WorkerIs
<1>9. CASE CopyFails(s)
  BY <1>1, <1>9, CopyFailsEffect, WorkerSet DEF TypeInv, WorkerMoves, WorkerIs
<1>10. CASE ToolStart(s)
  BY <1>1, <1>3, <1>5, <1>10, StoredToolStart
<1>11. CASE ReadResult(s)
  BY <1>1, <1>3, <1>11, StoredReadResult
<1>12. CASE CopyFirst(s)
  BY <1>1, <1>3, <1>5, <1>12, StoredCopyFirst
<1>13. CASE CopySecond(s)
  BY <1>1, <1>3, <1>5, <1>13, StoredCopySecond
<1>14. CASE WorkerEnds(s)
  BY <1>3, <1>14, StoredWorkerEnds
<1> QED
  BY <1>6, <1>7, <1>8, <1>9, <1>10, <1>11, <1>12, <1>13, <1>14 DEF DrainFuncStep

\* Every step keeps what a worker that is alone stored.
LEMMA StoredStep ==
  TypeInv /\ QueueInv /\ AloneInv /\ StoredInv /\ [UpdateNext]_updVars => AloneInv' /\ StoredInv'
<1> SUFFICES ASSUME TypeInv, QueueInv, AloneInv, StoredInv, [UpdateNext]_updVars
             PROVE  AloneInv' /\ StoredInv'
  OBVIOUS
<1>1. CASE PrepareStart \/ PrepareDevice \/ PrepareStepFails \/ FindFW \/ FindDDP
  <2>1. main.pc # "run" /\ worker' = worker
    BY <1>1 DEF PrepareStart, PrepareDevice, PrepareStepFails, FindFW, FindDDP
  <2> QED
    BY <2>1, AloneMain
<1>2. CASE DownloadFW \/ DownloadDDP \/ UntarFW \/ UnpackDDPArchive
  <2>1. main.pc # "run" /\ worker' = worker
    BY <1>2 DEF DownloadFW, DownloadDDP, UntarFW, UnpackDDPArchive, Download, Unpack
  <2> QED
    BY <2>1, AloneMain
<1>3. CASE FindPanics \/ Crash \/ \E s \in Slots : Reboot(s)
  BY <1>3, AloneEnds DEF FindPanics, Crash, ProcessEnds, Reboot
<1>4. CASE \E s \in Slots : DrainFuncStep(s)
  BY <1>4, AloneDrain, StoredDrain
<1>5. CASE Outside \/ UNCHANGED updVars
  <2>1. UNCHANGED <<main, worker, files, fw, ddp>>
    BY <1>5 DEF Outside, EditSpec, Publish, updVars, devVars
  <2>2. \A w : StoredBy(w) => StoredBy(w)'
    BY <2>1 DEF StoredBy, ResultOf, FWDone, DDPDone
  <2> QED
    BY <2>1, <2>2 DEF AloneInv, StoredInv, Alive
<1> QED
  BY <1>1, <1>2, <1>3, <1>4, <1>5, AloneRun, UpdateSteps

\* All of the queue is behind a worker that ended.
LEMMA StoredMeans == TypeInv /\ StoredInv => EndedMeansStored
<1> SUFFICES ASSUME TypeInv, StoredInv, NEW s \in Slots, worker[s].alone,
                    worker[s].pc \in {"done", "reboot"}, NEW d \in Devices
             PROVE  LET q == worker[s].queue[d]
                    IN /\ q.fw # None => fw[d] = q.fwIs
                       /\ q.ddp # None => \A p \in Places : ddp[d][p] = q.ddpIs
                       /\ worker[s].pc = "done" => worker[s].behind \subseteq worker[s].cut
                       /\ q.ddp # None => worker[s].pc = "reboot"
  BY DEF EndedMeansStored
<1>1. PICK w \in WorkerRecord : w = worker[s]
  BY DEF TypeInv, RecordsOK
<1>2. StoredBy(w) /\ w.pc \in {"done", "reboot"}
  BY <1>1 DEF StoredInv
<1>3. w.todo = {} /\ (w.pc = "reboot" <=> w.reboot)
  BY <1>2 DEF StoredBy
<1>4. FWDone(w) = Devices /\ DDPDone(w) = Devices
  BY <1>2, <1>3 DEF FWDone, DDPDone, DeviceSteps
<1>5. w.pc = "done" => w.behind \subseteq w.cut
  BY <1>2, <1>3 DEF StoredBy
<1>6. /\ w.queue[d].fw # None => fw[d] = w.queue[d].fwIs
      /\ w.queue[d].ddp # None => w.reboot /\ \A p \in Places : ddp[d][p] = w.queue[d].ddpIs
  BY <1>2, <1>4 DEF StoredBy
<1> QED
  BY <1>1, <1>3, <1>5, <1>6

\* A drainFunc that nobody else disturbed, once it ended well, has stored all
\* packages of its queue, and asked for the reboot that they take, whatever the
\* tools answered, unless their result was cut off before the flag.
THEOREM EndedIsStored == UpdateSpec => []EndedMeansStored
<1>1. UpdateInit => QueueInv
  BY IdleAndOff DEF UpdateInit, QueueInv, FWSteps, DDPSteps
<1>2. UpdateInit => AloneInv /\ StoredInv
  BY IdleAndOff DEF UpdateInit, AloneInv, StoredInv
<1> QED
  BY <1>1, <1>2, TypeInit, TypeStep, QueueStep, StoredStep, StoredMeans, PTL DEF UpdateSpec

=============================================================================
