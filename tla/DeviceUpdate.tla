------------------------------ MODULE DeviceUpdate ------------------------------
(***************************************************************************)
(* pkg/fwddp-daemon/{fwupdater,ddpupdater,deviceupdate}.go, pkg/utils and  *)
(* the two functions of daemon.go that use them: how FW and DDP packages   *)
(* get from a URL to the devices of one node, file by file.                *)
(*                                                                         *)
(* prepareUpdateQueue (main) fills a folder per device; configureNode's    *)
(* drainFunc (worker[s]) uses it later, by its paths.  A worker whose Run  *)
(* lost its lease goes on while main prepares the next update in the same  *)
(* folders (NodeConfigDaemon and DrainHelper say when that happens; here   *)
(* LoseLease does).                                                        *)
(***************************************************************************)
EXTENDS Naturals, FiniteSets

CONSTANTS
  Devices,    \* PCI addresses
  Urls,       \* where packages are served
  Archives,   \* the packages: contents of a download, and so checksums
  Dirs,       \* places inside a package where a file may be
  Layout,     \* what each package holds
  Factory,    \* the package found on every device at first
  None,       \* an empty URL, checksum or path; a file that is not there
  Wants,      \* the spec.config values the daemon may find
  InitWant,   \* the spec.config the daemon finds first
  InitServer, \* what the URLs serve at first
  Slots,      \* workers that can be alive at a time
  Publications, \* the <<URL, package>> pairs that may be served later
  MaxTrouble  \* bound: changes of the spec and of the served packages, failures
              \* and lost leases

\* The regular files that count (links are not unpacked): nvmupdate64e tools,
\* .pkg profiles; a DDP package is a zip with one ice_*.zip inside, or a tar.
\* A package that is not whole ends in an error halfway: a header, a path that
\* leads out of the folder, a type of file that is not supported.
PackageLayout == [format : {"tar", "zip", "other"}, inner : 0..2, whole : BOOLEAN,
                  tools : SUBSET Dirs, pkgs : SUBSET Dirs]

Request == [fw : Urls \cup {None}, fwSum : Archives \cup {None},
            ddp : Urls \cup {None}, ddpSum : Archives \cup {None}]

ASSUME LayoutAssumption == Layout \in [Archives -> PackageLayout]
ASSUME NamesAssumption == None \notin Urls \cup Archives \cup Dirs \cup Slots /\ Factory \notin Archives
ASSUME WantsAssumption == Wants \subseteq [Devices -> Request] /\ InitWant \in Wants
ASSUME ServerAssumption == InitServer \in [Urls -> Archives]
ASSUME SlotsAssumption == IsFiniteSet(Slots) /\ Slots # {}
ASSUME PublicationsAssumption == Publications \subseteq Urls \X Archives
ASSUME TroubleAssumption == MaxTrouble \in Nat

VARIABLES
  want,    \* spec.config
  server,  \* what the URLs serve
  files,   \* the artifacts folder: a folder per device, or None
  main,    \* the variables of Reconcile and prepareUpdateQueue
  worker,  \* the variables of drainFunc, per worker
  dirty,   \* an update is due: the spec changed, or the last try failed
  fw,      \* the firmware stored on each device
  ddp,     \* the DDP profile in each of the two places of the node's firmware
  asked,   \* the packages some spec let pass for each device
  trouble  \* what is left of MaxTrouble

envVars == <<want, server>>
devVars == <<fw, ddp>>
updVars == <<want, server, files, main, worker, dirty, fw, ddp, asked,
             trouble>>

Places == {"intel", "updates"}

\* update.xml: not there; not readable (too large, too slow, or the RebootRequired
\* element not a number or cut off inside); whole, with its flag (or cut off
\* after it); or cut off before the element.
Result == {None, "unreadable", "zero", "one", "cutBefore"}

Folder == [archive : Archives \cup {None}, tools : [Dirs -> Archives \cup {None}],
           pkgs : [Dirs -> Archives \cup {None}], result : Result]

NoFiles == [d \in Dirs |-> None]
NewFolder == [archive |-> None, tools |-> NoFiles, pkgs |-> NoFiles, result |-> None]

\* deviceUpdateArtifacts: the paths, and what they led to when the last package of
\* the device was unpacked (for properties).
NoPaths == [d \in Devices |-> [fw |-> None, ddp |-> None, fwIs |-> None, ddpIs |-> None]]

Idle == [pc |-> "idle", cfg |-> None, dev |-> None, todo |-> {}, queue |-> NoPaths,
         slot |-> None]

\* For EndedMeansStored, a worker that no other shares the folder with (alone)
\* has the devices that wait for a reboot (behind) and those whose result was cut.
Off == [pc |-> "off", queue |-> NoPaths, dev |-> None, todo |-> {}, tool |-> None,
        said |-> FALSE, reboot |-> FALSE, alone |-> TRUE,
        behind |-> {}, cut |-> {}]

MainPCs == {"idle", "next", "fwGet", "fwUntar", "fwFind", "ddpGet", "ddpUnpack", "ddpFind", "run"}
WorkerPCs == {"off", "next", "fw", "running", "result", "ddp", "copied", "failed", "done", "reboot"}

Alive(s) == worker[s].pc \notin {"off", "failed", "done"}
Others(s) == {t \in Slots \ {s} : Alive(t)}

UpdateTypeOK ==
  /\ want \in Wants /\ server \in [Urls -> Archives]
  /\ files \in [Devices -> Folder \cup {None}]
  /\ main.pc \in MainPCs /\ main.dev \in Devices \cup {None} /\ main.todo \subseteq Devices
  /\ main.slot \in Slots \cup {None} /\ (main.pc = "run" <=> main.slot # None)
  /\ \A s \in Slots :
       /\ worker[s].pc \in WorkerPCs /\ worker[s].dev \in Devices \cup {None}
       /\ worker[s].todo \subseteq Devices /\ worker[s].behind \cup worker[s].cut \subseteq Devices
       /\ worker[s].tool \in Archives \cup {None}
       /\ \A d \in Devices : {worker[s].queue[d].fw, worker[s].queue[d].ddp} \subseteq Dirs \cup {None}
  /\ fw \in [Devices -> Archives \cup {Factory}]
  /\ ddp \in [Devices -> [Places -> Archives \cup {Factory}]]
  /\ asked \in [Devices -> SUBSET Archives]
  /\ trouble \in Nat

UpdateInit ==
  /\ want = InitWant
  /\ server = InitServer
  /\ files = [d \in Devices |-> None]
  /\ main = Idle
  /\ worker = [s \in Slots |-> Off]
  /\ dirty = TRUE
  /\ fw = [d \in Devices |-> Factory]
  /\ ddp = [d \in Devices |-> [p \in Places |-> Factory]]
  /\ asked = [d \in Devices |-> {}]
  /\ trouble = MaxTrouble

Fault == trouble > 0 /\ trouble' = trouble - 1

-----------------------------------------------------------------------------
(* prepareUpdateQueue *)

goto(l) == main' = [main EXCEPT !.pc = l]

\* Reconcile ends with UpdateFailed and requeueLater.
PrepareFails == main' = Idle /\ dirty' = TRUE

\* Faulty: what is there stays there.
PrepareStartUncleaned ==
  /\ main.pc = "idle" /\ dirty
  /\ \A s \in Slots : worker[s].pc # "reboot"
  /\ main' = [Idle EXCEPT !.pc = "next", !.cfg = want, !.todo = Devices]
  /\ dirty' = FALSE
  /\ UNCHANGED <<envVars, devVars, files, worker, asked, trouble>>

\* The inventory is there and the artifacts folder removed.  (A node that is
\* going down prepares nothing more.)
PrepareStart ==
  /\ main.pc = "idle" /\ dirty
  /\ \A s \in Slots : worker[s].pc # "reboot"
  /\ main' = [Idle EXCEPT !.pc = "next", !.cfg = want, !.todo = Devices]
  /\ files' = [d \in Devices |-> None]
  /\ dirty' = FALSE
  /\ UNCHANGED <<envVars, devVars, worker, asked, trouble>>

\* prepareArtifacts of the next device of the list: an empty URL needs nothing.
PrepareDevice ==
  LET d == CHOOSE e \in main.todo : TRUE
  IN
  /\ main.pc = "next" /\ main.todo # {}
  /\ main' = [main EXCEPT !.dev = d, !.todo = @ \ {d},
                !.pc = CASE main.cfg[d].fw # None -> "fwGet"
                         [] main.cfg[d].fw = None /\ main.cfg[d].ddp # None -> "ddpGet"
                         [] OTHER -> "next"]
  /\ UNCHANGED <<envVars, devVars, files, worker, dirty, asked, trouble>>

\* Faulty: one folder for all devices.
TargetPathShared(d) == Devices

\* The devices whose folder a path with the PCI address of d is in.
TargetPath(d) == {d}

\* The folder of d is there (CreateFolder) and becomes f.
Put(d, f) == files' = [e \in Devices |-> IF e \in TargetPath(d) THEN f ELSE files[e]]

Archive(d) == IF files[d] = None THEN None ELSE files[d].archive

FolderOf(d) == IF files[d] = None THEN NewFolder ELSE files[d]

FileAt(d, kind, p) == IF files[d] = None THEN None ELSE files[d][kind][p]

\* Faulty: a download without its checksum is as good as one that has it.
ChecksumIgnored(a, sum) == TRUE

\* verifyChecksum, asked only for a checksum that is not empty.
ChecksumFits(a, sum) == sum \in {None, a}

\* DownloadFile, of either package: what the server has now, or an error; after
\* an error the file may be there.  asked keeps what the spec allows.
Download(pc, url, sum, next) ==
  /\ main.pc = pc
  /\ LET a == server[url]
     IN /\ Put(main.dev, [FolderOf(main.dev) EXCEPT !.archive = a])
        /\ IF ChecksumFits(a, sum) THEN goto(next) /\ UNCHANGED dirty ELSE PrepareFails
        /\ asked' = [asked EXCEPT ![main.dev] = IF sum \in {None, a} THEN @ \cup {a} ELSE @]
  /\ UNCHANGED <<envVars, devVars, worker, trouble>>

DownloadFW == Download("fwGet", main.cfg[main.dev].fw, main.cfg[main.dev].fwSum, "fwUntar")
DownloadDDP == Download("ddpGet", main.cfg[main.dev].ddp, main.cfg[main.dev].ddpSum, "ddpUnpack")

\* No inventory, no folder, no answer, another status than 200, a cut download.
PrepareStepFails ==
  /\ main.pc \in {"next", "fwGet", "fwUntar", "ddpGet", "ddpUnpack"}
  /\ Fault
  /\ PrepareFails
  /\ UNCHANGED <<envVars, devVars, files, worker, asked>>

\* The files at these places become those of package a.  (Untar and unzipFile open
\* them without O_TRUNC.  The folder was removed before, so only the FW package of
\* the same device can have left one there; that a longer one keeps its tail is
\* left out.)
Unpacked(f, a) ==
  [f EXCEPT !.tools = [d \in Dirs |-> IF d \in Layout[a].tools THEN a ELSE @[d]],
            !.pkgs = [d \in Dirs |-> IF d \in Layout[a].pkgs THEN a ELSE @[d]]]

\* Untar, or Unzip (of the package and then of the one ice_*.zip in it).
Unpacks(a, formats) ==
  /\ Layout[a].format \in formats /\ Layout[a].whole
  /\ Layout[a].format = "zip" => Layout[a].inner = 1

Unpack(pc, formats, next) ==
  LET f == files[main.dev]
  IN /\ main.pc = pc
     /\ \/ /\ Archive(main.dev) # None /\ Unpacks(f.archive, formats)
           /\ Put(main.dev, Unpacked(f, f.archive))
           /\ goto(next) /\ UNCHANGED dirty
        \/ \* not this format, or not whole: some of the files may be there
           /\ Archive(main.dev) # None /\ ~Unpacks(f.archive, formats)
           /\ Put(main.dev, f) \/ Put(main.dev, Unpacked(f, f.archive))
           /\ PrepareFails
        \/ /\ Archive(main.dev) = None
           /\ PrepareFails /\ UNCHANGED files
     /\ UNCHANGED <<envVars, devVars, worker, asked, trouble>>

UntarFW == Unpack("fwUntar", {"tar"}, "fwFind")
UnpackDDPArchive == Unpack("ddpUnpack", {"zip", "tar"}, "ddpFind")

Found(fs) == {d \in Dirs : fs[d] # None}

\* findFwExec: exactly one tool in the device's folder.
FindFW ==
  LET f == files[main.dev]
  IN /\ main.pc = "fwFind" /\ f # None
     /\ IF Cardinality(Found(f.tools)) = 1
          THEN /\ \E p \in Found(f.tools) :
                    main' = [main EXCEPT !.queue[main.dev] = [@ EXCEPT !.fw = p, !.fwIs = f.tools[p]],
                               !.pc = IF main.cfg[main.dev].ddp # None THEN "ddpGet" ELSE "next"]
               /\ UNCHANGED dirty
          ELSE PrepareFails
     /\ UNCHANGED <<envVars, devVars, files, worker, asked, trouble>>

\* findDdpProfile: exactly one profile, those of the FW package counted.  (A tool
\* of the DDP package at the place of the FW tool has replaced it by now.)
FindDDP ==
  LET f == files[main.dev]
      q == main.queue[main.dev]
  IN /\ main.pc = "ddpFind" /\ f # None
     /\ IF Cardinality(Found(f.pkgs)) = 1
          THEN /\ \E p \in Found(f.pkgs) :
                    main' = [main EXCEPT !.pc = "next", !.queue[main.dev] =
                               [q EXCEPT !.ddp = p, !.ddpIs = f.pkgs[p],
                                         !.fwIs = IF q.fw = None THEN None ELSE f.tools[q.fw]]]
               /\ UNCHANGED dirty
          ELSE PrepareFails
     /\ UNCHANGED <<envVars, devVars, files, worker, asked, trouble>>

\* The process is gone, and its workers with it.  A tool may have done its work.
ProcessEnds ==
  /\ main' = Idle
  /\ worker' = [s \in Slots |-> Off]
  /\ dirty' = TRUE
  /\ fw' \in {fw} \cup {[fw EXCEPT ![worker[s].dev] = worker[s].tool] :
                          s \in {t \in Slots : worker[t].pc = "running"}}

\* The folder went between unpacking and looking: filepath.Walk calls back
\* without a FileInfo, and the daemon panics.
FindPanics ==
  /\ main.pc \in {"fwFind", "ddpFind"} /\ files[main.dev] = None
  /\ ProcessEnds
  /\ UNCHANGED <<envVars, files, ddp, asked, trouble>>

Crash ==
  /\ Fault
  /\ ProcessEnds
  /\ UNCHANGED <<envVars, files, ddp, asked>>

-----------------------------------------------------------------------------
(* configureNode *)

\* Run: the lease is taken, the node drained, and drainFunc starts.
RunStart ==
  LET s == CHOOSE t \in Slots : worker[t].pc = "off"
  IN
  /\ main.pc = "next" /\ main.todo = {}
  /\ \E t \in Slots : worker[t].pc = "off"
  /\ worker' = [worker EXCEPT ![s] = [Off EXCEPT !.pc = "next", !.queue = main.queue,
                                        !.todo = Devices, !.alone = Others(s) = {}]]
  /\ main' = [main EXCEPT !.pc = "run", !.slot = s]
  /\ UNCHANGED <<envVars, devVars, files, dirty, asked, trouble>>

\* The lease is lost: Run returns nil, the update counts as done and is not tried
\* again, and drainFunc goes on.  (Bound: a slot is left for the next worker.)
LoseLease ==
  /\ main.pc = "run" /\ Alive(main.slot) /\ worker[main.slot].pc # "reboot"
  /\ \E t \in Slots : worker[t].pc = "off"
  /\ Fault
  /\ main' = Idle
  /\ worker' = [s \in Slots |-> IF Alive(s) THEN [worker[s] EXCEPT !.alone = FALSE, !.behind = {}, !.cut = {}] ELSE worker[s]]
  /\ UNCHANGED <<envVars, devVars, files, dirty, asked>>

\* Run returns what drainFunc left.
RunReturns ==
  /\ main.pc = "run" /\ worker[main.slot].pc \in {"failed", "done"}
  /\ main' = Idle
  /\ dirty' = (dirty \/ worker[main.slot].pc = "failed")
  /\ worker' = [worker EXCEPT ![main.slot] = Off]
  /\ UNCHANGED <<envVars, devVars, files, asked, trouble>>

\* A worker nobody waits for ends.
LeftoverEnds(s) ==
  /\ worker[s].pc \in {"failed", "done"} /\ main.slot # s
  /\ worker' = [worker EXCEPT ![s] = Off]
  /\ UNCHANGED <<envVars, devVars, files, main, dirty, asked, trouble>>

Step(s, l) == worker' = [worker EXCEPT ![s] = [@ EXCEPT !.pc = l]]

\* The next device of the queue, in the random order of a Go map.
NextDevice(s, d) ==
  /\ worker[s].pc = "next" /\ d \in worker[s].todo
  /\ worker' = [worker EXCEPT ![s] = [@ EXCEPT !.dev = d, !.todo = worker[s].todo \ {d}, !.pc = "fw"]]
  /\ UNCHANGED <<envVars, devVars, files, main, dirty, asked, trouble>>

\* handleFWUpdate: without a path, nothing; without a tool there, an error;
\* otherwise the tool runs (a file that is running outlives its folder).
ToolStart(s) ==
  LET d == worker[s].dev
      p == worker[s].queue[d].fw
  IN /\ worker[s].pc = "fw"
     /\ \/ p = None /\ Step(s, "ddp")
        \/ p # None /\ FileAt(d, "tools", p) = None /\ Step(s, "failed")
        \/ /\ p # None /\ FileAt(d, "tools", p) # None
           /\ worker' = [worker EXCEPT ![s] = [@ EXCEPT !.pc = "running", !.tool = files[d].tools[p]]]
     /\ UNCHANGED <<envVars, devVars, files, main, dirty, asked, trouble>>

\* nvmupdate64e (external) ends with an exit code that updateFirmware takes for
\* success: 50 and 51 say that a reboot has to complete the update, whatever the
\* file it leaves says; with 0, 3 and 30 the file says so, if it can be read.
ToolOutcome ==
  [said : {TRUE}, needs : {TRUE}, result : {"zero"}]
  \cup [said : {FALSE}, needs : {TRUE}, result : {"one", "unreadable", "cutBefore"}]
  \cup [said : {FALSE}, needs : {FALSE}, result : {"zero", "unreadable"}]

\* The tool ends well.  Its result goes where the path leads now, if anywhere.
ToolEnd(s, o) ==
  LET d == worker[s].dev
  IN /\ worker[s].pc = "running"
     /\ fw' = [fw EXCEPT ![d] = worker[s].tool]
     /\ files' = IF files[d] = None THEN files ELSE [files EXCEPT ![d].result = o.result]
     /\ worker' = [worker EXCEPT ![s] =
                     [@ EXCEPT !.pc = "result", !.tool = None, !.said = o.said,
                               !.behind = worker[s].behind \cup {e \in {d} : o.needs /\ worker[s].alone}]]
     /\ UNCHANGED <<envVars, ddp, main, dirty, asked, trouble>>

\* Another exit code, an address that does not parse, a tool that does not start.
ToolFails(s) ==
  LET d == worker[s].dev
  IN /\ worker[s].pc = "running"
     /\ Fault
     /\ fw' \in {fw, [fw EXCEPT ![d] = worker[s].tool]}
     /\ worker' = [worker EXCEPT ![s] = [@ EXCEPT !.pc = "failed", !.tool = None]]
     /\ UNCHANGED <<envVars, files, ddp, main, dirty, asked>>

\* isRebootRequired: a file cut off between elements counts as whole.
isRebootRequired(r) ==
  [err |-> r \in {None, "unreadable"}, reboot |-> r = "one"]

\* Faulty: without a readable result there is no reboot.
RebootDecisionTrusting(said, r) == said \/ isRebootRequired(r).reboot

\* handleFWUpdate: the exit code (50, 51), then the file, and an error counts as
\* yes.
RebootDecision(said, r) ==
  said \/ isRebootRequired(r).err \/ isRebootRequired(r).reboot

ReadResult(s) ==
  LET d == worker[s].dev
      r == IF files[d] = None THEN None ELSE files[d].result
  IN /\ worker[s].pc = "result"
     /\ worker' = [worker EXCEPT ![s] =
                     [@ EXCEPT !.pc = "ddp",
                               !.reboot = worker[s].reboot \/ RebootDecision(worker[s].said, r),
                               !.cut = worker[s].cut \cup {e \in {d} : r = "cutBefore" /\ worker[s].alone}]]
     /\ UNCHANGED <<envVars, devVars, files, main, dirty, asked, trouble>>

\* handleDDPUpdate: without a path, nothing; otherwise the profile is copied to
\* the first place ...
CopyFirst(s) ==
  LET d == worker[s].dev
      p == worker[s].queue[d].ddp
  IN /\ worker[s].pc = "ddp"
     /\ \/ p = None /\ Step(s, "next") /\ UNCHANGED ddp
        \/ p # None /\ FileAt(d, "pkgs", p) = None /\ Step(s, "failed") /\ UNCHANGED ddp
        \/ /\ p # None /\ FileAt(d, "pkgs", p) # None
           /\ ddp' = [ddp EXCEPT ![d]["intel"] = files[d].pkgs[p]]
           /\ Step(s, "copied")
     /\ UNCHANGED <<envVars, fw, files, main, dirty, asked, trouble>>

\* ... and to the second; a new profile is always loaded by a reboot.
CopySecond(s) ==
  LET d == worker[s].dev
      p == worker[s].queue[d].ddp
  IN /\ worker[s].pc = "copied"
     /\ \/ FileAt(d, "pkgs", p) = None /\ Step(s, "failed") /\ UNCHANGED ddp
        \/ /\ FileAt(d, "pkgs", p) # None
           /\ ddp' = [ddp EXCEPT ![d]["updates"] = files[d].pkgs[p]]
           /\ worker' = [worker EXCEPT ![s] = [@ EXCEPT !.pc = "next", !.reboot = TRUE]]
     /\ UNCHANGED <<envVars, fw, files, main, dirty, asked, trouble>>

\* No device serial, no folder, no space.
CopyFails(s) ==
  /\ worker[s].pc \in {"ddp", "copied"} /\ worker[s].queue[worker[s].dev].ddp # None
  /\ Fault
  /\ Step(s, "failed")
  /\ UNCHANGED <<envVars, devVars, files, main, dirty, asked>>

\* The queue is done: the artifacts folder is removed, whoever uses it now.
WorkerEnds(s) ==
  /\ worker[s].pc = "next" /\ worker[s].todo = {}
  /\ files' = [d \in Devices |-> None]
  /\ Step(s, IF worker[s].reboot THEN "reboot" ELSE "done")
  /\ UNCHANGED <<envVars, devVars, main, dirty, asked, trouble>>

\* The node goes down and comes up again.  The condition says that the update
\* of this worker is complete (NodeConfigDaemon: Finish); what a newer update had
\* prepared by then is taken as complete with it.
Reboot(s) ==
  /\ worker[s].pc = "reboot"
  /\ main' = Idle
  /\ worker' = [t \in Slots |-> Off]
  /\ files' = [d \in Devices |-> None]
  /\ UNCHANGED <<envVars, fw, ddp, dirty, asked, trouble>>

-----------------------------------------------------------------------------
\* The manager writes another spec.
EditSpec(w) ==
  /\ Fault /\ want # w
  /\ want' = w
  /\ dirty' = TRUE
  /\ UNCHANGED <<server, files, main, worker, devVars, asked>>

\* Another package is served under the same URL.
Publish(u, a) ==
  /\ Fault /\ server[u] # a
  /\ server' = [server EXCEPT ![u] = a]
  /\ UNCHANGED <<want, files, main, worker, dirty, devVars, asked>>

MainStep ==
  \/ PrepareStart \/ DownloadFW \/ UntarFW \/ FindFW
  \/ DownloadDDP \/ UnpackDDPArchive \/ FindDDP \/ FindPanics \/ RunReturns
  \/ PrepareDevice \/ RunStart

WorkerStep(s) ==
  \/ \E d \in Devices : NextDevice(s, d)
  \/ ToolStart(s) \/ ReadResult(s) \/ CopyFirst(s) \/ CopySecond(s) \/ WorkerEnds(s)
  \/ \E o \in ToolOutcome : ToolEnd(s, o)
  \/ LeftoverEnds(s) \/ Reboot(s)

Trouble ==
  \/ PrepareStepFails \/ Crash \/ LoseLease
  \/ \E s \in Slots : ToolFails(s) \/ CopyFails(s)

Outside ==
  \/ \E w \in Wants : EditSpec(w)
  \/ \E pub \in Publications : Publish(pub[1], pub[2])

UpdateNext == MainStep \/ (\E s \in Slots : WorkerStep(s)) \/ Trouble \/ Outside

UpdateSpec == UpdateInit /\ [][UpdateNext]_updVars

\* The goroutines are scheduled; requests, tools and reboots end.
UpdateFairSpec ==
  UpdateSpec /\ WF_updVars(MainStep) /\ \A s \in Slots : WF_updVars(WorkerStep(s))

-----------------------------------------------------------------------------
(* Properties *)

\* Nothing is stored on or for a device that no spec of this device let pass:
\* named its URL, and its checksum where one was given.  The paths of the queue
\* do not say what is in the files, and files come and go under a worker that
\* lost its lease; the server may serve something else any time.
\* (The variables have their types.)
OnlyAskedIsStored ==
  UpdateTypeOK /\ \A d \in Devices : {fw[d], ddp[d]["intel"], ddp[d]["updates"]} \subseteq asked[d] \cup {Factory}

\* The worker that Run waits for uses the packages that were prepared for it,
\* never those of another device or of an update before, left over or not: what
\* its paths lead to is what they led to when its device was prepared, or nothing.
CurrentUsesItsOwn ==
  main.pc = "run" =>
    \A d \in Devices :
      LET q == worker[main.slot].queue[d]
      IN /\ q.fw # None => FileAt(d, "tools", q.fw) \in {None, q.fwIs}
         /\ q.ddp # None => FileAt(d, "pkgs", q.ddp) \in {None, q.ddpIs}

\* When drainFunc ends well, and no other worker was alive meanwhile, all of its
\* queue is stored, DDP profiles in both places; and without a reboot all of it
\* runs, except where the tool's result was cut off before the flag.
EndedMeansStored ==
  \A s \in Slots : worker[s].alone /\ worker[s].pc \in {"done", "reboot"} =>
    \A d \in Devices :
      LET q == worker[s].queue[d]
      IN /\ q.fw # None => fw[d] = q.fwIs
         /\ q.ddp # None => \A p \in Places : ddp[d][p] = q.ddpIs
         /\ worker[s].pc = "done" => worker[s].behind \subseteq worker[s].cut
         /\ q.ddp # None => worker[s].pc = "reboot"

\* The packages that the spec names can be had, unpacked and found.
Satisfiable ==
  \A d \in Devices :
    LET r == want[d]
    IN /\ r.fw # None =>
            /\ r.fwSum \in {None, server[r.fw]} /\ Unpacks(server[r.fw], {"tar"})
            /\ Cardinality(Layout[server[r.fw]].tools) = 1
       /\ r.ddp # None =>
            /\ r.ddpSum \in {None, server[r.ddp]} /\ Unpacks(server[r.ddp], {"zip", "tar"})
            /\ Cardinality(Layout[server[r.ddp]].pkgs
                           \cup (IF r.fw = None THEN {} ELSE Layout[server[r.fw]].pkgs)) = 1

\* An update that can succeed does, whatever was prepared, failed or left behind
\* before it: nothing of a try before makes a later one fail for good.
UpdatesEnd == <>[](Satisfiable => ~dirty /\ main.pc = "idle")
=============================================================================
