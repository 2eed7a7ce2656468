------------------------------ MODULE Services ------------------------------
(***************************************************************************)
(* The services behind the window: watches, the settings file, documents,  *)
(* databases, terminals, and the connects and listings of FTP. A behaviour *)
(* runs one part: one component, while the others stand still, and "part"  *)
(* says which one runs. The parts share nothing in the program but the     *)
(* process they run in; they are put together so that one run answers for  *)
(* all of them. Fairness is the one that the module of the part states.    *)
(***************************************************************************)
EXTENDS Naturals

CONSTANTS
  None,  \* of all parts
  foPanels, foPaths, foMaxQueue, foMaxWatchers, foMaxFaults,
  rePanels, reDirectories, reRoot, reMaxThreads, reMaxQueue, reMaxChanges,
  reMaxFaults,
  sfFiles, sfLists, sfVersions, sfLimit, sfShared, sfMaxWrites, sfMissing,
  sfBroken, sfReset,
  ofRequests, ofMaxEngines, ofMaxFaults,
  dbSessions, dbRequests, dbScripts, dbLimit, dbMaxStatements,
  teTerminals, teStreams, teMaxChunk, teMaxInput, teMaxFaults,
  fmAttempts, fmProfiles, fmCerts, fmTrusted, fmMaxUpdates, fmMixes,
  liNames, liUnsafe, liOdd, liLimit, liMaxCalls

VARIABLES
  part,  \* the part that runs
  foConsumers, foRequests, foTimer, foRecord, foWatched, foCallbacks,
  foRemovers, foEvents, foCreated, foFaults, foMissed, foLost,
  reConsumers, reRequests, reTimer, reUnseen, reRecord, reCaller, reThread,
  reDirs, reChanges, reFaults, reRefused,
  sfFile, sfCached, sfOp, sfTouched, sfWrites,
  ofGate, ofBroker, ofEngine, ofTasks, ofReq, ofFaults,
  dbSession, dbRun, dbDisk, dbForeign,
  teMain, teStartup, teShell, teTab, teFaults,
  fmSaved, fmStore, fmLock, fmRegistered, fmCert, fmAt, fmUpdates,
  fmUpsets,
  liServer, liThere, liDenied, liSize, liCaps, liCall, liCalls

\* Panels that show a folder under several paths.
Folders == INSTANCE Watches WITH
  Panels <- foPanels, Paths <- foPaths, MaxQueue <- foMaxQueue,
  MaxWatchers <- foMaxWatchers,
  MaxFaults <- foMaxFaults, consumers <- foConsumers, requests <- foRequests,
  timer <- foTimer, record <- foRecord, watched <- foWatched,
  callbacks <- foCallbacks, removers <- foRemovers, events <- foEvents,
  created <- foCreated, faults <- foFaults, missed <- foMissed, lost <- foLost
foVars == <<foConsumers, foRequests, foTimer, foRecord, foWatched, foCallbacks,
  foRemovers, foEvents, foCreated, foFaults, foMissed, foLost>>

\* A repository, its directories and its watch threads.
Repository == INSTANCE GitWatch WITH
  Panels <- rePanels, Directories <- reDirectories, Root <- reRoot,
  MaxThreads <- reMaxThreads, MaxQueue <- reMaxQueue, MaxChanges <- reMaxChanges,
  MaxFaults <- reMaxFaults, consumers <- reConsumers, requests <- reRequests,
  timer <- reTimer, unseen <- reUnseen, record <- reRecord, caller <- reCaller,
  thread <- reThread, dirs <- reDirs, changes <- reChanges, faults <- reFaults,
  refused <- reRefused
reVars == <<reConsumers, reRequests, reTimer, reUnseen, reRecord, reCaller, reThread,
  reDirs, reChanges, reFaults, reRefused>>

\* The settings file and its writers.
Settings == INSTANCE SettingsFile WITH
  Files <- sfFiles, Lists <- sfLists, Versions <- sfVersions, Limit <- sfLimit,
  Shared <- sfShared, MaxWrites <- sfMaxWrites, Missing <- sfMissing,
  Broken <- sfBroken, Reset <- sfReset, file <- sfFile, cached <- sfCached,
  op <- sfOp, touched <- sfTouched, writes <- sfWrites
sfVars == <<sfFile, sfCached, sfOp, sfTouched, sfWrites>>

\* Documents, and the engine that renders them.
Documents == INSTANCE Office WITH
  Requests <- ofRequests, MaxEngines <- ofMaxEngines, MaxFaults <- ofMaxFaults,
  gate <- ofGate, broker <- ofBroker, engine <- ofEngine, tasks <- ofTasks,
  req <- ofReq, faults <- ofFaults
ofVars == <<ofGate, ofBroker, ofEngine, ofTasks, ofReq, ofFaults>>

\* The sessions of a database and their requests.
Database == INSTANCE Sqlite WITH
  Sessions <- dbSessions, Requests <- dbRequests, Scripts <- dbScripts,
  Limit <- dbLimit, MaxStatements <- dbMaxStatements, session <- dbSession,
  run <- dbRun, disk <- dbDisk, foreign <- dbForeign
dbVars == <<dbSession, dbRun, dbDisk, dbForeign>>

\* Tabs and their shells.
Shells == INSTANCE Terminal WITH
  Terminals <- teTerminals, Streams <- teStreams, MaxChunk <- teMaxChunk,
  MaxInput <- teMaxInput, MaxFaults <- teMaxFaults, main <- teMain,
  startup <- teStartup, shell <- teShell, tab <- teTab, faults <- teFaults
teVars == <<teMain, teStartup, teShell, teTab, teFaults>>

\* The attempts to connect one FTP profile.
Connects == INSTANCE FtpConnect WITH
  Attempts <- fmAttempts, Profiles <- fmProfiles, Certs <- fmCerts,
  Trusted <- fmTrusted, MaxUpdates <- fmMaxUpdates, Mixes <- fmMixes,
  saved <- fmSaved, store <- fmStore, lock <- fmLock, registered <- fmRegistered,
  cert <- fmCert, at <- fmAt, updates <- fmUpdates, upsets <- fmUpsets
fmVars == <<fmSaved, fmStore, fmLock, fmRegistered, fmCert, fmAt, fmUpdates,
  fmUpsets>>

\* The folder of a server, and one call on it.
Listings == INSTANCE FtpListing WITH
  Names <- liNames, Unsafe <- liUnsafe, Odd <- liOdd, Limit <- liLimit,
  MaxCalls <- liMaxCalls, server <- liServer, there <- liThere,
  denied <- liDenied, size <- liSize, caps <- liCaps, call <- liCall,
  calls <- liCalls
liVars == <<liServer, liThere, liDenied, liSize, liCaps, liCall, liCalls>>

ASSUME Instances ==
  /\ Folders!WatchAssumption
  /\ Repository!GitAssumption
  /\ Settings!SettingsFileAssumption
  /\ Documents!OfficeAssumption
  /\ Database!SqliteAssumption
  /\ Shells!TerminalAssumption
  /\ Connects!ConnectAssumption
  /\ Listings!NamesAssumption

vars == <<part, foVars, reVars, sfVars, ofVars, dbVars, teVars, fmVars, liVars>>

Init ==
  /\ part \in {"folders", "repository", "settings", "office", "database",
       "terminal", "connects", "listings"}
  /\ Folders!Init
  /\ Repository!Init
  /\ Settings!Init
  /\ part # "settings" =>
       sfFile = sfMissing
  /\ Documents!Init
  /\ Database!Init
  /\ Shells!Init
  /\ Connects!Init
  /\ part # "connects" =>
       /\ fmSaved = CHOOSE p \in fmProfiles : TRUE
       /\ fmCert = CHOOSE c \in fmCerts : TRUE
  /\ Listings!Init
  /\ part # "listings" =>
       /\ liServer = [feat |-> {}, does |-> {}, cdir |-> FALSE]
       /\ liThere = [n \in liNames |-> "absent"]
       /\ liDenied = {}
       /\ liSize = 0

Next ==
  \/ part = "folders" /\ Folders!Next
     /\ UNCHANGED <<part, reVars, sfVars, ofVars, dbVars, teVars, fmVars, liVars>>
  \/ part = "repository" /\ Repository!Next
     /\ UNCHANGED <<part, foVars, sfVars, ofVars, dbVars, teVars, fmVars, liVars>>
  \/ part = "settings" /\ Settings!Next
     /\ UNCHANGED <<part, foVars, reVars, ofVars, dbVars, teVars, fmVars, liVars>>
  \/ part = "office" /\ Documents!Next
     /\ UNCHANGED <<part, foVars, reVars, sfVars, dbVars, teVars, fmVars, liVars>>
  \/ part = "database" /\ Database!Next
     /\ UNCHANGED <<part, foVars, reVars, sfVars, ofVars, teVars, fmVars, liVars>>
  \/ part = "terminal" /\ Shells!Next
     /\ UNCHANGED <<part, foVars, reVars, sfVars, ofVars, dbVars, fmVars, liVars>>
  \/ part = "connects" /\ Connects!Next
     /\ UNCHANGED <<part, foVars, reVars, sfVars, ofVars, dbVars, teVars, liVars>>
  \/ part = "listings" /\ Listings!Next
     /\ UNCHANGED <<part, foVars, reVars, sfVars, ofVars, dbVars, teVars, fmVars>>

Spec ==
  /\ Init /\ [][Next]_vars
  /\ \A l \in foPaths : WF_foVars(part = "folders" /\ Folders!Refresh(l))
  /\ \A l \in foPaths : WF_foVars(part = "folders" /\ Folders!Watch(l))
  /\ \A l \in foPaths : WF_foVars(part = "folders" /\ Folders!Unwatch(l))
  /\ \A l \in foPaths : WF_foVars(part = "folders" /\ Folders!EventArrives(l))
  /\ \A l \in foPaths : WF_foVars(part = "folders" /\ Folders!Elapse(l))
  /\ WF_foVars(part = "folders" /\ (\E c \in foCallbacks : Folders!Callback(c)))
  /\ WF_foVars(part = "folders" /\ Folders!Remove)
  /\ WF_reVars(part = "repository" /\ Repository!Refresh)
  /\ WF_reVars(part = "repository" /\ Repository!Watch)
  /\ WF_reVars(part = "repository" /\ Repository!WatchReturns)
  /\ WF_reVars(part = "repository" /\ Repository!Unwatch)
  /\ \A t \in 1..reMaxThreads : WF_reVars(part = "repository" /\ Repository!Own(t))
  /\ SF_reVars(part = "repository" /\ (\E t \in 1..reMaxThreads : Repository!Recover(t)))
  /\ \A r \in ofRequests : WF_ofVars(part = "office" /\ Documents!Step(r))
  /\ \A r \in ofRequests : WF_ofVars(part = "office" /\ Documents!TakeGate(r))
  /\ \A g \in 1..ofMaxEngines : WF_ofVars(part = "office" /\ Documents!Page(g))
  /\ WF_ofVars(part = "office" /\ Documents!MainRuns)
  /\ WF_ofVars(part = "office" /\ Documents!IdleRetired)
  /\ WF_ofVars(part = "office" /\ Documents!IdleRetires)
  /\ \A r \in dbRequests : WF_dbVars(part = "database" /\ Database!Runs(r))
  /\ \A r \in dbRequests :
       WF_dbVars(part = "database" /\ (Database!Expire(r) /\ Database!Statement(r) = "endless"))
  /\ \A t \in teTerminals : WF_teVars(part = "terminal" /\ Shells!Threads(t))
  /\ \A t \in teTerminals : WF_teVars(part = "terminal" /\ Shells!Reply(t))
  /\ \A t \in teTerminals : WF_teVars(part = "terminal" /\ Shells!Reads(t))
  /\ \A t \in teTerminals : WF_teVars(part = "terminal" /\ Shells!Prints(t))
  /\ \A t \in teTerminals : WF_teVars(part = "terminal" /\ Shells!Written(t))
  /\ \A t \in teTerminals : WF_teVars(part = "terminal" /\ Shells!Create(t))
  /\ \A t \in teTerminals : WF_teVars(part = "terminal" /\ Shells!Close(t))
  /\ \A t \in teTerminals : WF_teVars(part = "terminal" /\ Shells!HearsExit(t))
  /\ \A t \in teTerminals : SF_teVars(part = "terminal" /\ Shells!Waits(t))
  /\ \A t \in teTerminals :
       WF_teVars(part = "terminal" /\ (Shells!Dies(t) /\ teShell[t].killed))
  /\ \A a \in fmAttempts : WF_fmVars(part = "connects" /\ Connects!Own(a))
  /\ \A a \in fmAttempts : WF_fmVars(part = "connects" /\ Connects!Fails(a))
  /\ WF_fmVars(part = "connects" /\ Connects!UpdateEnds)
  /\ WF_liVars(part = "listings" /\ Listings!Works)

-----------------------------------------------------------------------------
(***************************************************************************)
(* Once the window's requests are through, a folder is watched exactly      *)
(* while somebody shows it, by one watcher, and a repository has a record   *)
(* exactly while somebody views it, by one thread that nobody told to stop; *)
(* except for a folder whose request was refused or whose failed watcher    *)
(* was removed, and a repository whose last request was refused, which stay *)
(* unwatched.                                                               *)
(***************************************************************************)
WatchesTrue ==
  /\ Folders!TypeOK /\ Repository!TypeOK
  /\ Folders!WatchedIffShown
  /\ Repository!OneMonitor /\ Repository!RecordIffShown

(***************************************************************************)
(* What is converted survives it.  A load and an update keep each usable    *)
(* profile, the first of its id, with its protocol and host, and add none;  *)
(* ids stay unique and no secret is written; a trust stands beside the      *)
(* endpoint it was given for; what is in memory is what the file holds, and *)
(* a restart reads the same, unless a name was cut at a blank or the files  *)
(* are more than the limit; a newer file that was looked at is not replaced *)
(* until another build writes again.  A shell's UTF-8 text is emitted whole *)
(* however its bytes are cut, and its tab shows all that is emitted from    *)
(* when it knows its session until that ends.                               *)
(***************************************************************************)
SettingsKept ==
  /\ [](/\ Settings!TypeOK /\ Settings!ProfilesApart
        /\ Settings!TrustStaysWithEndpoint /\ Settings!RestartLoadsSame
        /\ Shells!TextWhole)
  /\ Settings!ProfilesKept /\ Settings!NewerKept

(***************************************************************************)
(* A document is rendered by the one engine and comes back to the request   *)
(* it was for, always when nothing fails and nobody stops it; a script's    *)
(* answer tells the transaction it leaves, a stopped one is rolled back,    *)
(* and none leaves its file; behind an orderly end of the application every *)
(* shell was told to go, and the startup directory it recorded is gone (one *)
(* whose files could not be written was never recorded).                    *)
(***************************************************************************)
ServicesTrue ==
  /\ Documents!TypeOK /\ Database!TypeOK /\ Shells!TypeOK
  /\ Documents!OneEngine /\ Documents!OwnResult /\ Documents!NoWorkLost
  /\ Database!AnswerTellsTransaction /\ Database!StoppedRollsBack /\ Database!ScopedToFile
  /\ Shells!NothingOutlives

(***************************************************************************)
(* What a server is told and believed.  A password goes only over the kind  *)
(* of connection its profile allows, and to the endpoint it was typed for,  *)
(* unless a further session reads it after its profile has moved; it is     *)
(* saved once it was proven, and a connection that is registered is the     *)
(* profile's own.  A complete listing is whole or an error and an item that *)
(* is there is not reported missing, but for items on lines of LIST that no *)
(* parser reads and items the server denies; a read stays within its limit. *)
(***************************************************************************)
ConnectionsSafe ==
  /\ Connects!TypeOK /\ Listings!TypeOK
  /\ Connects!SecretsProtected /\ Connects!SavedIsProven /\ Connects!PasswordKeepsEndpoint
  /\ Connects!RegisteredIsCurrent
  /\ Listings!ListingWhole /\ Listings!StatTrue /\ Listings!ReadLimited

(***************************************************************************)
(* What was begun ends, each under the fairness its module states: a change *)
(* of a folder or of a repository that is watched is seen, unless changes   *)
(* of the folder never stop; what the watch of a repository lost comes      *)
(* back; a document, a script and a listing are answered, an engine that    *)
(* nobody uses goes unless the system refuses, and so does a shell whose    *)
(* tab went, unless the reply that named it was late; a shell's end is      *)
(* told; and the lock of the profiles is given back.                        *)
(***************************************************************************)
ServicesAnswer ==
  /\ Folders!ChangeSeen /\ Repository!ChangeSeen /\ Repository!WatchedAgain
  /\ Documents!Answered /\ Documents!EngineGoes /\ Database!RunsEnd
  /\ Shells!GoneEndsShell /\ Shells!ExitTold
  /\ Connects!LockReturns /\ Listings!CallsEnd
=============================================================================
