-------------------------------- MODULE Server --------------------------------
(***************************************************************************)
(* The process around the service: main and package config, which read the *)
(* configuration file and the certificates and either serve or exit, and   *)
(* the interceptors that every gRPC call passes before its handler.        *)
(*                                                                         *)
(* An operator edits the files while the process serves or is down, but    *)
(* not while it starts; the process reads them when it starts, and never   *)
(* again.  Of the configuration only what decides something here is kept,  *)
(* and at most one flaw that makes it unusable.  What a handler does is    *)
(* the subject of PushService.                                             *)
(***************************************************************************)
EXTENDS Naturals, Sequences

CONSTANTS
  Calls,            \* connections at a time, each with one call at a time
  Names,            \* common names of client certificates
  CAs, Unknown,     \* the authorities that may sign them, and any other one
  NoCert,           \* the certificate of a caller when TLS is off
  MaxEntries,       \* entries of certificate_authorities_dir (bound)
  MaxEdits, MaxCrashes   \* bounds

Certs == [cn : Names, issuer : CAs \cup {Unknown}]
Flaws == {"none", "unreadable", "malformed", "missing", "logLevel", "keyPair"}

(* What filepath.Walk meets, in its order: a .pem file of an authority; another
   file; a .pem file that is no certificate, or that cannot be read, as one in a
   subdirectory, whose name loadCAs joins to the directory itself. *)
Entries == CAs \cup {"other", "broken"}
Dirs == UNION {[1 .. n -> Entries] : n \in 0 .. MaxEntries}

Files ==
  [flaw : Flaws, tls : BOOLEAN, trust : BOOLEAN, skip : BOOLEAN,
   acl : SUBSET Names, dir : Dirs]

(* What a new PushService has for a status, the empty string. *)
NotYet == "notYet"

ASSUME ServerAssumption ==
  /\ NoCert \notin Certs
  /\ Unknown \notin CAs /\ {"other", "broken"} \cap CAs = {}
  /\ MaxEntries \in Nat /\ MaxEdits \in Nat /\ MaxCrashes \in Nat

VARIABLES
  disk,             \* the files as they are
  cfg,              \* the files as the last process to start found them
  pc,               \* control of main
  pool, next,       \* the authorities loadCAs has, the entry it comes to
  status, loader,   \* PushService.status, control of loadSubscriptions
  conn,             \* the connections
  edits, crashes    \* how often the files were edited, the process killed

vars == <<disk, cfg, pc, pool, next, status, loader, conn, edits, crashes>>

Closed == [at |-> "closed", cert |-> NoCert, method |-> "other", answer |-> "none"]

Init ==
  /\ disk \in Files /\ cfg = disk
  /\ pc = "down"
  /\ pool = {} /\ next = 1
  /\ status = NotYet /\ loader = "done"
  /\ conn = [c \in Calls |-> Closed]
  /\ edits = 0 /\ crashes = 0

-----------------------------------------------------------------------------
(* Starting.                                                               *)

(* The process ends, by log.Fatal or killed, and its connections with it. *)
Exit ==
  /\ pc' = "down"
  /\ pool' = {} /\ next' = 1
  /\ status' = NotYet /\ loader' = "done"
  /\ conn' = [c \in Calls |-> Closed]

Goto(place) ==
  /\ pc' = place
  /\ UNCHANGED <<disk, pool, next, status, loader, conn, edits, crashes>>

Launch == pc = "down" /\ Goto("read") /\ UNCHANGED cfg

(* os.ReadFile. *)
ReadFile ==
  /\ pc = "read"
  /\ IF disk.flaw = "unreadable"
       THEN Exit /\ UNCHANGED <<disk, cfg, edits, crashes>>
       ELSE Goto("load") /\ cfg' = disk

(* The zero value of a required field, whether TLS needs the field or not. *)
validateRequired(f) == f.flaw # "missing"
ValidLogLevel(f) == f.flaw # "logLevel"

(* LoadFromJson up to the TLS configuration. *)
LoadFromJson ==
  /\ pc = "load"
  /\ IF cfg.flaw # "malformed" /\ validateRequired(cfg) /\ ValidLogLevel(cfg)
       THEN Goto(IF cfg.tls THEN "keyPair" ELSE "listen") /\ UNCHANGED cfg
       ELSE Exit /\ UNCHANGED <<disk, cfg, edits, crashes>>

(* loadTLSConfig begins with tls.LoadX509KeyPair. *)
LoadKeyPair ==
  /\ pc = "keyPair"
  /\ IF cfg.flaw = "keyPair"
       THEN Exit /\ UNCHANGED <<disk, cfg, edits, crashes>>
       ELSE Goto("walk") /\ UNCHANGED cfg

\* Mutated form of LoadEntry: an entry that cannot be used is fatal.
LoadEntryStrict ==
  /\ pc = "walk" /\ next <= Len(cfg.dir)
  /\ IF cfg.dir[next] = "broken"
       THEN Exit
       ELSE /\ next' = next + 1
            /\ pool' = pool \cup ({cfg.dir[next]} \cap CAs)
            /\ UNCHANGED <<pc, status, loader, conn>>
  /\ UNCHANGED <<disk, cfg, edits, crashes>>

(* One call of the function that loadCAs walks with: an error ends the walk,
   and loadCAs returns what it has. *)
LoadEntry ==
  /\ pc = "walk" /\ next <= Len(cfg.dir)
  /\ IF cfg.dir[next] = "broken"
       THEN Goto("listen")
       ELSE /\ next' = next + 1
            /\ pool' = pool \cup ({cfg.dir[next]} \cap CAs)
            /\ UNCHANGED <<disk, pc, status, loader, conn, edits, crashes>>
  /\ UNCHANGED cfg

WalkEnds == pc = "walk" /\ next > Len(cfg.dir) /\ Goto("listen") /\ UNCHANGED cfg

(* net.Listen, NewGRPCServer, whose service starts its loader, and Serve. *)
Listen ==
  /\ pc = "listen"
  /\ pc' = "serve"
  /\ loader' = IF cfg.skip THEN "done" ELSE "user"
  /\ UNCHANGED <<disk, cfg, pool, next, status, conn, edits, crashes>>

(* The address is taken. *)
ListenFails == pc = "listen" /\ Exit /\ UNCHANGED <<disk, cfg, edits, crashes>>

Start == Launch \/ ReadFile \/ LoadFromJson \/ LoadKeyPair \/ LoadEntry \/ WalkEnds

-----------------------------------------------------------------------------
(* loadSubscriptions, as far as the status goes.                           *)

\* Mutated form of MissesUser: the profile is asked for again later.
MissesUserLater ==
  /\ pc = "serve" /\ ~cfg.skip
  /\ status' = "noUser"
  /\ UNCHANGED <<disk, cfg, pc, pool, next, loader, conn, edits, crashes>>

MissesUser ==
  /\ pc = "serve" /\ loader = "user"
  /\ status' = "noUser"
  /\ UNCHANGED <<disk, cfg, pc, pool, next, loader, conn, edits, crashes>>

FindsUser ==
  /\ pc = "serve" /\ loader = "user"
  /\ status' = "ok" /\ loader' = "done"
  /\ UNCHANGED <<disk, cfg, pc, pool, next, conn, edits, crashes>>

-----------------------------------------------------------------------------
(* Calls.                                                                  *)

At(c, place) == pc = "serve" /\ conn[c].at = place

Enter(c, place) ==
  /\ conn' = [conn EXCEPT ![c].at = place]
  /\ UNCHANGED <<disk, cfg, pc, pool, next, status, loader, edits, crashes>>

Answer(c, answer) ==
  /\ conn' = [conn EXCEPT ![c].at = "open", ![c].answer = answer]
  /\ UNCHANGED <<disk, cfg, pc, pool, next, status, loader, edits, crashes>>

(* RequireAnyClientCert, or RequireAndVerifyClientCert. *)
GetClientAuthType == IF cfg.trust THEN "any" ELSE "verify"

\* Mutated form of Handshake: any client certificate will do.
HandshakeAny(c) ==
  /\ At(c, "closed")
  /\ \E cert \in IF cfg.tls THEN Certs ELSE {NoCert} :
       conn' = [conn EXCEPT ![c] = [Closed EXCEPT !.at = "open", !.cert = cert]]
  /\ UNCHANGED <<disk, cfg, pc, pool, next, status, loader, edits, crashes>>

(* A connection with a certificate that crypto/tls accepts, or without TLS. *)
Handshake(c) ==
  /\ At(c, "closed")
  /\ \E cert \in IF cfg.tls THEN Certs ELSE {NoCert} :
       /\ cfg.tls /\ GetClientAuthType = "verify" => cert.issuer \in pool
       /\ conn' = [conn EXCEPT ![c] = [Closed EXCEPT !.at = "open", !.cert = cert]]
  /\ UNCHANGED <<disk, cfg, pc, pool, next, status, loader, edits, crashes>>

Close(c) ==
  /\ At(c, "open")
  /\ conn' = [conn EXCEPT ![c] = Closed]
  /\ UNCHANGED <<disk, cfg, pc, pool, next, status, loader, edits, crashes>>

(* A unary call arrives: of PushService/Status or of any other method, Check of
   the health service included.  Its stream Watch passes no unary interceptor. *)
Request(c) ==
  /\ At(c, "open")
  /\ \E m \in {"Status", "other"} :
       conn' = [conn EXCEPT ![c].at = "auth", ![c].method = m, ![c].answer = "none"]
  /\ UNCHANGED <<disk, cfg, pc, pool, next, status, loader, edits, crashes>>

Listed(cert) == cert \in Certs /\ cert.cn \in cfg.acl

\* Mutated form of AuthInterceptor: the interceptors are chained the other way.
AuthAfterStatus(c) ==
  /\ At(c, "auth")
  /\ IF conn[c].method # "Status" /\ status # "ok"
       THEN Answer(c, "unavailable")
       ELSE IF ~cfg.tls \/ Listed(conn[c].cert)
              THEN Enter(c, "status")
              ELSE Answer(c, "unauthorised")

(* With TLS on there is a peer certificate, so of the refusals in the code only
   the one after the loop over the ACL can happen. *)
AuthInterceptor(c) ==
  /\ At(c, "auth")
  /\ IF ~cfg.tls \/ Listed(conn[c].cert)
       THEN Enter(c, "status")
       ELSE Answer(c, "unauthorised")

StatusInterceptor(c) ==
  /\ At(c, "status")
  /\ IF conn[c].method # "Status" /\ status # "ok"
       THEN Answer(c, "unavailable")
       ELSE Enter(c, "handler")

(* The handler of Status reads the status once more; of the others nothing is
   said here. *)
Handle(c) ==
  /\ At(c, "handler")
  /\ Answer(c, IF conn[c].method = "Status" /\ status # "ok" THEN "unavailable" ELSE "ok")

CallStep(c) == AuthInterceptor(c) \/ StatusInterceptor(c) \/ Handle(c)

-----------------------------------------------------------------------------
(* The environment.                                                        *)

Edited ==
  {[disk EXCEPT !.flaw = f] : f \in Flaws} \cup {[disk EXCEPT !.tls = ~@]}
  \cup {[disk EXCEPT !.trust = ~@]} \cup {[disk EXCEPT !.skip = ~@]}
  \cup {[disk EXCEPT !.acl = a] : a \in SUBSET Names}
  \cup {[disk EXCEPT !.dir = d] : d \in Dirs}

Edit ==
  /\ pc \in {"down", "serve"} /\ edits < MaxEdits
  /\ disk' \in Edited \ {disk}
  /\ edits' = edits + 1
  /\ UNCHANGED <<cfg, pc, pool, next, status, loader, conn, crashes>>

(* The process is killed, or Serve fails. *)
Crash ==
  /\ pc # "down" /\ crashes < MaxCrashes
  /\ Exit
  /\ crashes' = crashes + 1
  /\ UNCHANGED <<disk, cfg, edits>>

Next ==
  \/ Start \/ Listen \/ ListenFails
  \/ MissesUser \/ FindsUser
  \/ \E c \in Calls : Handshake(c) \/ Request(c) \/ CallStep(c) \/ Close(c)
  \/ Edit \/ Crash

Spec == Init /\ [][Next]_vars

(* Somebody starts the process again after it ended; the address is free one
   day; AMS answers the loader's retries one day; calls are served. *)
Fairness ==
  /\ WF_vars(Start) /\ SF_vars(Listen)
  /\ SF_vars(FindsUser)
  /\ \A c \in Calls : WF_vars(CallStep(c))

FairSpec == Spec /\ Fairness

-----------------------------------------------------------------------------
(* Properties.                                                             *)

Conns ==
  [at : {"closed", "open", "auth", "status", "handler"}, cert : Certs \cup {NoCert},
   method : {"Status", "other"}, answer : {"none", "unauthorised", "unavailable", "ok"}]

(* Every variable has its type. *)
TypeOK ==
  /\ disk \in Files /\ cfg \in Files
  /\ pc \in {"down", "read", "load", "keyPair", "walk", "listen", "serve"}
  /\ pool \subseteq CAs /\ next \in Nat \ {0}
  /\ status \in {NotYet, "noUser", "ok"} /\ loader \in {"user", "done"}
  /\ conn \in [Calls -> Conns]
  /\ edits \in Nat /\ crashes \in Nat

(* The authorities of a directory that come before anything loadCAs stumbles
   over. *)
ReadableCAs(dir) ==
  {a \in CAs : \E i \in 1 .. Len(dir) : dir[i] = a /\ \A j \in 1 .. i : dir[j] # "broken"}

(* What loadCAs does: a server with TLS trusts the authorities whose files come
   before the first unusable one in the order of their names.  One bad file
   silently takes away all that follow it, and the service starts without them. *)
PoolIsReadablePrefix ==
  pc = "serve" => pool = IF cfg.tls THEN ReadableCAs(cfg.dir) ELSE {}

(* A call that passed AuthInterceptor over TLS comes from a listed name and,
   unless unknown authorities are trusted, from an authority in the directory
   the process started with; an edit, a crash or another process in between
   does not let a call through on what another configuration allowed. *)
OnlyAdmittedCallsPass ==
  \A c \in Calls :
    conn[c].at \in {"status", "handler"} /\ cfg.tls =>
      /\ Listed(conn[c].cert)
      /\ cfg.trust \/ conn[c].cert.issuer \in ReadableCAs(cfg.dir)

(* The status that StatusInterceptor checked still holds while the handler
   runs: once it is ok, it stays so for as long as the process lives. *)
HandledWhileAvailable ==
  \A c \in Calls : conn[c].at = "handler" /\ conn[c].method # "Status" => status = "ok"

(* Whether the service is available is told to listed callers only. *)
AuthBeforeStatus ==
  \A c \in Calls :
    conn[c].answer \in {"unavailable", "ok"} /\ cfg.tls => Listed(conn[c].cert)

(* A file that has no fatal flaw; the directory of authorities may hold what it
   will. *)
Usable(f) == f.flaw = "none" \/ (f.flaw = "keyPair" /\ ~f.tls)

(* Once the files are usable for good the process ends up serving, with
   whatever broken certificates the directory holds. *)
RepairedIsServed == <>[]Usable(disk) => <>[](pc = "serve")
==============================================================================
