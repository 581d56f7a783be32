----------------------------- MODULE Server_proofs -----------------------------
(***************************************************************************)
(* Proofs about Server, for any certificates, authorities, directories of  *)
(* any length, and any number of connections, edits and crashes.           *)
(***************************************************************************)
EXTENDS Server, TLAPS

-----------------------------------------------------------------------------
(* Types.                                                                  *)

(* A closed connection is a connection. *)
LEMMA ClosedType == Closed \in Conns
BY DEF Closed, Conns

(* A directory is a sequence of entries. *)
LEMMA DirTypes ==
  ASSUME NEW d \in Dirs
  PROVE  Len(d) \in Nat /\ \A i \in 1 .. Len(d) : d[i] \in Entries
<1>1. PICK n \in 0 .. MaxEntries : d \in [1 .. n -> Entries]
  BY DEF Dirs
<1>2. n \in Nat
  BY <1>1, ServerAssumption
<1>3. d \in Seq(Entries)
  BY <1>1, <1>2
<1> QED BY <1>3

(* The files keep their type when they are edited. *)
LEMMA EditType ==
  ASSUME disk \in Files, disk' \in Edited
  PROVE  disk' \in Files
BY DEF Edited, Files

(* A process that ended is of the right type. *)
LEMMA ExitType ==
  ASSUME TypeOK, Exit,
         disk' \in Files, cfg' \in Files, edits' \in Nat, crashes' \in Nat
  PROVE  TypeOK'
BY ClosedType DEF TypeOK, Exit, NotYet

(* Goto keeps the types. *)
LEMMA GotoType ==
  ASSUME TypeOK, NEW place \in {"read", "load", "keyPair", "walk", "listen"},
         Goto(place), cfg' \in Files
  PROVE  TypeOK'
BY DEF TypeOK, Goto

(* So does a step that moves a connection. *)
LEMMA ConnType ==
  ASSUME TypeOK, conn' \in [Calls -> Conns],
         UNCHANGED <<disk, cfg, pc, pool, next, status, loader, edits, crashes>>
  PROVE  TypeOK'
BY DEF TypeOK

(* Every step keeps the types. *)
LEMMA TypeStep ==
  ASSUME TypeOK, [Next]_vars
  PROVE  TypeOK'
<1>1. CASE Launch
  BY <1>1, GotoType DEF Launch, TypeOK
<1>2. CASE ReadFile
  BY <1>2, GotoType, ExitType DEF ReadFile, TypeOK
<1>3. CASE LoadFromJson
  BY <1>3, GotoType, ExitType DEF LoadFromJson, TypeOK
<1>4. CASE LoadKeyPair
  BY <1>4, GotoType, ExitType DEF LoadKeyPair, TypeOK
<1>5. CASE LoadEntry
  <2>1. CASE Goto("listen") /\ UNCHANGED cfg
    BY <2>1, GotoType DEF TypeOK
  <2>2. CASE /\ next' = next + 1
             /\ pool' = pool \cup ({cfg.dir[next]} \cap CAs)
             /\ UNCHANGED <<disk, cfg, pc, status, loader, conn, edits, crashes>>
    BY <2>2 DEF TypeOK
  <2> QED BY <1>5, <2>1, <2>2 DEF LoadEntry
<1>6. CASE WalkEnds
  BY <1>6, GotoType DEF WalkEnds, TypeOK
<1>7. CASE Listen
  BY <1>7 DEF Listen, TypeOK
<1>8. CASE ListenFails
  BY <1>8, ExitType DEF ListenFails, TypeOK
<1>9. CASE MissesUser \/ FindsUser
  BY <1>9 DEF MissesUser, FindsUser, TypeOK
<1>10. ASSUME NEW c \in Calls, Handshake(c) \/ Close(c)
       PROVE  TypeOK'
  <2>1. ASSUME NEW cert \in Certs \cup {NoCert}
        PROVE  [Closed EXCEPT !.at = "open", !.cert = cert] \in Conns
    BY <2>1 DEF Closed, Conns
  <2>2. ASSUME NEW r \in Conns, conn' = [conn EXCEPT ![c] = r]
        PROVE  conn' \in [Calls -> Conns]
    BY <2>2 DEF TypeOK
  <2>3. conn' \in [Calls -> Conns]
    BY <1>10, <2>1, <2>2, ClosedType DEF Handshake, Close
  <2> QED BY <1>10, <2>3, ConnType DEF Handshake, Close
<1>11. ASSUME NEW c \in Calls, Request(c)
       PROVE  TypeOK'
  <2>1. PICK m \in {"Status", "other"} :
          conn' = [conn EXCEPT ![c].at = "auth", ![c].method = m, ![c].answer = "none"]
    BY <1>11 DEF Request
  <2>2. [conn[c] EXCEPT !.at = "auth", !.method = m, !.answer = "none"] \in Conns
    BY DEF Conns, TypeOK
  <2>3. conn' \in [Calls -> Conns]
    BY <2>1, <2>2 DEF TypeOK
  <2> QED BY <1>11, <2>3, ConnType DEF Request
<1>12. ASSUME NEW c \in Calls, NEW place \in {"status", "handler"}, Enter(c, place)
       PROVE  TypeOK'
  BY <1>12, ConnType DEF Enter, Conns, TypeOK
<1>13. ASSUME NEW c \in Calls, NEW answer \in {"unauthorised", "unavailable", "ok"},
              Answer(c, answer)
       PROVE  TypeOK'
  BY <1>13, ConnType DEF Answer, Conns, TypeOK
<1>14. ASSUME NEW c \in Calls, CallStep(c)
       PROVE  TypeOK'
  BY <1>12, <1>13, <1>14 DEF CallStep, AuthInterceptor, StatusInterceptor, Handle
<1>15. CASE Edit
  BY <1>15, EditType DEF Edit, TypeOK
<1>16. CASE Crash
  BY <1>16, ExitType DEF Crash, TypeOK
<1>17. CASE UNCHANGED vars
  BY <1>17 DEF vars, TypeOK
<1> QED
  BY <1>1, <1>2, <1>3, <1>4, <1>5, <1>6, <1>7, <1>8, <1>9, <1>10, <1>11, <1>14, <1>15,
     <1>16, <1>17 DEF Next, Start

(* The variables keep their types. *)
THEOREM TypeCorrect == Spec => []TypeOK
<1>1. Init => TypeOK
  BY ClosedType DEF Init, TypeOK, NotYet
<1> QED BY <1>1, TypeStep, PTL DEF Spec

-----------------------------------------------------------------------------
(* The pool of authorities.                                                *)

(* What loadCAs has read when it comes to entry n. *)
Read(dir, n) == {a \in CAs : \E i \in 1 .. n - 1 : dir[i] = a}

(* The walk so far met nothing unusable, and its pool is what it met. *)
PoolInv ==
  /\ pc \in {"keyPair", "walk"} => cfg.tls
  /\ pc \in {"down", "read", "load", "keyPair"} => pool = {} /\ next = 1
  /\ pc = "walk" =>
       /\ next <= Len(cfg.dir) + 1
       /\ pool = Read(cfg.dir, next)
       /\ \A i \in 1 .. next - 1 : cfg.dir[i] # "broken"
  /\ pc \in {"listen", "serve"} => pool = IF cfg.tls THEN ReadableCAs(cfg.dir) ELSE {}

(* The walk has the readable authorities at its end, and at the first entry it
   cannot use. *)
LEMMA WalkResult ==
  ASSUME NEW dir \in Dirs, NEW n \in 1 .. Len(dir) + 1,
         \A i \in 1 .. n - 1 : dir[i] # "broken",
         n <= Len(dir) => dir[n] = "broken"
  PROVE  Read(dir, n) = ReadableCAs(dir)
<1>1. Len(dir) \in Nat
  BY DirTypes
<1>2. ASSUME NEW a \in CAs, NEW i \in 1 .. n - 1, dir[i] = a
      PROVE  a \in ReadableCAs(dir)
  <2>1. i \in 1 .. Len(dir) /\ \A j \in 1 .. i : dir[j] # "broken"
    BY <1>1
  <2> QED BY <1>2, <2>1 DEF ReadableCAs
<1>3. ASSUME NEW a \in CAs, NEW i \in 1 .. Len(dir), dir[i] = a,
             \A j \in 1 .. i : dir[j] # "broken"
      PROVE  a \in Read(dir, n)
  <2>1. i \in 1 .. n - 1
    <3>1. CASE n <= Len(dir)
      <4>1. dir[n] = "broken"
        BY <3>1
      <4>2. ~(n \in 1 .. i)
        BY <1>3, <4>1
      <4> QED BY <1>1, <4>2
    <3>2. CASE ~(n <= Len(dir))
      BY <1>1, <3>2
    <3> QED BY <3>1, <3>2
  <2> QED BY <1>3, <2>1 DEF Read
<1> QED BY <1>2, <1>3 DEF Read, ReadableCAs

(* One more entry that is not broken. *)
LEMMA WalkGoesOn ==
  ASSUME NEW dir \in Dirs, NEW n \in 1 .. Len(dir)
  PROVE  Read(dir, n + 1) = Read(dir, n) \cup ({dir[n]} \cap CAs)
<1>1. Len(dir) \in Nat
  BY DirTypes
<1>2. \A i : i \in 1 .. n + 1 - 1 <=> i \in 1 .. n - 1 \/ i = n
  BY <1>1
<1> QED BY <1>2 DEF Read

(* Every step keeps the invariant of the pool. *)
LEMMA PoolStep ==
  ASSUME TypeOK, PoolInv, [Next]_vars
  PROVE  PoolInv'
<1>1. CASE UNCHANGED <<cfg, pc, pool, next>>
  BY <1>1 DEF PoolInv
<1>2. CASE Exit
  BY <1>2 DEF PoolInv, Exit
<1>3. CASE Launch \/ ReadFile \/ LoadFromJson \/ LoadKeyPair
  <2>1. cfg.dir \in Dirs /\ Read(cfg.dir, 1) = {} /\ cfg.tls \in BOOLEAN
    BY DEF TypeOK, Files, Read
  <2>2. Len(cfg.dir) \in Nat
    BY <2>1, DirTypes
  <2>3. CASE Launch
    BY <2>3 DEF Launch, Goto, PoolInv
  <2>4. CASE ReadFile
    BY <1>2, <2>4 DEF ReadFile, Goto, PoolInv
  <2>5. CASE LoadFromJson
    <3>1. CASE cfg.tls /\ pc' = "keyPair" /\ UNCHANGED <<cfg, pool, next>>
      BY <2>5, <3>1 DEF LoadFromJson, PoolInv
    <3>2. CASE ~cfg.tls /\ pc' = "listen" /\ UNCHANGED <<cfg, pool, next>>
      BY <2>5, <3>2 DEF LoadFromJson, PoolInv
    <3>3. \/ Exit
          \/ Goto(IF cfg.tls THEN "keyPair" ELSE "listen") /\ UNCHANGED cfg
      BY <2>5 DEF LoadFromJson
    <3>4. CASE Goto(IF cfg.tls THEN "keyPair" ELSE "listen") /\ UNCHANGED cfg
      BY <2>1, <3>1, <3>2, <3>4 DEF Goto
    <3> QED BY <1>2, <3>3, <3>4
  <2>6. CASE LoadKeyPair
    <3>1. CASE cfg.tls /\ pc' = "walk" /\ UNCHANGED <<cfg, pool, next>>
      <4>1. pool' = {} /\ next' = 1 /\ cfg' = cfg /\ \A i \in 1 .. next' - 1 : FALSE
        BY <2>6, <3>1 DEF LoadKeyPair, PoolInv
      <4>2. pool' = Read(cfg.dir, 1) /\ next' <= Len(cfg.dir) + 1
        BY <2>1, <2>2, <4>1
      <4> QED BY <3>1, <4>1, <4>2 DEF PoolInv
    <3>2. Exit \/ (cfg.tls /\ pc' = "walk" /\ UNCHANGED <<cfg, pool, next>>)
      BY <2>6 DEF LoadKeyPair, Goto, PoolInv
    <3> QED BY <1>2, <3>1, <3>2
  <2> QED BY <1>3, <2>3, <2>4, <2>5, <2>6
<1>4. CASE LoadEntry
  <2>1. /\ pc = "walk" /\ cfg.dir \in Dirs /\ next \in 1 .. Len(cfg.dir) /\ cfg.tls
        /\ pool = Read(cfg.dir, next)
        /\ \A i \in 1 .. next - 1 : cfg.dir[i] # "broken"
        /\ Len(cfg.dir) \in Nat
        /\ UNCHANGED cfg
    BY <1>4, DirTypes DEF LoadEntry, PoolInv, TypeOK, Files
  <2>2. CASE cfg.dir[next] = "broken"
    <3>1. pool = ReadableCAs(cfg.dir)
      BY <2>1, <2>2, WalkResult
    <3>2. pc' = "listen" /\ pool' = pool
      BY <1>4, <2>2 DEF LoadEntry, Goto
    <3> QED BY <2>1, <3>1, <3>2 DEF PoolInv
  <2>3. CASE cfg.dir[next] # "broken"
    <3>1. pc' = pc /\ next' = next + 1 /\ pool' = Read(cfg.dir, next + 1)
      BY <1>4, <2>1, <2>3, WalkGoesOn DEF LoadEntry
    <3>2. next' <= Len(cfg.dir) + 1 /\ \A i \in 1 .. next' - 1 : cfg.dir[i] # "broken"
      BY <2>1, <2>3, <3>1
    <3> QED BY <2>1, <3>1, <3>2 DEF PoolInv
  <2> QED BY <2>2, <2>3
<1>5. CASE WalkEnds
  <2>1. /\ cfg.dir \in Dirs /\ Len(cfg.dir) \in Nat /\ next = Len(cfg.dir) + 1 /\ cfg.tls
        /\ pool = Read(cfg.dir, next)
        /\ \A i \in 1 .. next - 1 : cfg.dir[i] # "broken"
    BY <1>5, DirTypes DEF WalkEnds, PoolInv, TypeOK, Files
  <2>2. pool = ReadableCAs(cfg.dir)
    BY <2>1, WalkResult
  <2>3. pc' = "listen" /\ UNCHANGED <<cfg, pool>>
    BY <1>5 DEF WalkEnds, Goto
  <2> QED BY <2>1, <2>2, <2>3 DEF PoolInv
<1>6. CASE Listen
  BY <1>6 DEF Listen, PoolInv
<1>7. CASE ListenFails \/ Crash
  BY <1>2, <1>7 DEF ListenFails, Crash
<1>8. CASE MissesUser \/ FindsUser \/ Edit \/ UNCHANGED vars
  BY <1>1, <1>8 DEF MissesUser, FindsUser, Edit, vars
<1>9. ASSUME NEW c \in Calls, Handshake(c) \/ Request(c) \/ CallStep(c) \/ Close(c)
      PROVE  UNCHANGED <<cfg, pc, pool, next>>
  BY <1>9 DEF Handshake, Request, CallStep, Close, AuthInterceptor, StatusInterceptor,
              Handle, Enter, Answer
<1> QED BY <1>1, <1>3, <1>4, <1>5, <1>6, <1>7, <1>8, <1>9 DEF Next, Start

(* It holds in every reachable state. *)
LEMMA PoolInvariant == Spec => []PoolInv
<1>1. Init => PoolInv
  BY DEF Init, PoolInv
<1> QED BY <1>1, PoolStep, TypeCorrect, PTL DEF Spec

(* The server trusts what loadCAs could read before it stumbled, for
   directories of any length and content. *)
THEOREM PoolCorrect == Spec => []PoolIsReadablePrefix
<1>1. PoolInv => PoolIsReadablePrefix
  BY DEF PoolInv, PoolIsReadablePrefix
<1> QED BY <1>1, PoolInvariant, PTL

-----------------------------------------------------------------------------
(* The calls.                                                              *)

(* A connection was accepted by the configuration in force. *)
Accepted(c) ==
  conn[c].at # "closed" /\ cfg.tls /\ ~cfg.trust =>
    conn[c].cert.issuer \in ReadableCAs(cfg.dir)

(* A call that passed AuthInterceptor, or was answered as one that did. *)
Admitted(c) ==
  /\ cfg.tls
  /\ conn[c].at \in {"status", "handler"} \/ conn[c].answer \in {"unavailable", "ok"}
  => Listed(conn[c].cert)

CallInv ==
  /\ pc # "serve" => conn = [c \in Calls |-> Closed] /\ status # "ok"
  /\ loader = "user" => status # "ok"
  /\ \A c \in Calls :
       /\ Accepted(c) /\ Admitted(c)
       /\ conn[c].at = "handler" /\ conn[c].method # "Status" => status = "ok"

(* Nobody is connected, so there is nothing to say of a connection. *)
LEMMA NoConnections ==
  ASSUME conn' = [c \in Calls |-> Closed], loader' = "user" => status' # "ok",
         pc' # "serve" => status' # "ok"
  PROVE  CallInv'
BY DEF CallInv, Accepted, Admitted, Closed

(* The step of one connection keeps the invariant if it does for that one. *)
LEMMA OneConnection ==
  ASSUME TypeOK, CallInv, PoolInv, NEW c \in Calls, pc = "serve",
         NEW r, conn' = [conn EXCEPT ![c] = r],
         UNCHANGED <<cfg, pc, status, loader>>,
         r.at # "closed" /\ cfg.tls /\ ~cfg.trust =>
           r.cert.issuer \in ReadableCAs(cfg.dir),
         cfg.tls /\ (r.at \in {"status", "handler"} \/ r.answer \in {"unavailable", "ok"})
           => Listed(r.cert),
         r.at = "handler" /\ r.method # "Status" => status = "ok"
  PROVE  CallInv'
<1>1. conn'[c] = r /\ \A d \in Calls : d # c => conn'[d] = conn[d]
  BY DEF TypeOK
<1>2. ASSUME NEW d \in Calls, d # c
      PROVE  /\ Accepted(d)' /\ Admitted(d)'
             /\ conn'[d].at = "handler" /\ conn'[d].method # "Status" => status' = "ok"
  BY <1>1, <1>2 DEF CallInv, Accepted, Admitted, Listed
<1>3. /\ Accepted(c)' /\ Admitted(c)'
      /\ conn'[c].at = "handler" /\ conn'[c].method # "Status" => status' = "ok"
  BY <1>1 DEF Accepted, Admitted, Listed
<1> QED BY <1>2, <1>3 DEF CallInv

(* Every step keeps the invariant of the calls. *)
LEMMA CallStepInv ==
  ASSUME TypeOK, PoolInv, CallInv, [Next]_vars
  PROVE  CallInv'
<1>1. CASE Exit
  BY <1>1, NoConnections DEF Exit, NotYet
<1>2. ASSUME NEW place, pc # "serve", Goto(place), place # "serve"
      PROVE  CallInv'
  BY <1>2, NoConnections DEF Goto, CallInv
<1>3. CASE Launch \/ ReadFile \/ LoadFromJson \/ LoadKeyPair \/ WalkEnds
  BY <1>1, <1>2, <1>3 DEF Launch, ReadFile, LoadFromJson, LoadKeyPair, WalkEnds
<1>4. CASE LoadEntry
  <2>1. CASE Goto("listen")
    BY <1>2, <1>4, <2>1 DEF LoadEntry
  <2>2. CASE UNCHANGED <<pc, status, loader, conn>>
    BY <1>4, <2>2, NoConnections DEF LoadEntry, CallInv
  <2> QED BY <1>4, <2>1, <2>2 DEF LoadEntry
<1>5. CASE Listen
  BY <1>5, NoConnections DEF Listen, CallInv
<1>6. CASE ListenFails \/ Crash
  BY <1>1, <1>6 DEF ListenFails, Crash
<1>7. CASE MissesUser \/ FindsUser
  BY <1>7 DEF MissesUser, FindsUser, CallInv, Accepted, Admitted, Listed
<1>8. CASE Edit \/ UNCHANGED vars
  BY <1>8 DEF Edit, vars, CallInv, Accepted, Admitted, Listed
<1>9. ASSUME NEW c \in Calls, Handshake(c)
      PROVE  CallInv'
  <2>1. PICK cert \in Certs \cup {NoCert} :
          /\ cfg.tls /\ ~cfg.trust => cert.issuer \in pool
          /\ conn' = [conn EXCEPT ![c] = [Closed EXCEPT !.at = "open", !.cert = cert]]
    BY <1>9 DEF Handshake, GetClientAuthType
  <2> DEFINE r == [Closed EXCEPT !.at = "open", !.cert = cert]
  <2>2. r.at = "open" /\ r.cert = cert /\ r.answer = "none"
    BY DEF Closed
  <2>3. pc = "serve" /\ UNCHANGED <<cfg, pc, status, loader>>
    BY <1>9 DEF Handshake, At
  <2>4. cfg.tls => pool = ReadableCAs(cfg.dir)
    BY <2>3 DEF PoolInv
  <2>5. cfg.tls /\ ~cfg.trust => r.cert.issuer \in ReadableCAs(cfg.dir)
    BY <2>1, <2>2, <2>4
  <2>6. conn' = [conn EXCEPT ![c] = r]
    BY <2>1
  <2> HIDE DEF r
  <2> QED BY <2>2, <2>3, <2>5, <2>6, OneConnection
<1>10. ASSUME NEW c \in Calls, Close(c)
       PROVE  CallInv'
  <2>1. pc = "serve" /\ UNCHANGED <<cfg, pc, status, loader>>
    BY <1>10 DEF Close, At
  <2>2. conn' = [conn EXCEPT ![c] = Closed]
    BY <1>10 DEF Close
  <2>3. Closed.at = "closed" /\ Closed.answer = "none"
    BY DEF Closed
  <2> QED BY <2>1, <2>2, <2>3, OneConnection
<1>11. ASSUME NEW c \in Calls, NEW r,
              conn' = [conn EXCEPT ![c] = r], conn[c].at # "closed",
              pc = "serve", UNCHANGED <<cfg, pc, status, loader>>,
              r.cert = conn[c].cert,
              cfg.tls /\ (r.at \in {"status", "handler"} \/ r.answer \in {"unavailable", "ok"})
                => Listed(conn[c].cert),
              r.at = "handler" /\ r.method # "Status" => status = "ok"
       PROVE  CallInv'
  <2>1. cfg.tls /\ ~cfg.trust => conn[c].cert.issuer \in ReadableCAs(cfg.dir)
    BY <1>11 DEF CallInv, Accepted
  <2> QED BY <1>11, <2>1, OneConnection
<1>12. ASSUME NEW c \in Calls, Request(c)
       PROVE  CallInv'
  <2>1. PICK m \in {"Status", "other"} :
          conn' = [conn EXCEPT ![c] = [conn[c] EXCEPT !.at = "auth", !.method = m,
                                                     !.answer = "none"]]
    BY <1>12 DEF Request, TypeOK
  <2> DEFINE r == [conn[c] EXCEPT !.at = "auth", !.method = m, !.answer = "none"]
  <2>2. r.at = "auth" /\ r.answer = "none" /\ r.cert = conn[c].cert
    BY DEF TypeOK, Conns
  <2>3. pc = "serve" /\ conn[c].at = "open" /\ UNCHANGED <<cfg, pc, status, loader>>
    BY <1>12 DEF Request, At
  <2> QED BY <1>11, <2>1, <2>2, <2>3
<1>13. ASSUME NEW c \in Calls, NEW place \in {"status", "handler"}, Enter(c, place),
              pc = "serve", conn[c].at # "closed",
              cfg.tls => Listed(conn[c].cert),
              place = "handler" /\ conn[c].method # "Status" => status = "ok"
       PROVE  CallInv'
  <2> DEFINE r == [conn[c] EXCEPT !.at = place]
  <2>1. conn' = [conn EXCEPT ![c] = r] /\ UNCHANGED <<cfg, pc, status, loader>>
    BY <1>13 DEF Enter, TypeOK
  <2>2. r.at = place /\ r.cert = conn[c].cert /\ r.method = conn[c].method
    BY DEF TypeOK, Conns
  <2> QED BY <1>11, <1>13, <2>1, <2>2
<1>14. ASSUME NEW c \in Calls, NEW answer, Answer(c, answer),
              pc = "serve", conn[c].at # "closed",
              answer = "unauthorised" \/ (cfg.tls => Listed(conn[c].cert))
       PROVE  CallInv'
  <2> DEFINE r == [conn[c] EXCEPT !.at = "open", !.answer = answer]
  <2>1. conn' = [conn EXCEPT ![c] = r] /\ UNCHANGED <<cfg, pc, status, loader>>
    BY <1>14 DEF Answer, TypeOK
  <2>2. r.at = "open" /\ r.answer = answer /\ r.cert = conn[c].cert
    BY DEF TypeOK, Conns
  <2> QED BY <1>11, <1>14, <2>1, <2>2
<1>15. ASSUME NEW c \in Calls, AuthInterceptor(c)
       PROVE  CallInv'
  BY <1>13, <1>14, <1>15 DEF AuthInterceptor, At
<1>16. ASSUME NEW c \in Calls, StatusInterceptor(c) \/ Handle(c)
       PROVE  CallInv'
  <2>1. pc = "serve" /\ conn[c].at \in {"status", "handler"}
    BY <1>16 DEF StatusInterceptor, Handle, At
  <2>2. cfg.tls => Listed(conn[c].cert)
    BY <2>1 DEF CallInv, Admitted
  <2> QED BY <1>13, <1>14, <1>16, <2>1, <2>2 DEF StatusInterceptor, Handle
<1> QED
  BY <1>3, <1>4, <1>5, <1>6, <1>7, <1>8, <1>9, <1>10, <1>12, <1>15, <1>16
     DEF Next, Start, CallStep

(* It holds in every reachable state, and so does that of the pool. *)
LEMMA CallInvariant == Spec => []CallInv /\ []PoolInv
<1>1. Init => CallInv
  BY DEF Init, CallInv, Accepted, Admitted, Closed, NotYet
<1> QED BY <1>1, CallStepInv, PoolInvariant, TypeCorrect, PTL DEF Spec

(* Only listed callers, with a certificate of an authority the process read,
   pass AuthInterceptor, over any sequence of edits, crashes and restarts. *)
THEOREM OnlyAdmitted == Spec => []OnlyAdmittedCallsPass
<1>1. CallInv => OnlyAdmittedCallsPass
  BY DEF CallInv, Accepted, Admitted, OnlyAdmittedCallsPass
<1> QED BY <1>1, CallInvariant, PTL

(* The status a handler was let through on does not change under it. *)
THEOREM StableStatus == Spec => []HandledWhileAvailable
<1>1. CallInv => HandledWhileAvailable
  BY DEF CallInv, HandledWhileAvailable
<1> QED BY <1>1, CallInvariant, PTL

(* Callers that are not listed are not told whether the service is there. *)
THEOREM AuthFirst == Spec => []AuthBeforeStatus
<1>1. CallInv => AuthBeforeStatus
  BY DEF CallInv, Admitted, AuthBeforeStatus
<1> QED BY <1>1, CallInvariant, PTL
==============================================================================
