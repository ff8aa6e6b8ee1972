-------------------------- MODULE ServerStartProofs --------------------------
(***************************************************************************)
(* Proofs about the server program, for whatever the administrator may     *)
(* write for the numbers of its settings.                                  *)
(***************************************************************************)
EXTENDS ServerStart, TLAPS

Numbers == Settings \ Texts

----------------------------------------------------------------------------
\* The inductive invariant.

\* What stands for a number where settings are written.
Numeric(source) == \A f \in DOMAIN source \cap Numbers : source[f].val \in Int

WrittenOK ==
  Numeric(written.flag) /\ Numeric(written.env) /\ Numeric(written.file)

\* The types, the flags apart.
Flags == inShutdown \in BOOLEAN /\ active \in BOOLEAN /\ signal \in BOOLEAN

Shapes ==
  /\ pc \in {"loading", "turn", "turn tcp", "turn server", "signaling", "http",
             "waiting", "shutdown", "deferred", "returned"}
  /\ IsConfig(cfg)
  /\ sockets \subseteq {"udp", "tcp", "http"}
  /\ sig \in {"none", "open", "closed"}
  /\ http \in {"none", "begun", "bound", "serving", "ended"}
  /\ httpErr \in {"none", "closed", "failed"}
  /\ why \in {"none", "ok", "settings", "turn settings", "listen", "pion",
              "signaling settings", "timeout", "http"}

\* What LoadServer has accepted.
Accepted(c) ==
  /\ validateConfig(c) /\ signalingConfig(c)
  /\ c.turnPort \in 1..MaxPort
  /\ c.relayMin \in 1..MaxPort /\ c.relayMax \in c.relayMin..MaxPort
  /\ remoteCandidateAllowed(c.publicIP)

Checked ==
  /\ pc \notin {"loading", "deferred", "returned"} => Accepted(cfg)
  /\ why \notin {"turn settings", "signaling settings"}

\* What run holds where it stands.
Holdings ==
  /\ pc \in {"loading", "turn"} => sockets = {}
  /\ pc = "turn tcp" => sockets \subseteq {"udp"}
  /\ pc \in {"loading", "turn", "turn tcp", "turn server", "signaling"} =>
       sig = "none"
  /\ pc \in {"loading", "turn", "turn tcp", "turn server", "signaling", "http"}
       => http = "none" /\ httpErr = "none"
  /\ pc = "deferred" /\ why \in {"settings", "turn settings", "listen", "pion"}
       => sockets = {} /\ http = "none"
  /\ pc = "returned" => sig # "open" /\ {"udp", "tcp"} \cap sockets = {}

\* The socket of the HTTP server is its goroutine's until Shutdown takes it.
ServingOK ==
  /\ "http" \in sockets => http \in {"bound", "serving"}
  /\ httpErr # "none" => http = "ended"
  /\ inShutdown /\ "http" \in sockets => http = "bound"
  /\ pc = "shutdown" => inShutdown
  /\ pc \in {"deferred", "returned"} =>
       inShutdown \/ http \in {"none", "ended"}

ServerInv == TypeOK /\ WrittenOK /\ Checked /\ Holdings /\ ServingOK

----------------------------------------------------------------------------
\* Settings.

\* The settings that are numbers.
LEMMA NumberNames ==
  /\ Numbers = {"wsPort", "turnPort", "relayMin", "relayMax", "maxRoomSize",
                "credentialTTL", "perUserQuota", "totalQuota",
                "maxConnections", "maxTotalConnections", "maxRooms",
                "messageRate", "messageBurst", "allowPrivatePeers"}
  /\ Settings = Numbers \cup Texts
  BY DEF Numbers, Settings, Default, Texts

\* Their defaults are numbers.
LEMMA DefaultNumbers == \A f \in Numbers : Default[f] \in Int
<1>1. /\ Default["wsPort"] \in Int /\ Default["turnPort"] \in Int
      /\ Default["relayMin"] \in Int /\ Default["relayMax"] \in Int
      /\ Default["maxRoomSize"] \in Int /\ Default["credentialTTL"] \in Int
      /\ Default["perUserQuota"] \in Int /\ Default["totalQuota"] \in Int
      /\ Default["maxConnections"] \in Int
      /\ Default["maxTotalConnections"] \in Int /\ Default["maxRooms"] \in Int
      /\ Default["messageRate"] \in Int /\ Default["messageBurst"] \in Int
      /\ Default["allowPrivatePeers"] \in Int
  BY DEF Default
<1> QED
  BY <1>1, NumberNames

\* One that was written is a number, in the environment or in the file.
LEMMA SettingNumbers ==
  ASSUME NEW in, Numeric(in.flag), Numeric(in.env), Numeric(in.file),
         Parses(in), NEW f \in Numbers
  PROVE  Setting(in, f) \in Int
<1>1. Default[f] \in Int /\ f \notin Texts
  BY DefaultNumbers DEF Numbers
<1>2. Written(in, f).val \in Int
  BY <1>1 DEF Written, Numeric
<1>3. EnvValue(in, f) \in Int
  BY <1>1, <1>2 DEF EnvValue
<1> QED
  BY <1>3 DEF Setting, Numeric

\* The .env file and the empty sources hold no numbers.
LEMMA NothingNumeric == Numeric(EnvFile) /\ Numeric(<< >>)
<1>1. DOMAIN EnvFile \cap Numbers = {}
  BY DEF EnvFile, Numbers, Texts
<1> QED
  BY <1>1 DEF Numeric

\* What the administrator may write for a number is one.
LEMMA InputNumeric ==
  ASSUME NEW f \in Settings, NEW g \in Settings, NEW place,
         NEW t \in TextsOf(f), NEW u \in TextsOf(g)
  PROVE  /\ Numeric(Input(f, t, place, g, u).flag)
         /\ Numeric(Input(f, t, place, g, u).env)
         /\ Numeric(Input(f, t, place, g, u).file)
<1> DEFINE one == One(f, t)
           rest == Hiding(One(g, u), EnvFile)
<1>1. ASSUME NEW h \in Settings, NEW v \in TextsOf(h)
      PROVE  Numeric(One(h, v))
  <2>1. ASSUME h \in Numbers PROVE v.val \in Int
    <3>1. CASE v = Empty(h)
      BY <2>1, <3>1 DEF Empty, Numbers
    <3>2. CASE v = Garbled
      BY <3>2 DEF Garbled
    <3>3. ASSUME NEW x \in Choices[h], v = Text(x) PROVE v.val \in Int
      BY <2>1, <3>3, ChoicesAssumption DEF Text, Numbers
    <3> QED
      BY <3>1, <3>2, <3>3 DEF TextsOf
  <2> QED
    BY <2>1 DEF One, Numeric
<1>2. ASSUME NEW a, NEW b, Numeric(a), Numeric(b) PROVE Numeric(Hiding(a, b))
  BY <1>2 DEF Hiding, Numeric
<1>3. Numeric(EnvFile) /\ Numeric(<< >>)
  BY NothingNumeric
<1>4. Numeric(one) /\ Numeric(rest) /\ Numeric(Hiding(one, rest))
  BY <1>1, <1>2, <1>3
<1> HIDE DEF one, rest
<1>5. /\ Input(f, t, place, g, u).flag = IF place = "flag" THEN one ELSE << >>
      /\ Input(f, t, place, g, u).env = IF place = "env" THEN one ELSE << >>
      /\ Input(f, t, place, g, u).file =
           IF place = "file" THEN Hiding(one, rest) ELSE rest
  BY DEF Input, one, rest
<1> QED
  BY <1>3, <1>4, <1>5

\* A valid port fits into 16 bits.
LEMMA PortsFit ==
  ASSUME NEW p \in Int, validatePort(p)
  PROVE  p \in 1..MaxPort /\ Uint16(p) = p
<1>1. Uint16(p) = p
  BY DEF validatePort, Uint16, MaxPort
<1>2. MaxPort \in Int
  BY DEF MaxPort
<1> QED
  BY <1>1, <1>2 DEF validatePort

\* The three validators agree on every choice of the settings.
LEMMA ValidatorsAgree ==
  ASSUME NEW c, c = [f \in Settings |-> c[f]], IsConfig(c), validateServer(c)
  PROVE  Accepted(serverConfig(c)) /\ IsConfig(serverConfig(c))
<1>1. \A f \in Numbers : c[f] \in Int
  BY DEF IsConfig, Numbers
<1>2. /\ c["turnPort"] \in Int /\ c["relayMin"] \in Int
      /\ c["relayMax"] \in Int /\ c["maxRoomSize"] \in Int
      /\ c["credentialTTL"] \in Int
      /\ c["perUserQuota"] \in Int /\ c["totalQuota"] \in Int
      /\ c["maxConnections"] \in Int /\ c["maxTotalConnections"] \in Int
      /\ c["maxRooms"] \in Int /\ c["messageRate"] \in Int
      /\ c["messageBurst"] \in Int
  BY <1>1, NumberNames
<1>3. /\ c.turnPort \in 1..MaxPort /\ Uint16(c.turnPort) = c.turnPort
      /\ c.relayMin \in 1..MaxPort /\ Uint16(c.relayMin) = c.relayMin
      /\ c.relayMax \in 1..MaxPort /\ Uint16(c.relayMax) = c.relayMax
      /\ c.relayMin <= c.relayMax
  BY <1>2, PortsFit DEF validateServer
<1>4. serverConfig(c) = c
  BY <1>3 DEF serverConfig
<1>5. c.relayMax \in c.relayMin..MaxPort
  <2>1. MaxPort \in Int
    BY DEF MaxPort
  <2> QED
    BY <1>3, <2>1
<1>6. peerAllowed(c.publicIP) /\ remoteCandidateAllowed(c.publicIP)
  BY DEF validateServer, isPublicIPv4, peerAllowed, remoteCandidateAllowed
<1>7. validateConfig(c)
  <2>1. c.turnPort # 0 /\ c.relayMin # 0
    <3>1. MaxPort \in Int
      BY DEF MaxPort
    <3> QED
      BY <1>3, <3>1
  <2> QED
    BY <1>2, <1>6, <2>1 DEF validateServer, validateConfig, validTURNSecret
<1>8. signalingConfig(c)
  BY <1>2 DEF validateServer, signalingConfig, Less, NaN
<1> QED
  BY <1>3, <1>4, <1>5, <1>6, <1>7, <1>8 DEF Accepted

\* LoadServer leaves a configuration that both servers accept, or stops.
LEMMA LoadedAccepted ==
  ASSUME IsConfig(cfg), WrittenOK, LoadServer
  PROVE  /\ IsConfig(cfg')
         /\ \/ pc' = "turn" /\ why' = why /\ Accepted(cfg')
            \/ pc' = "deferred" /\ why' = "settings"
<1> DEFINE c == [f \in Settings |-> Setting(written, f)]
<1>1. CASE Parses(written) /\ validateServer(c)
  <2>1. \A f \in Numbers : Setting(written, f) \in Int
    BY <1>1, SettingNumbers DEF WrittenOK
  <2>2. IsConfig(c)
    BY <2>1, NumberNames DEF IsConfig, Numbers
  <2>3. Accepted(serverConfig(c)) /\ IsConfig(serverConfig(c))
    <3>1. c = [f \in Settings |-> c[f]] /\ validateServer(c)
      BY <1>1
    <3> HIDE DEF c
    <3> QED
      BY <2>2, <3>1, ValidatorsAgree
  <2>4. cfg' = serverConfig(c) /\ pc' = "turn" /\ why' = why
    BY <1>1 DEF LoadServer
  <2> HIDE DEF c
  <2> QED
    BY <2>3, <2>4
<1>2. CASE ~(Parses(written) /\ validateServer(c))
  <2>1. cfg' = cfg /\ pc' = "deferred" /\ why' = "settings"
    BY <1>2 DEF LoadServer, Return
  <2> QED
    BY <2>1
<1> QED
  BY <1>1, <1>2

\* The faulty inputs hold none either.
LEMMA UnreadableOK ==
  ASSUME NEW fault
  PROVE  /\ Numeric(Unreadable(fault).flag) /\ Numeric(Unreadable(fault).env)
         /\ Numeric(Unreadable(fault).file)
  BY NothingNumeric DEF Unreadable

----------------------------------------------------------------------------
\* Steps.

\* Every step preserves the flags' type.
LEMMA FlagsStep ==
  ASSUME Flags, [Next]_vars
  PROVE  Flags'
<1> USE DEF Flags, httpVars
<1>1. CASE LoadServer
  BY Zenon, <1>1 DEF LoadServer, Return
<1>2. CASE ListenUDP
  BY Zenon, <1>2 DEF ListenUDP, Return
<1>3. CASE ListenTCP
  BY Zenon, <1>3 DEF ListenTCP, Return
<1>4. CASE PionServer
  BY Zenon, <1>4 DEF PionServer, Return
<1>5. CASE NewSignaling
  BY Zenon, <1>5 DEF NewSignaling, Return
<1>6. CASE StartHTTP
  BY Zenon, <1>6 DEF StartHTTP
<1>7. CASE ListenHTTP
  BY Zenon, <1>7 DEF ListenHTTP
<1>8. CASE Serve
  BY Zenon, <1>8 DEF Serve
<1>9. CASE ServeEnds
  BY Zenon, <1>9 DEF ServeEnds
<1>10. CASE Request
  BY Zenon, <1>10 DEF Request
<1>11. CASE Signal
  BY Zenon, <1>11 DEF Signal
<1>12. CASE ShutdownRequested
  BY Zenon, <1>12 DEF ShutdownRequested
<1>13. CASE ShutdownIdle
  BY Zenon, <1>13 DEF ShutdownIdle, Return
<1>14. CASE ShutdownTimeout
  BY Zenon, <1>14 DEF ShutdownTimeout, Return
<1>15. CASE HTTPFails
  BY Zenon, <1>15 DEF HTTPFails, Return
<1>16. CASE Deferred
  BY Zenon, <1>16 DEF Deferred
<1>17. CASE UNCHANGED vars
  BY Zenon, <1>17 DEF vars
<1> QED
  BY Zenon, <1>1, <1>2, <1>3, <1>4, <1>5, <1>6, <1>7, <1>8, <1>9, <1>10, <1>11,
     <1>12, <1>13, <1>14, <1>15, <1>16, <1>17
  DEF Next, RunStep, HTTPStep, Finished

\* Every step preserves the other types.
LEMMA ShapesStep ==
  ASSUME Shapes, WrittenOK, [Next]_vars
  PROVE  Shapes'
<1> USE DEF Shapes, httpVars
<1>1. CASE LoadServer
  <2>1. /\ IsConfig(cfg') /\ pc' \in {"turn", "deferred"}
        /\ why' \in {why, "settings"}
    BY <1>1, LoadedAccepted
  <2>2. UNCHANGED <<sockets, sig, http, httpErr>>
    BY <1>1 DEF LoadServer
  <2> QED
    BY <2>1, <2>2
<1>2. CASE ListenUDP
  BY <1>2 DEF ListenUDP, Return
<1>3. CASE ListenTCP
  BY <1>3 DEF ListenTCP, Return
<1>4. CASE PionServer
  BY <1>4 DEF PionServer, Return
<1>5. CASE NewSignaling
  BY <1>5 DEF NewSignaling, Return
<1>6. CASE StartHTTP
  BY <1>6 DEF StartHTTP
<1>7. CASE ListenHTTP
  BY <1>7, ZenonT(30) DEF ListenHTTP
<1>8. CASE Serve
  BY <1>8 DEF Serve
<1>9. CASE ServeEnds
  BY <1>9 DEF ServeEnds
<1>10. CASE Request
  BY <1>10, ZenonT(30) DEF Request
<1>11. CASE Signal
  BY <1>11, ZenonT(30) DEF Signal
<1>12. CASE ShutdownRequested
  BY <1>12 DEF ShutdownRequested
<1>13. CASE ShutdownIdle
  BY <1>13 DEF ShutdownIdle, Return
<1>14. CASE ShutdownTimeout
  BY <1>14 DEF ShutdownTimeout, Return
<1>15. CASE HTTPFails
  BY <1>15 DEF HTTPFails, Return
<1>16. CASE Deferred
  BY <1>16 DEF Deferred
<1>17. CASE UNCHANGED vars
  BY <1>17, ZenonT(30) DEF vars
<1> QED
  BY <1>1, <1>2, <1>3, <1>4, <1>5, <1>6, <1>7, <1>8, <1>9, <1>10, <1>11, <1>12,
     <1>13, <1>14, <1>15, <1>16, <1>17
  DEF Next, RunStep, HTTPStep, Finished

\* What is written stays numeric where it must be.
LEMMA WrittenStep ==
  ASSUME WrittenOK, [Next]_vars
  PROVE  WrittenOK'
<1> USE DEF WrittenOK, httpVars
<1>1. CASE LoadServer
  <2>1. written' = Unreadable("read")
    BY <1>1 DEF LoadServer
  <2> QED
    BY <2>1, UnreadableOK
<1>2. CASE ListenUDP
  BY <1>2 DEF ListenUDP, Return
<1>3. CASE ListenTCP
  BY <1>3 DEF ListenTCP, Return
<1>4. CASE PionServer
  BY <1>4 DEF PionServer, Return
<1>5. CASE NewSignaling
  BY <1>5 DEF NewSignaling, Return
<1>6. CASE StartHTTP
  BY <1>6 DEF StartHTTP
<1>7. CASE ListenHTTP
  BY <1>7 DEF ListenHTTP
<1>8. CASE Serve
  BY <1>8 DEF Serve
<1>9. CASE ServeEnds
  BY <1>9 DEF ServeEnds
<1>10. CASE Request
  BY <1>10 DEF Request
<1>11. CASE Signal
  BY <1>11 DEF Signal
<1>12. CASE ShutdownRequested
  BY <1>12 DEF ShutdownRequested
<1>13. CASE ShutdownIdle
  BY <1>13 DEF ShutdownIdle, Return
<1>14. CASE ShutdownTimeout
  BY <1>14 DEF ShutdownTimeout, Return
<1>15. CASE HTTPFails
  BY <1>15 DEF HTTPFails, Return
<1>16. CASE Deferred
  BY <1>16 DEF Deferred
<1>17. CASE UNCHANGED vars
  BY <1>17 DEF vars
<1> QED
  BY <1>1, <1>2, <1>3, <1>4, <1>5, <1>6, <1>7, <1>8, <1>9, <1>10, <1>11, <1>12,
     <1>13, <1>14, <1>15, <1>16, <1>17
  DEF Next, RunStep, HTTPStep, Finished

\* No later step refuses what LoadServer has accepted.
LEMMA CheckedStep ==
  ASSUME TypeOK, WrittenOK, Checked, [Next]_vars
  PROVE  Checked'
<1> USE DEF TypeOK, Checked, httpVars
<1>1. CASE LoadServer
  BY <1>1, LoadedAccepted
<1>2. CASE ListenUDP
  BY <1>2 DEF ListenUDP, Return, Accepted
<1>3. CASE ListenTCP
  BY <1>3 DEF ListenTCP, Return
<1>4. CASE PionServer
  BY <1>4 DEF PionServer, Return
<1>5. CASE NewSignaling
  BY <1>5 DEF NewSignaling, Return, Accepted
<1>6. CASE StartHTTP
  BY <1>6 DEF StartHTTP
<1>7. CASE ListenHTTP
  BY <1>7 DEF ListenHTTP
<1>8. CASE Serve
  BY <1>8 DEF Serve
<1>9. CASE ServeEnds
  BY <1>9 DEF ServeEnds
<1>10. CASE Request
  BY <1>10 DEF Request
<1>11. CASE Signal
  BY <1>11 DEF Signal
<1>12. CASE ShutdownRequested
  BY <1>12 DEF ShutdownRequested
<1>13. CASE ShutdownIdle
  BY <1>13 DEF ShutdownIdle, Return
<1>14. CASE ShutdownTimeout
  BY <1>14 DEF ShutdownTimeout, Return
<1>15. CASE HTTPFails
  BY <1>15 DEF HTTPFails, Return
<1>16. CASE Deferred
  BY <1>16 DEF Deferred
<1>17. CASE UNCHANGED vars
  BY <1>17 DEF vars
<1> QED
  BY <1>1, <1>2, <1>3, <1>4, <1>5, <1>6, <1>7, <1>8, <1>9, <1>10, <1>11, <1>12,
     <1>13, <1>14, <1>15, <1>16, <1>17
  DEF Next, RunStep, HTTPStep, Finished

\* Every step keeps the account of what run holds.
LEMMA HoldingsStep ==
  ASSUME TypeOK, Holdings, ServingOK, [Next]_vars
  PROVE  Holdings'
<1> USE DEF TypeOK, Holdings, ServingOK, httpVars
<1>1. CASE LoadServer
  BY <1>1 DEF LoadServer, Return
<1>2. CASE ListenUDP
  BY <1>2 DEF ListenUDP, Return
<1>3. CASE ListenTCP
  BY <1>3 DEF ListenTCP, Return
<1>4. CASE PionServer
  BY <1>4 DEF PionServer, Return
<1>5. CASE NewSignaling
  BY <1>5 DEF NewSignaling, Return
<1>6. CASE StartHTTP
  BY <1>6 DEF StartHTTP
<1>7. CASE ListenHTTP
  BY <1>7 DEF ListenHTTP
<1>8. CASE Serve
  BY <1>8 DEF Serve
<1>9. CASE ServeEnds
  BY <1>9 DEF ServeEnds
<1>10. CASE Request
  BY <1>10 DEF Request
<1>11. CASE Signal
  BY <1>11 DEF Signal
<1>12. CASE ShutdownRequested
  BY <1>12 DEF ShutdownRequested
<1>13. CASE ShutdownIdle
  BY <1>13 DEF ShutdownIdle, Return
<1>14. CASE ShutdownTimeout
  BY <1>14 DEF ShutdownTimeout, Return
<1>15. CASE HTTPFails
  BY <1>15 DEF HTTPFails, Return
<1>16. CASE Deferred
  BY <1>16 DEF Deferred
<1>17. CASE UNCHANGED vars
  BY <1>17 DEF vars
<1> QED
  BY <1>1, <1>2, <1>3, <1>4, <1>5, <1>6, <1>7, <1>8, <1>9, <1>10, <1>11, <1>12,
     <1>13, <1>14, <1>15, <1>16, <1>17
  DEF Next, RunStep, HTTPStep, Finished

\* Every step keeps the HTTP socket with its owner.
LEMMA ServingStep ==
  ASSUME TypeOK, Holdings, ServingOK, [Next]_vars
  PROVE  ServingOK'
<1> USE DEF TypeOK, Holdings, ServingOK, httpVars
<1>1. CASE LoadServer
  BY <1>1 DEF LoadServer, Return
<1>2. CASE ListenUDP
  BY <1>2 DEF ListenUDP, Return
<1>3. CASE ListenTCP
  BY <1>3 DEF ListenTCP, Return
<1>4. CASE PionServer
  BY <1>4 DEF PionServer, Return
<1>5. CASE NewSignaling
  BY <1>5 DEF NewSignaling, Return
<1>6. CASE StartHTTP
  BY <1>6 DEF StartHTTP
<1>7. CASE ListenHTTP
  BY <1>7 DEF ListenHTTP
<1>8. CASE Serve
  BY <1>8 DEF Serve
<1>9. CASE ServeEnds
  BY <1>9 DEF ServeEnds
<1>10. CASE Request
  BY <1>10 DEF Request
<1>11. CASE Signal
  BY <1>11 DEF Signal
<1>12. CASE ShutdownRequested
  BY <1>12 DEF ShutdownRequested
<1>13. CASE ShutdownIdle
  BY <1>13 DEF ShutdownIdle, Return
<1>14. CASE ShutdownTimeout
  BY <1>14 DEF ShutdownTimeout, Return
<1>15. CASE HTTPFails
  BY <1>15 DEF HTTPFails, Return
<1>16. CASE Deferred
  BY <1>16 DEF Deferred
<1>17. CASE UNCHANGED vars
  BY <1>17 DEF vars
<1> QED
  BY <1>1, <1>2, <1>3, <1>4, <1>5, <1>6, <1>7, <1>8, <1>9, <1>10, <1>11, <1>12,
     <1>13, <1>14, <1>15, <1>16, <1>17
  DEF Next, RunStep, HTTPStep, Finished

----------------------------------------------------------------------------
\* The flags and the shapes are the type invariant.
LEMMA TypeParts == TypeOK <=> Flags /\ Shapes
  BY Zenon DEF TypeOK, Flags, Shapes

\* The program starts in the invariant.
LEMMA InitServer == Init => ServerInv
<1> SUFFICES ASSUME Init PROVE ServerInv
  OBVIOUS
<1>1. IsConfig(cfg)
  <2>1. cfg = Default
    BY DEF Init
  <2> QED
    BY <2>1, DefaultNumbers DEF IsConfig, Settings, Numbers
<1>2. WrittenOK
  <2>1. ASSUME NEW fault, written = Unreadable(fault) PROVE WrittenOK
    BY <2>1, UnreadableOK DEF WrittenOK
  <2>2. ASSUME NEW f \in Settings, NEW g \in Settings,
               NEW place \in {"flag", "env", "file"},
               NEW t \in TextsOf(f), NEW u \in TextsOf(g),
               written = Input(f, t, place, g, u)
        PROVE  WrittenOK
    BY <2>2, InputNumeric DEF WrittenOK
  <2> QED
    BY <2>1, <2>2 DEF Init
<1>3. Flags
  BY Zenon DEF Init, Flags
<1>4. Shapes /\ Checked /\ Holdings /\ ServingOK
  BY <1>1 DEF Init, Shapes, Checked, Holdings, ServingOK
<1> QED
  BY <1>2, <1>3, <1>4, TypeParts DEF ServerInv

\* Every step of run, of the serving goroutine and of the world around them
\* preserves it.
LEMMA ServerStep == ServerInv /\ [Next]_vars => ServerInv'
<1> SUFFICES ASSUME ServerInv, [Next]_vars PROVE ServerInv'
  OBVIOUS
<1>1. TypeOK /\ WrittenOK /\ Checked /\ Holdings /\ ServingOK
  BY DEF ServerInv
<1>2. TypeOK'
  <2>1. Flags /\ Shapes
    BY <1>1, TypeParts
  <2>2. Flags' /\ Shapes'
    BY <1>1, <2>1, FlagsStep, ShapesStep
  <2> QED
    BY Zenon, <2>2 DEF TypeOK, Flags, Shapes
<1>3. WrittenOK'
  BY <1>1, WrittenStep
<1>4. Checked'
  BY <1>1, CheckedStep
<1>5. Holdings'
  BY <1>1, HoldingsStep
<1>6. ServingOK'
  BY <1>1, ServingStep
<1> QED
  BY <1>2, <1>3, <1>4, <1>5, <1>6 DEF ServerInv

\* The invariant holds throughout.
LEMMA ServerInvariant == Spec => []ServerInv
  BY InitServer, ServerStep, PTL DEF Spec

----------------------------------------------------------------------------
\* What follows from it.

\* The invariant contains the types.
LEMMA ServerTypes == ServerInv => TypeOK
  BY DEF ServerInv

\* What is checked is what both servers ask for.
LEMMA CheckedStart == ServerInv => AcceptedSettingsStart
  BY DEF ServerInv, Checked, Accepted, AcceptedSettingsStart

\* What run holds at its end.
LEMMA HoldingsReleased == ServerInv => EverythingReleased
  BY DEF ServerInv, TypeOK, Holdings, ServingOK, EverythingReleased

\* Every variable of the server program keeps the shape of the Go value it
\* stands for, whatever is written in its settings.
THEOREM ServerTypeCorrect == Spec => []TypeOK
  BY ServerInvariant, ServerTypes, PTL

\* For every choice of the numbers the validators agree: what LoadServer has
\* accepted is refused by neither NewServer, the conversion to 16 bits changes
\* no port, and the clients' candidate filter accepts the advertised address.
THEOREM AcceptedSettingsAlwaysStart == Spec => []AcceptedSettingsStart
  BY ServerInvariant, CheckedStart, PTL

\* Wherever run stops, whichever step failed and whenever the signal came, it
\* has given back its sockets and closed the signaling server.
THEOREM EverythingAlwaysReleased == Spec => []EverythingReleased
  BY ServerInvariant, HoldingsReleased, PTL

==============================================================================
