---------------------------- MODULE ServerStart ----------------------------
(***************************************************************************)
(* The server program from its settings to its exit: how the settings are  *)
(* put together and validated (internal/config/server.go), what the TURN   *)
(* and signaling servers demand of them (NewServer of internal/turn and of *)
(* internal/signaling), and run of cmd/termcall-server/main.go, which      *)
(* opens the sockets one after the other, serves until a signal or a       *)
(* failure, and has to give back what it opened wherever it stops.         *)
(*                                                                         *)
(* A setting is a number (the one switch is 0 or 1), or for the four texts *)
(* one of the classes the code tells apart.  A text as it was written has  *)
(* a form: a value that parses, nothing, or something garbled.             *)
(***************************************************************************)
EXTENDS Integers

CONSTANTS
  Choices  \* Choices[f]: what the administrator may write for setting f

VARIABLES
  written,   \* what the administrator has written; read once
  pc,        \* where run stands
  cfg,       \* the config.Server it has loaded
  sockets,   \* those the process holds: "udp", "tcp" of TURN, and "http"
  sig,       \* the signaling server: "none", "open", "closed"
  http,      \* ListenAndServe: "none", "begun", "bound", "serving", "ended"
  httpErr,   \* serverErrors: "none", "closed" (ErrServerClosed), "failed"
  inShutdown,\* Shutdown of the HTTP server has begun
  active,    \* a plain HTTP request is being served
  signal,    \* SIGINT or SIGTERM has arrived
  why        \* why run returned: "none", "ok", or what failed

vars == <<written, pc, cfg, sockets, sig, http, httpErr, inShutdown, active,
          signal, why>>

httpVars == <<http, httpErr, inShutdown, active>>

----------------------------------------------------------------------------
\* Settings.

Texts == {"wsBind", "publicIP", "turnSecret", "allowedOrigins"}

Default ==
  [wsBind |-> "ip4", wsPort |-> 8080, turnPort |-> 3478, relayMin |-> 49152,
   relayMax |-> 65535, maxRoomSize |-> 5, credentialTTL |-> 600,
   perUserQuota |-> 2, totalQuota |-> 100, maxConnections |-> 20,
   maxTotalConnections |-> 1000, maxRooms |-> 200, messageRate |-> 20,
   messageBurst |-> 40, allowPrivatePeers |-> 0, publicIP |-> "", turnSecret |-> "",
   allowedOrigins |-> ""]

Settings == DOMAIN Default

\* Except for the four texts a setting is a number.
ASSUME ChoicesAssumption == \A f \in Settings \ Texts : Choices[f] \subseteq Int

\* ParseFloat accepts "NaN"; no comparison with it holds.
NaN == 1000000
Less(a, b) == a # NaN /\ b # NaN /\ a < b

\* lookup: the environment hides the .env file, an empty variable as well.
Written(in, f) ==
  IF f \in DOMAIN in.env THEN in.env[f]
  ELSE IF f \in DOMAIN in.file THEN in.file[f]
  ELSE [form |-> "absent", val |-> Default[f]]

\* envInt, envFloat, envBool, envDuration: nothing means the default; envString
\* takes it as it is.
EnvValue(in, f) ==
  LET w == Written(in, f)
  IN IF w.form = "value" \/ (w.form = "empty" /\ f \in Texts) THEN w.val
     ELSE Default[f]

\* A garbled number is an error, even one a flag would replace; a flag has
\* no empty numbers.
Parses(in) ==
  /\ in.fault = "none"
  /\ \A f \in Settings \ Texts :
       /\ Written(in, f).form # "garbled"
       /\ f \in DOMAIN in.flag => in.flag[f].form = "value"

Setting(in, f) ==
  IF f \in DOMAIN in.flag THEN in.flag[f].val ELSE EnvValue(in, f)

\* Texts: a number or class v, nothing at all, and what is no number.
Text(v)  == [form |-> "value", val |-> v]
Empty(f) == [form |-> "empty", val |-> IF f \in Texts THEN "" ELSE 0]
Garbled  == [form |-> "garbled", val |-> 0]

TextsOf(f) ==
  {Text(v) : v \in Choices[f]} \cup {Empty(f)} \cup
    (IF f \in Texts THEN {} ELSE {Garbled})

\* The .env file of the README's instructions: the settings without default.
EnvFile == [publicIP |-> Text("global"), turnSecret |-> Text("diverse")]

\* Setting f is written as t; the settings of a hide those of b.
One(f, t) == [x \in {f} |-> t]
Hiding(a, b) ==
  [x \in DOMAIN a \cup DOMAIN b |-> IF x \in DOMAIN a THEN a[x] ELSE b[x]]

\* What was written (bound): besides that file, setting f as t in one place
\* and setting g as u in the file; or else a file that does not parse, or
\* arguments that are no flags.
Input(f, t, place, g, u) ==
  LET one == One(f, t)
      rest == Hiding(One(g, u), EnvFile)
  IN [flag |-> IF place = "flag" THEN one ELSE << >>,
      env  |-> IF place = "env" THEN one ELSE << >>,
      file |-> IF place = "file" THEN Hiding(one, rest) ELSE rest,
      fault |-> "none"]

Unreadable(fault) ==
  [flag |-> << >>, env |-> << >>, file |-> EnvFile, fault |-> fault]

----------------------------------------------------------------------------
\* Validation.

\* Classes of addresses, by what package netip says of them and by the
\* prefixes the code lists.
GlobalUnicast == {"global", "private", "zeronet", "cgnat", "ietf", "doc1",
                  "bench", "doc2", "doc3", "v6global", "v6doc"}

isPublicIPv4(ip) ==
  /\ ip \in GlobalUnicast \ {"private", "v6global", "v6doc"}
  /\ ip \notin {"zeronet", "cgnat", "ietf", "doc1", "bench", "doc2", "doc3"}

\* peerAllowed(ip, false) of internal/turn.
peerAllowed(ip) ==
  /\ ip \in GlobalUnicast \ {"private"}
  /\ ip \notin {"zeronet", "cgnat", "ietf", "doc1", "bench", "doc2", "doc3",
                "v6doc"}

\* The client's filter of remote candidates, internal/rtc.
remoteCandidateAllowed(ip) ==
  /\ ip \in GlobalUnicast \ {"private"}
  /\ ip \notin {"zeronet", "cgnat", "ietf", "doc1", "bench", "doc2", "doc3",
                "v6doc"}

\* The largest uint16.
MaxPort == 65535

\* Mutant of validatePort: one too far.
validatePortWide(port) == port >= 1 /\ port <= MaxPort + 1

validatePort(port) == port >= 1 /\ port <= MaxPort

validTURNSecret(secret) == secret = "diverse"

validateServer(c) ==
  /\ c.wsBind \in {"ip4", "ip6"}
  /\ isPublicIPv4(c.publicIP)
  /\ validatePort(c.wsPort) /\ validatePort(c.turnPort)
  /\ validatePort(c.relayMin) /\ validatePort(c.relayMax)
  /\ c.relayMin <= c.relayMax
  /\ c.maxRoomSize \in 2..16
  /\ validTURNSecret(c.turnSecret)
  /\ c.credentialTTL >= 60 /\ c.credentialTTL <= 3600
  /\ c.perUserQuota >= 1 /\ c.perUserQuota <= 10
  /\ c.totalQuota >= c.perUserQuota /\ c.totalQuota <= 10000
  /\ c.maxConnections >= 1 /\ c.maxConnections <= 1000
  /\ c.maxTotalConnections >= c.maxConnections
  /\ c.maxTotalConnections <= 10000
  /\ c.maxRooms >= 1 /\ c.maxRooms <= c.maxTotalConnections
  /\ ~Less(c.messageRate, 1) /\ ~Less(1000, c.messageRate)
  /\ c.messageBurst >= 1 /\ c.messageBurst <= 2000
  /\ c.allowedOrigins # "invalid"

\* The ports become uint16.
Uint16(n) == n % (MaxPort + 1)

serverConfig(c) ==
  [c EXCEPT !.turnPort = Uint16(@), !.relayMin = Uint16(@),
            !.relayMax = Uint16(@)]

\* validateConfig of internal/turn.
validateConfig(c) ==
  /\ peerAllowed(c.publicIP)
  /\ c.turnPort # 0
  /\ c.turnSecret = "diverse"
  /\ c.credentialTTL >= 60 /\ c.credentialTTL <= 3600
  /\ c.relayMin # 0 /\ c.relayMin <= c.relayMax
  /\ c.perUserQuota >= 1 /\ c.totalQuota >= c.perUserQuota

\* What NewServer of internal/signaling demands.
signalingConfig(c) ==
  /\ c.maxRoomSize >= 2
  /\ c.maxRooms >= 1 /\ c.maxTotalConnections >= 1
  /\ c.maxTotalConnections >= c.maxConnections
  /\ c.maxRooms <= c.maxTotalConnections
  /\ c.maxConnections >= 1
  /\ ~(c.messageRate # NaN /\ c.messageRate <= 0) /\ c.messageBurst >= 1

----------------------------------------------------------------------------
\* run.

Init ==
  /\ \/ \E fault \in {"file", "stray"} : written = Unreadable(fault)
     \/ \E f, g \in Settings, place \in {"flag", "env", "file"} :
        \E t \in TextsOf(f), u \in TextsOf(g) :
          written = Input(f, t, place, g, u)
  /\ pc = "loading" /\ cfg = Default
  /\ sockets = {} /\ sig = "none"
  /\ http = "none" /\ httpErr = "none" /\ inShutdown = FALSE /\ active = FALSE
  /\ signal = FALSE /\ why = "none"

\* run returns for reason r; what it has deferred is still to be done.
Return(r) == why' = r /\ pc' = "deferred"

LoadServer ==
  /\ pc = "loading"
  /\ LET c == [f \in Settings |-> Setting(written, f)]
     IN IF Parses(written) /\ validateServer(c)
        THEN cfg' = serverConfig(c) /\ pc' = "turn" /\ UNCHANGED why
        ELSE Return("settings") /\ UNCHANGED cfg
  /\ written' = Unreadable("read")  \* nobody looks at it again
  /\ UNCHANGED <<sockets, sig, httpVars, signal>>

\* NewServer of internal/turn: the settings, the UDP socket, ...
ListenUDP ==
  /\ pc = "turn"
  /\ \/ /\ ~validateConfig(cfg)
        /\ Return("turn settings") /\ UNCHANGED sockets
     \/ /\ validateConfig(cfg)
        /\ sockets' = sockets \cup {"udp"} /\ pc' = "turn tcp" /\ UNCHANGED why
     \/ /\ validateConfig(cfg)
        /\ Return("listen") /\ UNCHANGED sockets
  /\ UNCHANGED <<written, cfg, sig, httpVars, signal>>

\* Mutant of ListenTCP: its failure leaves the UDP socket open.
ListenTCPLeaking ==
  /\ pc = "turn tcp"
  /\ \/ sockets' = sockets \cup {"tcp"} /\ pc' = "turn server" /\ UNCHANGED why
     \/ Return("listen") /\ UNCHANGED sockets
  /\ UNCHANGED <<written, cfg, sig, httpVars, signal>>

\* ... the TCP socket, whose failure closes the UDP one, ...
ListenTCP ==
  /\ pc = "turn tcp"
  /\ \/ sockets' = sockets \cup {"tcp"} /\ pc' = "turn server" /\ UNCHANGED why
     \/ Return("listen") /\ sockets' = sockets \ {"udp"}
  /\ UNCHANGED <<written, cfg, sig, httpVars, signal>>

\* ... and pion's server, whose failure closes both.
PionServer ==
  /\ pc = "turn server"
  /\ \/ pc' = "signaling" /\ UNCHANGED <<sockets, why>>
     \/ Return("pion") /\ sockets' = sockets \ {"tcp", "udp"}
  /\ UNCHANGED <<written, cfg, sig, httpVars, signal>>

NewSignaling ==
  /\ pc = "signaling"
  /\ IF signalingConfig(cfg)
     THEN sig' = "open" /\ pc' = "http" /\ UNCHANGED why
     ELSE Return("signaling settings") /\ UNCHANGED sig
  /\ UNCHANGED <<written, cfg, sockets, httpVars, signal>>

\* The goroutine that serves is started, and run waits in its select.
StartHTTP ==
  /\ pc = "http"
  /\ pc' = "waiting" /\ http' = "begun"
  /\ UNCHANGED <<written, cfg, sockets, sig, httpErr, inShutdown, active,
                 signal, why>>

----------------------------------------------------------------------------
\* ListenAndServe, in its goroutine.

\* Nothing is done once Shutdown was called; the socket may be taken, and is
\* when TURN, on all IPv4 addresses, listens on the same port of one of them.
ListenHTTP ==
  /\ http = "begun"
  /\ \/ /\ inShutdown
        /\ http' = "ended" /\ httpErr' = "closed" /\ UNCHANGED sockets
     \/ /\ ~inShutdown
        /\ ~(cfg.wsBind = "ip4" /\ cfg.wsPort = cfg.turnPort /\ "tcp" \in sockets)
        /\ http' = "bound" /\ sockets' = sockets \cup {"http"}
        /\ UNCHANGED httpErr
     \/ /\ ~inShutdown
        /\ http' = "ended" /\ httpErr' = "failed" /\ UNCHANGED sockets
  /\ UNCHANGED <<written, pc, cfg, sig, inShutdown, active, signal, why>>

\* Serve: a listener that comes after Shutdown is closed.
Serve ==
  /\ http = "bound"
  /\ IF inShutdown
     THEN http' = "ended" /\ httpErr' = "closed" /\ sockets' = sockets \ {"http"}
     ELSE http' = "serving" /\ UNCHANGED <<httpErr, sockets>>
  /\ UNCHANGED <<written, pc, cfg, sig, inShutdown, active, signal, why>>

\* Accept fails, because Shutdown has closed the socket or for good.
ServeEnds ==
  /\ http = "serving"
  /\ http' = "ended"
  /\ httpErr' = IF inShutdown THEN "closed" ELSE "failed"
  /\ sockets' = sockets \ {"http"}
  /\ UNCHANGED <<written, pc, cfg, sig, inShutdown, active, signal, why>>

\* A plain request comes, and ends, or a slow client keeps it.
Request ==
  /\ IF active THEN TRUE ELSE http = "serving" /\ ~inShutdown
  /\ active' = ~active
  /\ UNCHANGED <<written, pc, cfg, sockets, sig, http, httpErr, inShutdown,
                 signal, why>>

Signal ==
  /\ ~signal
  /\ signal' = TRUE
  /\ UNCHANGED <<written, pc, cfg, sockets, sig, httpVars, why>>

----------------------------------------------------------------------------
\* The select of run, and its end.

\* The signal: the signaling server is closed, and Shutdown closes the
\* listener.
ShutdownRequested ==
  /\ pc = "waiting" /\ signal
  /\ pc' = "shutdown"
  /\ sig' = "closed"
  /\ inShutdown' = TRUE
  /\ sockets' = IF http = "serving" THEN sockets \ {"http"} ELSE sockets
  /\ UNCHANGED <<written, cfg, http, httpErr, active, signal, why>>

\* It waits for the requests under way.
ShutdownIdle ==
  /\ pc = "shutdown" /\ ~active
  /\ Return("ok")
  /\ UNCHANGED <<written, cfg, sockets, sig, httpVars, signal>>

\* Mutant of ShutdownTimeout: the context has no deadline.
ShutdownEndless ==
  /\ FALSE
  /\ UNCHANGED vars

\* shutdownTimeout.
ShutdownTimeout ==
  /\ pc = "shutdown" /\ active
  /\ Return("timeout")
  /\ UNCHANGED <<written, cfg, sockets, sig, httpVars, signal>>

HTTPFails ==
  /\ pc = "waiting" /\ httpErr # "none"
  /\ Return(IF httpErr = "closed" THEN "ok" ELSE "http")
  /\ UNCHANGED <<written, cfg, sockets, sig, httpVars, signal>>

\* The deferred calls of what was set up: signalingServer.Close, then
\* turnServer.Close, which closes both of its sockets.
Deferred ==
  /\ pc = "deferred"
  /\ pc' = "returned"
  /\ sig' = IF sig = "none" THEN "none" ELSE "closed"
  /\ sockets' = IF why \in {"settings", "turn settings", "listen", "pion"}
                THEN sockets ELSE sockets \ {"udp", "tcp"}
  /\ UNCHANGED <<written, cfg, httpVars, signal, why>>

----------------------------------------------------------------------------
RunStep ==
  \/ LoadServer \/ ListenUDP \/ ListenTCP \/ PionServer \/ NewSignaling
  \/ StartHTTP \/ ShutdownRequested \/ ShutdownIdle \/ ShutdownTimeout
  \/ HTTPFails \/ Deferred

HTTPStep == ListenHTTP \/ Serve

\* run has returned; the process is about to end.
Finished ==
  /\ pc = "returned" /\ http \in {"none", "ended"} /\ signal
  /\ UNCHANGED vars

Next ==
  RunStep \/ HTTPStep \/ ServeEnds \/ Request \/ Signal \/ Finished

Spec == Init /\ [][Next]_vars

\* run and the serving goroutine go on; the socket of a server that is shut
\* down is noticed.  Nobody promises a signal, or that a request ends.
Fairness ==
  WF_vars(RunStep) /\ WF_vars(HTTPStep) /\ WF_vars(inShutdown /\ ServeEnds)

FairSpec == Spec /\ Fairness

----------------------------------------------------------------------------
\* Properties.

\* A config.Server.
IsConfig(c) == DOMAIN c = Settings /\ \A f \in Settings \ Texts : c[f] \in Int

\* Every variable keeps the shape of the Go value it stands for.
TypeOK ==
  /\ pc \in {"loading", "turn", "turn tcp", "turn server", "signaling", "http",
             "waiting", "shutdown", "deferred", "returned"}
  /\ IsConfig(cfg)
  /\ sockets \subseteq {"udp", "tcp", "http"}
  /\ sig \in {"none", "open", "closed"}
  /\ http \in {"none", "begun", "bound", "serving", "ended"}
  /\ httpErr \in {"none", "closed", "failed"}
  /\ inShutdown \in BOOLEAN /\ active \in BOOLEAN /\ signal \in BOOLEAN
  /\ why \in {"none", "ok", "settings", "turn settings", "listen", "pion",
              "signaling settings", "timeout", "http"}

\* The validators agree: settings LoadServer has accepted are refused by
\* neither server, no port is changed by the conversion to 16 bits, and the
\* address TURN will advertise is one the clients' candidate filter accepts.
AcceptedSettingsStart ==
  /\ why \notin {"turn settings", "signaling settings"}
  /\ pc \notin {"loading", "deferred", "returned"} =>
       /\ cfg.turnPort \in 1..MaxPort
       /\ cfg.relayMin \in 1..MaxPort /\ cfg.relayMax \in cfg.relayMin..MaxPort
       /\ remoteCandidateAllowed(cfg.publicIP)

\* Wherever run stops, whichever step failed, it has given back the sockets
\* and closed the signaling server; the serving goroutine holds at most a
\* socket it is about to close.
EverythingReleased ==
  pc = "returned" =>
    /\ sockets \subseteq {"http"} /\ sig # "open"
    /\ "http" \in sockets => http = "bound" /\ inShutdown

\* A signal, at whatever moment of the start or of a failure it comes and
\* although a client may keep a request open for ever, ends the program with
\* all sockets closed; so does a failure of the HTTP server.
StopsWhenAsked ==
  /\ signal ~> pc = "returned" /\ sockets = {}
  /\ httpErr # "none" ~> pc = "returned"

=============================================================================
