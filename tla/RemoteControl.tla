--------------------------- MODULE RemoteControl ---------------------------
(***************************************************************************)
(* The remote control (main.ts applyRemote and its neighbours, server.ts): *)
(* a server on one port while the setting is on, the file that says where  *)
(* it listens, and the token it takes (token-store.ts), which the pane of  *)
(* the preferences shows and can renew.                                    *)
(*                                                                         *)
(* applyRemote and regenerate run to their next await in one step.  What   *)
(* main tells the window arrives as it is told.                            *)
(***************************************************************************)
EXTENDS Naturals, FiniteSets

CONSTANTS MaxCalls, MaxFaults   \* bounds: settings changed or tokens asked for; failures

None == 0
Calls == 1..MaxCalls

VARIABLES
    on,         \* the setting
    remote,     \* the server main knows
    listening,  \* the servers that listen
    problem,
    address,    \* the server remote.json names
    held, file, minted, \* the token held, the one in the file, and how many there have been
    load,       \* TokenStore.loading
    calls,      \* applyRemote and regenerate in flight; why: the setting, or a new token
    made,
    flag,       \* the window says it listens
    pane,       \* the status the preferences show
    asked,      \* the preferences have asked for the status
    faults,
    overlapped  \* history: something was asked for during a call

server == <<remote, listening, problem, address>>
tokens == <<held, file, minted, load>>
shown == <<flag, pane, asked>>
vars == <<on, server, tokens, calls, made, shown, faults, overlapped>>

NoCall == [at |-> "none", why |-> "setting", value |-> None]

Init ==
    /\ on = FALSE /\ remote = None /\ listening = {} /\ problem = FALSE /\ address = None
    /\ file \in {None, 1} /\ minted = file /\ held = None /\ load = "none"
    /\ calls = [c \in Calls |-> NoCall] /\ made = 0
    /\ flag = FALSE /\ pane = [listening |-> FALSE, token |-> None] /\ asked = FALSE
    /\ faults = 0 /\ overlapped = FALSE

InFlight == {c \in Calls : calls[c].at # "none"}
At(c, where) == calls' = [calls EXCEPT ![c].at = where]
Busy == InFlight # {} \/ load # "none"

\* remoteStatus; with the setting on it waits for a token
StatusWith(token) == [listening |-> remote # None, token |-> IF on THEN token ELSE None]
Status == StatusWith(held)

(***************************************************************************)
(* The token store.                                                        *)
(***************************************************************************)
\* current: loadOrCreate is shared
Loads == load' = IF held = None /\ load = "none" THEN "reading" ELSE load

\* loadOrCreate
LoadReads ==
    /\ load = "reading"
    /\ IF held = None /\ file = None THEN load' = "minting" /\ UNCHANGED held
       ELSE load' = "none" /\ held' = IF held = None THEN file ELSE held
    /\ UNCHANGED <<on, server, file, minted, calls, made, shown, faults, overlapped>>

\* and the regenerate it calls: the file, then the copy in memory
LoadMints ==
    /\ \/ load = "minting" /\ load' = "minted" /\ minted' = minted + 1 /\ file' = minted' /\ UNCHANGED held
       \/ load = "minted" /\ load' = "none" /\ held' = file /\ UNCHANGED <<file, minted>>
    /\ UNCHANGED <<on, server, calls, made, shown, faults, overlapped>>

(***************************************************************************)
(* applyRemote(true)                                                       *)
(***************************************************************************)
\* A call is over; regenerate answers the pane with the status.
Ends(c) ==
    /\ calls' = [calls EXCEPT ![c] = NoCall]
    /\ pane' = IF calls[c].why = "token" THEN StatusWith(held') ELSE pane

\* It waits for the token, and then for the port.
Starts(c, why) ==
    IF remote # None
    THEN calls' = [calls EXCEPT ![c] = NoCall] /\ pane' = (IF why = "token" THEN Status ELSE pane) /\ UNCHANGED load
    ELSE /\ calls' = [calls EXCEPT ![c] = [at |-> IF held = None THEN "token" ELSE "bind", why |-> why, value |-> None]]
         /\ Loads
         /\ UNCHANGED pane

TokenComes(c) ==
    /\ calls[c].at = "token" /\ load = "none" /\ held # None
    /\ At(c, "bind")
    /\ UNCHANGED <<on, server, tokens, made, shown, faults, overlapped>>

\* startRemoteServer: the port is free, or taken by Noto or another program.
\* A call's server is named after it.
Listens(c) ==
    /\ calls[c].at = "bind" /\ listening = {}
    /\ listening' = {c} /\ remote' = c /\ problem' = FALSE
    /\ At(c, "address")
    /\ UNCHANGED <<on, address, tokens, made, shown, faults, overlapped>>

PortIsTaken(c) ==
    /\ calls[c].at = "bind"
    /\ listening # {} \/ faults < MaxFaults
    /\ faults' = IF listening # {} THEN faults ELSE faults + 1
    /\ remote' = None
    /\ At(c, "failed")
    /\ UNCHANGED <<on, listening, problem, address, tokens, made, shown, overlapped>>

\* Mutant: a call that failed says nothing.
Quietly == UNCHANGED <<flag, asked>>

\* remoteChanged, after which the preferences read the status
Tells == flag' = (remote' # None) /\ asked' = TRUE

\* writeAddress, and the end of a start
WritesAddress(c) ==
    /\ calls[c].at \in {"address", "failed"}
    /\ IF calls[c].at = "address" THEN address' = c /\ UNCHANGED problem
       ELSE address' = None /\ problem' = TRUE
    /\ UNCHANGED <<remote, listening, on, tokens, made, faults, overlapped>>
    /\ Tells
    /\ Ends(c)

(***************************************************************************)
(* applyRemote(false)                                                      *)
(***************************************************************************)
\* Mutant: main forgets the server once it has stopped.
ForgetsLater(c, why) ==
    /\ calls' = [calls EXCEPT ![c] = [at |-> "erase", why |-> why, value |-> None]]
    /\ listening' = listening \ {remote} /\ problem' = FALSE
    /\ UNCHANGED remote

Stops(c, why) ==
    /\ calls' = [calls EXCEPT ![c] = [at |-> "erase", why |-> why, value |-> None]]
    /\ listening' = listening \ {remote} /\ remote' = None /\ problem' = FALSE

RemovesAddress == address' = None

Stopped(c) ==
    /\ calls[c].at = "erase"
    /\ RemovesAddress
    /\ flag' = FALSE /\ asked' = TRUE
    /\ IF calls[c].why = "token" THEN Starts(c, "token")
       ELSE calls' = [calls EXCEPT ![c] = NoCall] /\ UNCHANGED <<pane, load>>
    /\ UNCHANGED <<on, remote, listening, problem, held, file, minted, made, faults, overlapped>>

(***************************************************************************)
(* What is asked for.                                                      *)
(***************************************************************************)
\* onChanged, for a change of this setting or of another; the preferences read
\* the status when this one changes.
Change(value) ==
    /\ made < MaxCalls
    /\ made' = made + 1
    /\ on' = value
    /\ asked' = (asked \/ value # on)
    /\ overlapped' = (overlapped \/ Busy)
    /\ IF value = (remote # None) THEN UNCHANGED <<server, load, calls, pane>>
       ELSE IF value THEN Starts(made', "setting") /\ UNCHANGED server
       ELSE Stops(made', "setting") /\ UNCHANGED <<address, load, pane>>
    /\ UNCHANGED <<held, file, minted, flag, faults>>

\* regenerate: offered while the pane says it listens
Regenerate ==
    /\ made < MaxCalls /\ pane.listening
    /\ made' = made + 1
    /\ overlapped' = (overlapped \/ Busy)
    /\ calls' = [calls EXCEPT ![made'] = [at |-> "mint", why |-> "token", value |-> None]]
    /\ UNCHANGED <<on, server, tokens, shown, faults>>

MintWrites(c) ==
    /\ calls[c].at = "mint"
    /\ minted' = minted + 1 /\ file' = minted'
    /\ calls' = [calls EXCEPT ![c].at = "minted", ![c].value = minted']
    /\ UNCHANGED <<on, server, held, load, made, shown, faults, overlapped>>

MintFails(c) ==
    /\ calls[c].at = "mint" /\ faults < MaxFaults
    /\ faults' = faults + 1
    /\ calls' = [calls EXCEPT ![c] = NoCall]
    /\ UNCHANGED <<on, server, tokens, made, shown, overlapped>>

\* The new token is held, and the server restarted.
MintHolds(c) ==
    /\ calls[c].at = "minted"
    /\ held' = calls[c].value
    /\ IF remote # None THEN Stops(c, "token") /\ UNCHANGED pane
       ELSE Ends(c) /\ UNCHANGED <<remote, listening, problem>>
    /\ UNCHANGED <<on, address, file, minted, load, made, flag, asked, faults, overlapped>>

\* status: with the setting on and no token yet it loads one
Answer ==
    /\ asked
    /\ IF on /\ held = None THEN load = "none" /\ Loads /\ UNCHANGED <<pane, asked>>
       ELSE pane' = Status /\ asked' = FALSE /\ UNCHANGED load
    /\ UNCHANGED <<on, server, held, file, minted, calls, made, flag, faults, overlapped>>

Reader == \/ \E value \in BOOLEAN : Change(value)
          \/ Regenerate

Runs ==
    \/ LoadReads \/ LoadMints \/ Answer
    \/ \E c \in Calls : \/ TokenComes(c) \/ Listens(c) \/ PortIsTaken(c) \/ WritesAddress(c)
                        \/ Stopped(c) \/ MintWrites(c) \/ MintFails(c) \/ MintHolds(c)

Next == Reader \/ Runs

\* Files are read and written, and sockets opened and closed.
Fairness == WF_vars(Runs)
Spec == Init /\ [][Next]_vars /\ Fairness

(***************************************************************************)
(* Properties.                                                             *)
(***************************************************************************)
\* The server main knows listens, however starts, stops and restarts overlap.
RemoteListens == remote # None => remote \in listening

\* The preferences end up showing whether the server main knows listens, and
\* the token it takes, however much was asked for at once.
PaneSettles == <>[](pane = Status)

\* With nothing asked for during a call, and no failure, the server, the file
\* that names it, the window's flag and the token's file follow the setting.
CalmSettles ==
    <>[](\/ overlapped \/ faults > 0
         \/ /\ on = (remote # None) /\ listening = {remote} \ {None} /\ address = remote
            /\ flag = on /\ held \in {None, file})

\* It is off once the setting is (main.ts:658 "off until the setting says
\* otherwise").
OffIsOff == <>[](on \/ listening = {})

\* The window says while it is on (remote-control.ts:12).
WindowSays == <>[](listening # {} => flag)

\* The address is removed with the server (main.ts:728 "is removed the moment
\* it stops listening so a stale one never points somewhere nothing is").
AddressListens == <>[](address # None => address \in listening)
=============================================================================
