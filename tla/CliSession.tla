----------------------------- MODULE CliSession ------------------------------
(***************************************************************************)
(* The session of the command line client (cli/internal/auth): logging in  *)
(* with the device flow, the file with the tokens that every command reads *)
(* and refreshes, and logging out.  Commands are processes of their own    *)
(* that share the file without a lock.                                     *)
(*                                                                         *)
(* Keycloak answers a request at some moment before the HTTP client gives  *)
(* up on it, and its answer arrives at some later moment, also within the  *)
(* timeout; both read one clock.  A command goes on without delay once it  *)
(* is due.                                                                 *)
(***************************************************************************)
EXTENDS Naturals

CONSTANTS
  Cmds,          \* commands that run at the same time
  HttpTimeout,   \* httpTimeout, 30 s
  ExpirySkew,    \* expirySkew, 30 s
  PollInterval,  \* interval of Keycloak's answer, or defaultPollInterval
  SlowDown,      \* slowDownIncrement
  ExpiresIn,     \* how long Keycloak keeps a device code; 0 means no deadline
  AccessLife,    \* how long an access token is good for
  MaxTime,       \* bound: the clock
  MaxCommands,   \* bound: commands in a behaviour
  MaxFaults      \* bound: commands that fail or are killed

\* Both are 30 seconds in the code.
ASSUME SkewCoversTimeout == HttpTimeout <= ExpirySkew

ASSUME CliAssumptions ==
  /\ {HttpTimeout, ExpirySkew, PollInterval, SlowDown, ExpiresIn, AccessLife} \subseteq Nat
  /\ MaxTime \in Nat \ {0} /\ MaxCommands \in Nat /\ MaxFaults \in Nat

VARIABLES
  now,      \* the clock
  proc,     \* the commands
  file,     \* credentials.json
  inode,    \* files there have been at its path
  good,     \* refresh tokens Keycloak accepts
  issued,   \* refresh tokens Keycloak has made
  rotates,  \* whether a refresh token can be used once only
  code,     \* the device code of a login, as Keycloak has it
  lost,     \* an answer of Keycloak with tokens was not saved
  started,  \* commands so far
  faults    \* faults so far

keycloak == <<good, issued, rotates>>
vars == <<now, proc, file, inode, keycloak, code, lost, started, faults>>

-----------------------------------------------------------------------------
\* A token endpoint answer: when the access token ends at Keycloak, and the
\* refresh token, 0 when the answer has none.
NoToken == [exp |-> 0, refresh |-> 0]

\* Credentials: the same, and the expiry the client computed.
NoCreds == [exp |-> 0, refresh |-> 0, expiry |-> 0]

NoFile == [state |-> "absent", creds |-> NoCreds]
NoCode == [state |-> "none", exp |-> 0, approved |-> 0, polled |-> 0, slow |-> 0]

\* since: when the request in flight was sent, or when a sleeping login is due.
Idle == [pc |-> "idle", since |-> 0, answer |-> "none", token |-> NoToken,
         interval |-> 0, deadline |-> 0, creds |-> NoCreds, fd |-> 0, api |-> FALSE]

InFlight == {"starting", "polling", "refreshing"}

At(p, pc) == proc[p].pc = pc
Due(p)    == At(p, "sleeping") /\ proc[p].since <= now
Send(pc)  == [Idle EXCEPT !.pc = pc, !.since = now]
End(p)    == proc' = [proc EXCEPT ![p] = Idle]

\* Keycloak's device code matters to nobody once its login is over.
Forget(p) == code' = [code EXCEPT ![p] = NoCode]

-----------------------------------------------------------------------------
(* Keycloak *)

\* The next refresh token.
Fresh == issued + 1

Grant(p, refresh) ==
  proc' = [proc EXCEPT ![p].answer = "token",
                       ![p].token = [exp |-> now + AccessLife, refresh |-> refresh]]

AnswerStart(p) ==
  /\ At(p, "starting") /\ proc[p].answer = "none"
  /\ proc' = [proc EXCEPT ![p].answer = "code"]
  /\ code' = [code EXCEPT ![p] = [NoCode EXCEPT !.state = "open", !.exp = now + ExpiresIn]]
  /\ UNCHANGED <<now, file, inode, keycloak, lost, started, faults>>

\* Slow down may be asked for once; a code that ended is refused.
AnswerPoll(p) ==
  /\ At(p, "polling") /\ proc[p].answer = "none"
  /\ \/ /\ code[p].state = "open" /\ now < code[p].exp
        /\ proc' = [proc EXCEPT ![p].answer = "authorization_pending"]
        /\ code' = [code EXCEPT ![p].polled = now]
        /\ UNCHANGED keycloak
     \/ /\ code[p].state = "open" /\ now < code[p].exp /\ code[p].slow = 0
        /\ proc' = [proc EXCEPT ![p].answer = "slow_down"]
        /\ code' = [code EXCEPT ![p].polled = now, ![p].slow = 1]
        /\ UNCHANGED keycloak
     \/ /\ code[p].state = "approved" /\ now < code[p].exp
        /\ Grant(p, Fresh)
        /\ issued' = Fresh /\ good' = good \cup {Fresh}
        /\ UNCHANGED <<code, rotates>>
     \/ /\ now >= code[p].exp
        /\ proc' = [proc EXCEPT ![p].answer = "expired_token"]
        /\ UNCHANGED <<code, keycloak>>
     \/ /\ code[p].state = "denied"
        /\ proc' = [proc EXCEPT ![p].answer = "access_denied"]
        /\ UNCHANGED <<code, keycloak>>
  /\ UNCHANGED <<now, file, inode, lost, started, faults>>

\* With rotation the used token is revoked; without, the answer may leave
\* the refresh token out.
AnswerRefresh(p) ==
  LET r == proc[p].creds.refresh IN
  /\ At(p, "refreshing") /\ proc[p].answer = "none"
  /\ \/ /\ r \in good /\ rotates
        /\ Grant(p, Fresh)
        /\ issued' = Fresh /\ good' = (good \ {r}) \cup {Fresh}
     \/ /\ r \in good /\ ~rotates
        /\ \E kept \in {0, r} : Grant(p, kept)
        /\ UNCHANGED <<good, issued>>
     \/ /\ r \notin good
        /\ proc' = [proc EXCEPT ![p].answer = "invalid_grant"]
        /\ UNCHANGED <<good, issued>>
  /\ UNCHANGED <<now, file, inode, rotates, code, lost, started, faults>>

\* The user in the browser.
Decide(p) ==
  /\ code[p].state = "open" /\ now < code[p].exp
  /\ \E s \in {"approved", "denied"} :
       code' = [code EXCEPT ![p].state = s, ![p].approved = now]
  /\ UNCHANGED <<now, proc, file, inode, keycloak, lost, started, faults>>

-----------------------------------------------------------------------------
(* kubespaces login *)

\* Flow.Start.
Login(p) ==
  /\ At(p, "idle") /\ started < MaxCommands
  /\ proc' = [proc EXCEPT ![p] = Send("starting")]
  /\ started' = started + 1
  /\ UNCHANGED <<now, file, inode, keycloak, code, lost, faults>>

\* Flow.Poll up to its loop.
BeginPoll(p) ==
  /\ At(p, "starting") /\ proc[p].answer = "code"
  /\ proc' = [proc EXCEPT ![p] =
       [Idle EXCEPT !.pc = "sleeping", !.since = now, !.interval = PollInterval,
                    !.deadline = now + ExpiresIn]]
  /\ UNCHANGED <<now, file, inode, keycloak, code, lost, started, faults>>

\* A turn of the loop: the deadline, then the request.
Poll(p) ==
  /\ Due(p)
  /\ IF ExpiresIn > 0 /\ now > proc[p].deadline
     THEN End(p) /\ Forget(p)
     ELSE /\ proc' = [proc EXCEPT ![p].pc = "polling", ![p].since = now]
          /\ UNCHANGED code
  /\ UNCHANGED <<now, file, inode, keycloak, lost, started, faults>>

\* Mutant: slow_down is taken for authorization_pending.
NextIntervalIgnoring(p) == proc[p].interval

\* Mutant: the client backs off by itself.
NextIntervalBackoff(p) ==
  IF proc[p].answer = "slow_down" THEN proc[p].interval + SlowDown ELSE 2 * proc[p].interval

NextInterval(p) ==
  IF proc[p].answer = "slow_down" THEN proc[p].interval + SlowDown ELSE proc[p].interval

KeepPolling(p) ==
  /\ At(p, "polling") /\ proc[p].answer \in {"authorization_pending", "slow_down"}
  /\ proc' = [proc EXCEPT ![p].pc = "sleeping", ![p].answer = "none",
                          ![p].interval = NextInterval(p), ![p].since = now + NextInterval(p)]
  /\ UNCHANGED <<now, file, inode, keycloak, code, lost, started, faults>>

LoginRefused(p) ==
  /\ At(p, "polling") /\ proc[p].answer \in {"expired_token", "access_denied"}
  /\ End(p)
  /\ Forget(p)
  /\ UNCHANGED <<now, file, inode, keycloak, lost, started, faults>>

\* Mutant: expires_in is taken for minutes.
CredentialsMinutes(p) ==
  [exp |-> proc[p].token.exp, refresh |-> proc[p].token.refresh, expiry |-> now + 60 * AccessLife]

\* Flow.Credentials: the access token counts from the arrival of the answer.
Credentials(p) ==
  [exp |-> proc[p].token.exp, refresh |-> proc[p].token.refresh, expiry |-> now + AccessLife]

LoggedIn(p) ==
  /\ At(p, "polling") /\ proc[p].answer = "token"
  /\ proc' = [proc EXCEPT ![p] = [Idle EXCEPT !.pc = "save", !.creds = Credentials(p)]]
  /\ Forget(p)
  /\ UNCHANGED <<now, file, inode, keycloak, lost, started, faults>>

-----------------------------------------------------------------------------
(* The file *)

\* os.WriteFile opens the file with O_CREATE and O_TRUNC ...
OpenCredentials(p) ==
  /\ At(p, "save")
  /\ inode' = IF file.state = "absent" THEN inode + 1 ELSE inode
  /\ file'  = [state |-> "empty", creds |-> NoCreds]
  /\ proc'  = [proc EXCEPT ![p].pc = "write", ![p].fd = inode']
  /\ UNCHANGED <<now, keycloak, code, lost, started, faults>>

\* ... and then writes: to a file that logout removed, or over the longer
\* tokens of another command.
SaveCredentials(p) ==
  LET saved == [state |-> "ok", creds |-> proc[p].creds] IN
  /\ At(p, "write")
  /\ IF file.state = "absent" \/ proc[p].fd # inode
     THEN UNCHANGED file
     ELSE \/ file' = saved
          \/ file.state # "empty" /\ file' = [state |-> "garbled", creds |-> NoCreds]
  /\ IF proc[p].api
     THEN proc' = [proc EXCEPT ![p] = [Idle EXCEPT !.pc = "use", !.creds = proc[p].creds]]
     ELSE End(p)
  /\ UNCHANGED <<now, inode, keycloak, code, lost, started, faults>>

\* kubespaces logout: DeleteCredentials.
Logout ==
  /\ started < MaxCommands
  /\ file' = NoFile
  /\ started' = started + 1
  /\ UNCHANGED <<now, proc, inode, keycloak, code, lost, faults>>

-----------------------------------------------------------------------------
(* Commands that call the API *)

\* Mutant: no skew.
FreshEnoughUnskewed(creds) == now < creds.expiry

\* An access token is renewed 30 s before the client thinks that it ends.
FreshEnough(creds) == now + ExpirySkew < creds.expiry

\* TokenSource.Token.  Without a file, with one that does not parse or without
\* a refresh token the command ends.
Token(p) ==
  /\ At(p, "idle") /\ started < MaxCommands
  /\ started' = started + 1
  /\ IF file.state # "ok" THEN UNCHANGED proc
     ELSE IF FreshEnough(file.creds)
     THEN proc' = [proc EXCEPT ![p] = [Idle EXCEPT !.pc = "use", !.creds = file.creds]]
     ELSE IF file.creds.refresh = 0 THEN UNCHANGED proc
     ELSE proc' = [proc EXCEPT ![p] = [Send("refreshing") EXCEPT !.creds = file.creds]]
  /\ UNCHANGED <<now, file, inode, keycloak, code, lost, faults>>

\* Mutant: the answer replaces all of the credentials.
FreshCredentialsBare(p) == Credentials(p)

\* An answer without a refresh token keeps the old one.
FreshCredentials(p) ==
  [Credentials(p) EXCEPT !.refresh = IF @ = 0 THEN proc[p].creds.refresh ELSE @]

Refreshed(p) ==
  /\ At(p, "refreshing") /\ proc[p].answer = "token"
  /\ proc' = [proc EXCEPT ![p] =
       [Idle EXCEPT !.pc = "save", !.api = TRUE, !.creds = FreshCredentials(p)]]
  /\ UNCHANGED <<now, file, inode, keycloak, code, lost, started, faults>>

\* Any refusal is reported as ErrSessionExpired.
RefreshRefused(p) ==
  /\ At(p, "refreshing") /\ proc[p].answer = "invalid_grant"
  /\ End(p)
  /\ UNCHANGED <<now, file, inode, keycloak, code, lost, started, faults>>

\* The command calls the API and ends.
Use(p) ==
  /\ At(p, "use")
  /\ End(p)
  /\ UNCHANGED <<now, file, inode, keycloak, code, lost, started, faults>>

-----------------------------------------------------------------------------
\* A command that holds tokens it has not saved, which replaced those it loaded.
Unsaved(p) ==
  \/ At(p, "refreshing") /\ proc[p].answer = "token"
  \/ (At(p, "save") \/ At(p, "write")) /\ proc[p].api

\* A request fails or times out, which ends the command, or somebody kills it.
Fail(p) ==
  /\ ~At(p, "idle") /\ faults < MaxFaults
  /\ End(p)
  /\ lost' = (lost \/ (rotates /\ Unsaved(p)))
  /\ faults' = faults + 1
  /\ Forget(p)
  /\ UNCHANGED <<now, file, inode, keycloak, started>>

\* Time passes while every command waits.
Tick ==
  /\ now < MaxTime
  /\ \A p \in Cmds :
       /\ ~Due(p) /\ ~At(p, "save") /\ ~At(p, "write") /\ ~At(p, "use")
       /\ proc[p].pc \in InFlight => now < proc[p].since + HttpTimeout
  /\ now' = now + 1
  /\ UNCHANGED <<proc, file, inode, keycloak, code, lost, started, faults>>

Init ==
  /\ now = 1
  /\ proc = [p \in Cmds |-> Idle]
  /\ file = NoFile /\ inode = 0
  /\ good = {} /\ issued = 0 /\ rotates \in BOOLEAN
  /\ code = [p \in Cmds |-> NoCode]
  /\ lost = FALSE /\ started = 0 /\ faults = 0

Next ==
  \/ \E p \in Cmds :
       \/ AnswerStart(p) \/ AnswerPoll(p) \/ AnswerRefresh(p) \/ Decide(p)
       \/ Login(p) \/ BeginPoll(p) \/ Poll(p) \/ KeepPolling(p) \/ LoginRefused(p) \/ LoggedIn(p)
       \/ OpenCredentials(p) \/ SaveCredentials(p)
       \/ Token(p) \/ Refreshed(p) \/ RefreshRefused(p) \/ Use(p)
       \/ Fail(p)
  \/ Logout
  \/ Tick

Spec == Init /\ [][Next]_vars

-----------------------------------------------------------------------------
(* Properties *)

Times == 0..(MaxTime + AccessLife)
Creds == [exp : Times, refresh : 0..issued, expiry : Times]

\* Every variable holds a value of its type.
TypeOK ==
  /\ now \in 1..MaxTime
  /\ \A p \in Cmds :
       /\ proc[p].pc \in InFlight \cup {"idle", "sleeping", "save", "write", "use"}
       /\ proc[p].creds \in Creds
       /\ proc[p].fd \in 0..inode
       /\ code[p].state \in {"none", "open", "approved", "denied"}
  /\ file.state \in {"absent", "empty", "garbled", "ok"}
  /\ file.creds \in Creds
  /\ file.state = "ok" => file.creds.exp > 0
  /\ good \subseteq 1..issued

\* An access token that a command gets from the file or from Keycloak has not
\* ended at Keycloak, although the client counts its life from the arrival of
\* the answer: the skew makes up for the time the answer took
\* (tokensource.go:19-20).
HandedOutIsValid ==
  [][\A p \in Cmds : ~At(p, "use") /\ proc'[p].pc = "use" => now < proc'[p].creds.exp]_vars

\* Commands that refresh at the same time, logins and logouts in between do
\* not cost the session: the file has a refresh token that Keycloak accepts,
\* unless a command holds the next one or lost it.
SessionKept ==
  file.state = "ok" /\ ~lost =>
    file.creds.refresh \in good \/ \E p \in Cmds : Unsaved(p)

\* Keycloak never sees two polls of a login closer than the interval it asked
\* for (RFC 8628), however long the answers travel.
PollsSpaced ==
  [][\A p \in Cmds :
       At(p, "polling") /\ proc[p].answer = "none" /\ proc'[p].answer # "none"
         /\ code[p].polled # 0 =>
           now >= code[p].polled + PollInterval + SlowDown * code[p].slow]_vars

\* A login that gives up because the code expired did so to an approval only
\* if it came within an interval and the travel of two requests of the end.
ApprovedIsPickedUp ==
  [][\A p \in Cmds :
       /\ proc'[p].pc = "idle" /\ faults' = faults
       /\ Due(p) \/ proc[p].answer = "expired_token"
       /\ code[p].state = "approved"
       => code[p].approved + PollInterval + SlowDown * code[p].slow + 2 * HttpTimeout
            >= code[p].exp]_vars
=============================================================================
