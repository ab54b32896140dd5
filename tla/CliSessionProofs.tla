-------------------------- MODULE CliSessionProofs ---------------------------
(***************************************************************************)
(* Proofs about the session of the command line client, for any number of  *)
(* commands that share the file, whatever the clock and Keycloak do.       *)
(***************************************************************************)
EXTENDS CliSession, TLAPS

(* The constants are numbers. *)
LEMMA ConstantFacts ==
  /\ HttpTimeout \in Nat /\ ExpirySkew \in Nat /\ PollInterval \in Nat /\ SlowDown \in Nat
  /\ ExpiresIn \in Nat /\ AccessLife \in Nat
  /\ MaxTime \in Nat /\ 1 <= MaxTime /\ MaxCommands \in Nat /\ MaxFaults \in Nat
BY CliAssumptions

USE ConstantFacts

-----------------------------------------------------------------------------
(* Types *)

\* Where a command may be.
PCs == InFlight \cup {"idle", "sleeping", "save", "write", "use"}

\* What Keycloak may answer.
Answers == {"none", "code", "token", "authorization_pending", "slow_down", "expired_token",
            "access_denied", "invalid_grant"}

\* A token response.
TokenRows == [exp : Nat, refresh : Nat]

\* The credentials in the file or in memory.
CredRows  == [exp : Nat, refresh : Nat, expiry : Nat]

\* A command.
Procs == [pc : PCs, since : Nat, answer : Answers, token : TokenRows, interval : Nat,
          deadline : Nat, creds : CredRows, fd : Nat, api : BOOLEAN]

\* A device code at Keycloak.
Codes == [state : {"none", "open", "approved", "denied"}, exp : Nat, approved : Nat,
          polled : Nat, slow : {0, 1}]

\* The file of credentials.
Files == [state : {"absent", "empty", "garbled", "ok"}, creds : CredRows]

\* The variables have their types; what TypeOK says beyond them needs the rows.
Shapes ==
  /\ now \in 1..MaxTime
  /\ proc \in [Cmds -> Procs]
  /\ code \in [Cmds -> Codes]
  /\ file \in Files /\ inode \in Nat
  /\ issued \in Nat /\ good \subseteq 1..issued
  /\ started \in Nat /\ faults \in Nat

-----------------------------------------------------------------------------
(* What a step makes of the command that takes it *)

\* The command p goes on with these fields, the others stay.
Becomes(p, pc, since, answer, token, interval, deadline, creds, fd, api) ==
  /\ proc' \in [Cmds -> Procs]
  /\ \A q \in Cmds \ {p} : proc'[q] = proc[q]
  /\ proc'[p].pc = pc /\ proc'[p].since = since /\ proc'[p].answer = answer
  /\ proc'[p].token = token /\ proc'[p].interval = interval /\ proc'[p].deadline = deadline
  /\ proc'[p].creds = creds /\ proc'[p].fd = fd /\ proc'[p].api = api

\* The command p begins anew.
Starts(p, pc, since, interval, deadline, creds, api) ==
  Becomes(p, pc, since, "none", NoToken, interval, deadline, creds, 0, api)

\* The command p has ended.
Ends(p) == Starts(p, "idle", 0, 0, 0, NoCreds, FALSE)

\* The request in flight of p is answered.
Answered(p, answer, token) ==
  LET r == proc[p] IN
  Becomes(p, r.pc, r.since, answer, token, r.interval, r.deadline, r.creds, r.fd, r.api)

\* The rows a command and a code begin with.
LEMMA IdleIs ==
  /\ Idle \in Procs /\ NoCreds \in CredRows /\ NoToken \in TokenRows /\ NoCode \in Codes
  /\ NoFile \in Files
BY DEF Idle, Procs, PCs, Answers, NoCreds, CredRows, NoToken, TokenRows, NoCode, Codes, NoFile,
       Files, InFlight

\* What End makes of a command.
LEMMA EndIs ==
  ASSUME Shapes, NEW p \in Cmds, End(p)
  PROVE  Ends(p)
BY IdleIs DEF Shapes, End, Ends, Starts, Becomes, Idle

\* A row that begins anew.
Anew(row, pc, since, interval, deadline, creds, api) ==
  /\ row \in Procs
  /\ row.pc = pc /\ row.since = since /\ row.answer = "none" /\ row.token = NoToken
  /\ row.interval = interval /\ row.deadline = deadline /\ row.creds = creds
  /\ row.fd = 0 /\ row.api = api

\* What a row made anew makes of a command.
LEMMA StartIs ==
  ASSUME Shapes, NEW p \in Cmds, NEW pc, NEW since, NEW interval, NEW deadline, NEW creds, NEW api,
         NEW row, Anew(row, pc, since, interval, deadline, creds, api),
         proc' = [proc EXCEPT ![p] = row]
  PROVE  Starts(p, pc, since, interval, deadline, creds, api)
BY DEF Anew, Shapes, Starts, Becomes

\* What an answer makes of a command.
LEMMA AnsweredIs ==
  ASSUME Shapes, NEW p \in Cmds, NEW answer \in Answers, NEW token \in TokenRows,
         \/ proc' = [proc EXCEPT ![p].answer = answer, ![p].token = token]
         \/ proc' = [proc EXCEPT ![p].answer = answer] /\ token = proc[p].token
  PROVE  Answered(p, answer, token)
<1>1. CASE proc' = [proc EXCEPT ![p].answer = answer, ![p].token = token]
  <2>. DEFINE row == [proc[p] EXCEPT !.answer = answer, !.token = token]
  <2>1. proc' = [proc EXCEPT ![p] = row]
    BY <1>1 DEF Shapes
  <2>2. /\ row \in Procs
        /\ row.pc = proc[p].pc /\ row.since = proc[p].since /\ row.answer = answer
        /\ row.token = token /\ row.interval = proc[p].interval
        /\ row.deadline = proc[p].deadline /\ row.creds = proc[p].creds
        /\ row.fd = proc[p].fd /\ row.api = proc[p].api
    BY DEF Shapes, Procs
  <2>. HIDE DEF row
  <2>. QED BY <2>1, <2>2 DEF Shapes, Answered, Becomes
<1>2. CASE proc' = [proc EXCEPT ![p].answer = answer] /\ token = proc[p].token
  BY <1>2 DEF Shapes, Answered, Becomes, Procs
<1>. QED BY <1>1, <1>2

\* The row of a device code.
CodeBecomes(p, state, exp, approved, polled, slow) ==
  /\ code' \in [Cmds -> Codes]
  /\ \A q \in Cmds \ {p} : code'[q] = code[q]
  /\ code'[p].state = state /\ code'[p].exp = exp /\ code'[p].approved = approved
  /\ code'[p].polled = polled /\ code'[p].slow = slow

\* The device code of p is forgotten.
Forgotten(p) == CodeBecomes(p, "none", 0, 0, 0, 0)

\* What Forget makes of a code.
LEMMA ForgetIs ==
  ASSUME Shapes, NEW p \in Cmds, Forget(p)
  PROVE  Forgotten(p)
BY IdleIs DEF Shapes, Forget, Forgotten, CodeBecomes, NoCode

\* The requests that are waiting for Keycloak.
LEMMA AnswerStartIs ==
  ASSUME Shapes, NEW p \in Cmds, AnswerStart(p)
  PROVE  /\ Answered(p, "code", proc[p].token)
         /\ CodeBecomes(p, "open", now + ExpiresIn, 0, 0, 0)
<1>1. Answered(p, "code", proc[p].token)
  <2>1. proc[p].token \in TokenRows /\ "code" \in Answers
    BY DEF Shapes, Procs, Answers
  <2>. QED BY <2>1, AnsweredIs DEF AnswerStart
<1>2. CodeBecomes(p, "open", now + ExpiresIn, 0, 0, 0)
  <2>. DEFINE row == [NoCode EXCEPT !.state = "open", !.exp = now + ExpiresIn]
  <2>1. now + ExpiresIn \in Nat
    BY DEF Shapes
  <2>2. row \in Codes /\ row.state = "open" /\ row.exp = now + ExpiresIn /\ row.approved = 0
        /\ row.polled = 0 /\ row.slow = 0
    BY <2>1, IdleIs DEF Codes, NoCode
  <2>3. code' = [code EXCEPT ![p] = row]
    BY DEF AnswerStart
  <2>. HIDE DEF row
  <2>. QED BY <2>2, <2>3 DEF Shapes, CodeBecomes
<1>. QED BY <1>1, <1>2

\* What Keycloak answers to a poll.
LEMMA AnswerPollIs ==
  ASSUME Shapes, NEW p \in Cmds, AnswerPoll(p)
  PROVE  LET k == code[p]  t == proc[p].token IN
         \/ /\ k.state = "open" /\ Answered(p, "authorization_pending", t)
            /\ CodeBecomes(p, k.state, k.exp, k.approved, now, k.slow)
            /\ UNCHANGED keycloak
         \/ /\ k.state = "open" /\ k.slow = 0 /\ Answered(p, "slow_down", t)
            /\ CodeBecomes(p, k.state, k.exp, k.approved, now, 1)
            /\ UNCHANGED keycloak
         \/ /\ Answered(p, "token", [exp |-> now + AccessLife, refresh |-> Fresh])
            /\ issued' = Fresh /\ good' = good \cup {Fresh}
            /\ UNCHANGED <<code, rotates>>
         \/ /\ now >= k.exp /\ Answered(p, "expired_token", t)
            /\ UNCHANGED <<code, keycloak>>
         \/ Answered(p, "access_denied", t) /\ UNCHANGED <<code, keycloak>>
<1>. DEFINE k == code[p]
            t == proc[p].token
<1>0. t \in TokenRows /\ k \in Codes
      /\ {"authorization_pending", "slow_down", "token", "expired_token", "access_denied"}
           \subseteq Answers
  BY DEF Shapes, Procs, Answers
<1>1. CASE /\ k.state = "open"
           /\ proc' = [proc EXCEPT ![p].answer = "authorization_pending"]
           /\ code' = [code EXCEPT ![p].polled = now] /\ UNCHANGED keycloak
  <2>1. Answered(p, "authorization_pending", t)
    BY <1>0, <1>1, AnsweredIs
  <2>2. CodeBecomes(p, k.state, k.exp, k.approved, now, k.slow)
    BY <1>0, <1>1 DEF Shapes, CodeBecomes, Codes
  <2>. QED BY <1>1, <2>1, <2>2
<1>2. CASE /\ k.state = "open" /\ k.slow = 0
           /\ proc' = [proc EXCEPT ![p].answer = "slow_down"]
           /\ code' = [code EXCEPT ![p].polled = now, ![p].slow = 1] /\ UNCHANGED keycloak
  <2>1. Answered(p, "slow_down", t)
    BY <1>0, <1>2, AnsweredIs
  <2>. DEFINE row == [k EXCEPT !.polled = now, !.slow = 1]
  <2>2. code' = [code EXCEPT ![p] = row]
    BY <1>2 DEF Shapes
  <2>3. row \in Codes /\ row.state = k.state /\ row.exp = k.exp /\ row.approved = k.approved
        /\ row.polled = now /\ row.slow = 1
    <3>. now \in Nat
      BY DEF Shapes
    <3>. QED BY <1>0 DEF Codes
  <2>. HIDE DEF row
  <2>4. CodeBecomes(p, k.state, k.exp, k.approved, now, 1)
    BY <2>2, <2>3 DEF Shapes, CodeBecomes
  <2>. QED BY <1>2, <2>1, <2>4
<1>3. CASE /\ Grant(p, Fresh) /\ issued' = Fresh /\ good' = good \cup {Fresh}
           /\ UNCHANGED <<code, rotates>>
  <2>1. [exp |-> now + AccessLife, refresh |-> Fresh] \in TokenRows
    BY DEF Shapes, TokenRows, Fresh
  <2>. QED BY <1>0, <1>3, <2>1, AnsweredIs DEF Grant
<1>4. CASE /\ now >= k.exp /\ proc' = [proc EXCEPT ![p].answer = "expired_token"]
           /\ UNCHANGED <<code, keycloak>>
  BY <1>0, <1>4, AnsweredIs
<1>5. CASE proc' = [proc EXCEPT ![p].answer = "access_denied"] /\ UNCHANGED <<code, keycloak>>
  BY <1>0, <1>5, AnsweredIs
<1>. QED BY <1>1, <1>2, <1>3, <1>4, <1>5 DEF AnswerPoll

\* What Keycloak answers to a refresh.
LEMMA AnswerRefreshIs ==
  ASSUME Shapes, NEW p \in Cmds, AnswerRefresh(p)
  PROVE  LET r == proc[p].creds.refresh IN
         \/ /\ r \in good /\ rotates
            /\ Answered(p, "token", [exp |-> now + AccessLife, refresh |-> Fresh])
            /\ issued' = Fresh /\ good' = (good \ {r}) \cup {Fresh}
         \/ /\ r \in good /\ ~rotates /\ UNCHANGED <<good, issued>>
            /\ \E kept \in {0, r} :
                 Answered(p, "token", [exp |-> now + AccessLife, refresh |-> kept])
         \/ Answered(p, "invalid_grant", proc[p].token) /\ UNCHANGED <<good, issued>>
<1>. DEFINE r == proc[p].creds.refresh
<1>0. r \in Nat /\ proc[p].token \in TokenRows /\ "token" \in Answers /\ "invalid_grant" \in Answers
  BY DEF Shapes, Procs, CredRows, Answers
<1>1. ASSUME NEW x \in Nat, Grant(p, x)
      PROVE  Answered(p, "token", [exp |-> now + AccessLife, refresh |-> x])
  <2>1. [exp |-> now + AccessLife, refresh |-> x] \in TokenRows
    BY DEF Shapes, TokenRows
  <2>. QED BY <1>0, <1>1, <2>1, AnsweredIs DEF Grant
<1>2. Fresh \in Nat
  BY DEF Shapes, Fresh
<1>3. CASE /\ r \in good /\ rotates /\ Grant(p, Fresh)
           /\ issued' = Fresh /\ good' = (good \ {r}) \cup {Fresh}
  BY <1>1, <1>2, <1>3
<1>4. CASE r \in good /\ ~rotates /\ (\E kept \in {0, r} : Grant(p, kept))
           /\ UNCHANGED <<good, issued>>
  BY <1>0, <1>1, <1>4
<1>5. CASE /\ proc' = [proc EXCEPT ![p].answer = "invalid_grant"]
           /\ UNCHANGED <<good, issued>>
  BY <1>0, <1>5, AnsweredIs
<1>. QED BY <1>3, <1>4, <1>5 DEF AnswerRefresh

\* What the user decides about a code.
LEMMA DecideIs ==
  ASSUME Shapes, NEW p \in Cmds, Decide(p)
  PROVE  LET k == code[p] IN
         /\ k.state = "open"
         /\ \E s \in {"approved", "denied"} : CodeBecomes(p, s, k.exp, now, k.polled, k.slow)
<1>. DEFINE k == code[p]
<1>1. PICK s \in {"approved", "denied"} :
        code' = [code EXCEPT ![p].state = s, ![p].approved = now]
  BY DEF Decide
<1>. DEFINE row == [k EXCEPT !.state = s, !.approved = now]
<1>2. code' = [code EXCEPT ![p] = row]
  BY <1>1 DEF Shapes
<1>3. row \in Codes /\ row.state = s /\ row.exp = k.exp /\ row.approved = now
      /\ row.polled = k.polled /\ row.slow = k.slow
  <2>. now \in Nat /\ k \in Codes
    BY DEF Shapes
  <2>. QED BY DEF Codes
<1>. HIDE DEF row
<1>4. CodeBecomes(p, s, k.exp, now, k.polled, k.slow)
  BY <1>2, <1>3 DEF Shapes, CodeBecomes
<1>. QED BY <1>4 DEF Decide

-----------------------------------------------------------------------------
(* The steps of a command *)

\* A login and what it does with the answers.
LEMMA LoginIs ==
  ASSUME Shapes, NEW p \in Cmds, Login(p)
  PROVE  Starts(p, "starting", now, 0, 0, NoCreds, FALSE)
<1>1. now \in Nat /\ "starting" \in PCs /\ NoCreds \in CredRows
  BY IdleIs DEF Shapes, PCs, InFlight
<1>. DEFINE row == [Idle EXCEPT !.pc = "starting", !.since = now]
<1>2. Anew(row, "starting", now, 0, 0, NoCreds, FALSE)
  BY <1>1, IdleIs DEF Idle, Procs, Anew
<1>3. proc' = [proc EXCEPT ![p] = row]
  BY DEF Login, Send
<1>. HIDE DEF row
<1>. QED BY <1>1, <1>2, <1>3, StartIs

\* PollForToken begins with a sleep.
LEMMA BeginPollIs ==
  ASSUME Shapes, NEW p \in Cmds, BeginPoll(p)
  PROVE  Starts(p, "sleeping", now, PollInterval, now + ExpiresIn, NoCreds, FALSE)
<1>1. now \in Nat /\ now + ExpiresIn \in Nat /\ "sleeping" \in PCs /\ NoCreds \in CredRows
  BY IdleIs DEF Shapes, PCs, InFlight
<1>. DEFINE row == [Idle EXCEPT !.pc = "sleeping", !.since = now, !.interval = PollInterval,
                                !.deadline = now + ExpiresIn]
<1>2. Anew(row, "sleeping", now, PollInterval, now + ExpiresIn, NoCreds, FALSE)
  BY <1>1, IdleIs DEF Idle, Procs, Anew
<1>3. proc' = [proc EXCEPT ![p] = row]
  BY DEF BeginPoll
<1>. HIDE DEF row
<1>. QED BY <1>1, <1>2, <1>3, StartIs

\* A poll is sent, or the login has run out of time.
LEMMA PollIs ==
  ASSUME Shapes, NEW p \in Cmds, Poll(p)
  PROVE  LET r == proc[p] IN
         /\ r.pc = "sleeping" /\ r.since <= now
         /\ \/ ExpiresIn > 0 /\ now > r.deadline /\ Ends(p) /\ Forgotten(p)
            \/ /\ ~(ExpiresIn > 0 /\ now > r.deadline)
               /\ Becomes(p, "polling", now, r.answer, r.token, r.interval, r.deadline, r.creds,
                          r.fd, r.api)
               /\ UNCHANGED code
<1>1. CASE ExpiresIn > 0 /\ now > proc[p].deadline
  <2>1. End(p) /\ Forget(p)
    BY <1>1 DEF Poll
  <2>. QED BY <1>1, <2>1, EndIs, ForgetIs DEF Poll, Due, At
<1>2. CASE ~(ExpiresIn > 0 /\ now > proc[p].deadline)
  <2>. DEFINE row == [proc[p] EXCEPT !.pc = "polling", !.since = now]
  <2>1. proc' = [proc EXCEPT ![p] = row]
    BY <1>2 DEF Poll, Shapes
  <2>2. /\ row \in Procs
        /\ row.pc = "polling" /\ row.since = now /\ row.answer = proc[p].answer
        /\ row.token = proc[p].token /\ row.interval = proc[p].interval
        /\ row.deadline = proc[p].deadline /\ row.creds = proc[p].creds
        /\ row.fd = proc[p].fd /\ row.api = proc[p].api
    <3>. now \in Nat /\ proc[p] \in Procs /\ "polling" \in PCs
      BY DEF Shapes, PCs, InFlight
    <3>. QED BY DEF Procs
  <2>. HIDE DEF row
  <2>3. Becomes(p, "polling", now, proc[p].answer, proc[p].token, proc[p].interval,
                proc[p].deadline, proc[p].creds, proc[p].fd, proc[p].api)
    BY <2>1, <2>2 DEF Shapes, Becomes
  <2>. QED BY <1>2, <2>3 DEF Poll, Due, At
<1>. QED BY <1>1, <1>2

\* A pending or slow_down answer makes the command sleep again.
LEMMA KeepPollingIs ==
  ASSUME Shapes, NEW p \in Cmds, KeepPolling(p)
  PROVE  LET r == proc[p] IN
         /\ r.pc = "polling" /\ r.answer \in {"authorization_pending", "slow_down"}
         /\ NextInterval(p) \in Nat
         /\ Becomes(p, "sleeping", now + NextInterval(p), "none", r.token, NextInterval(p),
                    r.deadline, r.creds, r.fd, r.api)
<1>0. NextInterval(p) \in Nat
  BY DEF Shapes, Procs, NextInterval
<1>1. PICK n \in Nat : n = NextInterval(p)
  BY <1>0
<1>2. PICK since \in Nat : since = now + n
  BY DEF Shapes
<1>. DEFINE row == [proc[p] EXCEPT !.pc = "sleeping", !.answer = "none",
                                   !.interval = n, !.since = since]
<1>3. proc' = [proc EXCEPT ![p] = row]
  BY <1>1, <1>2 DEF KeepPolling, Shapes
<1>4. /\ row \in Procs
      /\ row.pc = "sleeping" /\ row.since = since /\ row.answer = "none"
      /\ row.token = proc[p].token /\ row.interval = n
      /\ row.deadline = proc[p].deadline /\ row.creds = proc[p].creds
      /\ row.fd = proc[p].fd /\ row.api = proc[p].api
  <2>. proc[p] \in Procs /\ "sleeping" \in PCs /\ "none" \in Answers
    BY DEF Shapes, PCs, InFlight, Answers
  <2>. QED BY DEF Procs
<1>. HIDE DEF row
<1>5. Becomes(p, "sleeping", since, "none", proc[p].token, n,
              proc[p].deadline, proc[p].creds, proc[p].fd, proc[p].api)
  BY <1>3, <1>4 DEF Shapes, Becomes
<1>. QED BY <1>0, <1>1, <1>2, <1>5 DEF KeepPolling, At

\* A token ends the login and is saved.
LEMMA LoggedInIs ==
  ASSUME Shapes, NEW p \in Cmds, LoggedIn(p)
  PROVE  /\ Credentials(p) \in CredRows
         /\ Starts(p, "save", 0, 0, 0, Credentials(p), FALSE) /\ Forgotten(p)
<1>1. Credentials(p) \in CredRows
  BY DEF Shapes, Procs, TokenRows, CredRows, Credentials
<1>. DEFINE row == [Idle EXCEPT !.pc = "save", !.creds = Credentials(p)]
<1>2. Anew(row, "save", 0, 0, 0, Credentials(p), FALSE)
  BY <1>1, IdleIs DEF Idle, Procs, PCs, Anew
<1>3. proc' = [proc EXCEPT ![p] = row]
  BY DEF LoggedIn
<1>. HIDE DEF row
<1>4. "save" \in PCs
  BY DEF PCs
<1>5. Starts(p, "save", 0, 0, 0, Credentials(p), FALSE)
  BY <1>1, <1>2, <1>3, <1>4, StartIs
<1>. QED BY <1>1, <1>5, ForgetIs DEF LoggedIn

\* The file.
LEMMA OpenCredentialsIs ==
  ASSUME Shapes, NEW p \in Cmds, OpenCredentials(p)
  PROVE  LET r == proc[p] IN
         /\ inode' \in Nat /\ inode' >= inode
         /\ Becomes(p, "write", r.since, r.answer, r.token, r.interval, r.deadline, r.creds,
                    inode', r.api)
<1>0. inode' \in Nat /\ inode' >= inode
  BY DEF Shapes, OpenCredentials
<1>. DEFINE row == [proc[p] EXCEPT !.pc = "write", !.fd = inode']
<1>1. proc' = [proc EXCEPT ![p] = row]
  BY DEF OpenCredentials, Shapes
<1>2. /\ row \in Procs
      /\ row.pc = "write" /\ row.since = proc[p].since /\ row.answer = proc[p].answer
      /\ row.token = proc[p].token /\ row.interval = proc[p].interval
      /\ row.deadline = proc[p].deadline /\ row.creds = proc[p].creds
      /\ row.fd = inode' /\ row.api = proc[p].api
  <2>. proc[p] \in Procs /\ "write" \in PCs
    BY DEF Shapes, PCs
  <2>. QED BY <1>0 DEF Procs
<1>. HIDE DEF row
<1>3. Becomes(p, "write", proc[p].since, proc[p].answer, proc[p].token, proc[p].interval,
              proc[p].deadline, proc[p].creds, inode', proc[p].api)
  BY <1>1, <1>2 DEF Shapes, Becomes
<1>. QED BY <1>0, <1>3

\* After saving, a command goes on to the API or ends.
LEMMA SaveCredentialsIs ==
  ASSUME Shapes, NEW p \in Cmds, SaveCredentials(p)
  PROVE  \/ proc[p].api /\ Starts(p, "use", 0, 0, 0, proc[p].creds, FALSE)
         \/ ~proc[p].api /\ Ends(p)
<1>1. CASE proc[p].api
  <2>. DEFINE row == [Idle EXCEPT !.pc = "use", !.creds = proc[p].creds]
  <2>0. proc[p].creds \in CredRows /\ "use" \in PCs
    BY DEF Shapes, Procs, PCs
  <2>1. Anew(row, "use", 0, 0, 0, proc[p].creds, FALSE)
    BY <2>0, IdleIs DEF Idle, Procs, Anew
  <2>2. proc' = [proc EXCEPT ![p] = row]
    BY <1>1 DEF SaveCredentials
  <2>. HIDE DEF row
  <2>. QED BY <1>1, <2>1, <2>2, StartIs
<1>2. CASE ~proc[p].api
  <2>1. End(p)
    BY <1>2 DEF SaveCredentials
  <2>. QED BY <1>2, <2>1, EndIs
<1>. QED BY <1>1, <1>2

\* Commands that call the API.
LEMMA TokenIs ==
  ASSUME Shapes, NEW p \in Cmds, Token(p)
  PROVE  \/ UNCHANGED proc
         \/ /\ file.state = "ok" /\ now + ExpirySkew < file.creds.expiry
            /\ Starts(p, "use", 0, 0, 0, file.creds, FALSE)
         \/ file.state = "ok" /\ Starts(p, "refreshing", now, 0, 0, file.creds, FALSE)
<1>0. file.creds \in CredRows /\ now \in Nat /\ "use" \in PCs /\ "refreshing" \in PCs
  BY DEF Shapes, Files, PCs, InFlight
<1>1. CASE file.state = "ok" /\ FreshEnough(file.creds)
           /\ proc' = [proc EXCEPT ![p] = [Idle EXCEPT !.pc = "use", !.creds = file.creds]]
  <2>. DEFINE row == [Idle EXCEPT !.pc = "use", !.creds = file.creds]
  <2>1. Anew(row, "use", 0, 0, 0, file.creds, FALSE)
    BY <1>0, IdleIs DEF Idle, Procs, Anew
  <2>2. proc' = [proc EXCEPT ![p] = row]
    BY <1>1
  <2>. HIDE DEF row
  <2>3. Starts(p, "use", 0, 0, 0, file.creds, FALSE)
    BY <1>0, <2>1, <2>2, StartIs
  <2>. QED BY <1>1, <2>3 DEF FreshEnough
<1>2. CASE file.state = "ok"
           /\ proc' = [proc EXCEPT ![p] = [Send("refreshing") EXCEPT !.creds = file.creds]]
  <2>. DEFINE row == [Send("refreshing") EXCEPT !.creds = file.creds]
  <2>1. Anew(row, "refreshing", now, 0, 0, file.creds, FALSE)
    BY <1>0, IdleIs DEF Idle, Send, Procs, Anew
  <2>2. proc' = [proc EXCEPT ![p] = row]
    BY <1>2
  <2>. HIDE DEF row
  <2>3. Starts(p, "refreshing", now, 0, 0, file.creds, FALSE)
    BY <1>0, <2>1, <2>2, StartIs
  <2>. QED BY <1>2, <2>3
<1>. QED BY <1>1, <1>2 DEF Token

\* A refresh that was answered with a token is saved.
LEMMA RefreshedIs ==
  ASSUME Shapes, NEW p \in Cmds, Refreshed(p)
  PROVE  /\ FreshCredentials(p) \in CredRows
         /\ FreshCredentials(p).exp = proc[p].token.exp
         /\ FreshCredentials(p).expiry = now + AccessLife
         /\ proc[p].token.refresh # 0 => FreshCredentials(p).refresh = proc[p].token.refresh
         /\ proc[p].token.refresh = 0 => FreshCredentials(p).refresh = proc[p].creds.refresh
         /\ Starts(p, "save", 0, 0, 0, FreshCredentials(p), TRUE)
<1>1. /\ Credentials(p) \in CredRows /\ Credentials(p).exp = proc[p].token.exp
      /\ Credentials(p).expiry = now + AccessLife
      /\ Credentials(p).refresh = proc[p].token.refresh
      /\ proc[p].creds.refresh \in Nat
  BY DEF Shapes, Procs, TokenRows, CredRows, Credentials
<1>2. /\ FreshCredentials(p) \in CredRows
      /\ FreshCredentials(p).exp = proc[p].token.exp
      /\ FreshCredentials(p).expiry = now + AccessLife
      /\ proc[p].token.refresh # 0 => FreshCredentials(p).refresh = proc[p].token.refresh
      /\ proc[p].token.refresh = 0 => FreshCredentials(p).refresh = proc[p].creds.refresh
  BY <1>1 DEF CredRows, FreshCredentials
<1>. DEFINE row == [Idle EXCEPT !.pc = "save", !.api = TRUE, !.creds = FreshCredentials(p)]
<1>3. Anew(row, "save", 0, 0, 0, FreshCredentials(p), TRUE)
  BY <1>2, IdleIs DEF Idle, Procs, PCs, Anew
<1>4. proc' = [proc EXCEPT ![p] = row]
  BY DEF Refreshed
<1>. HIDE DEF row
<1>5. "save" \in PCs
  BY DEF PCs
<1>6. Starts(p, "save", 0, 0, 0, FreshCredentials(p), TRUE)
  BY <1>2, <1>3, <1>4, <1>5, StartIs
<1>. QED BY <1>2, <1>6

-----------------------------------------------------------------------------
(* What the rows hold *)

\* A token that ended at exp is not believed to live for longer than one
\* request may take.
GoodCreds(c, refreshes) ==
  /\ c.exp <= MaxTime + AccessLife /\ c.expiry <= MaxTime + AccessLife
  /\ c.refresh <= refreshes
  /\ c.expiry <= c.exp + HttpTimeout

\* A request in flight was sent within the timeout, and a token that answers
\* it lives from the sending at least.
RowInv(p) ==
  LET r == proc[p] IN
  /\ GoodCreds(r.creds, issued)
  /\ r.fd <= inode
  /\ r.token.exp <= MaxTime + AccessLife /\ r.token.refresh <= issued
  /\ r.answer = "token" =>
       r.pc \in {"polling", "refreshing"} /\ 0 < r.token.exp /\ r.since + AccessLife <= r.token.exp
  /\ r.pc \in InFlight => r.since <= now /\ now <= r.since + HttpTimeout
  /\ r.pc \in {"save", "write"} =>
       0 < r.creds.exp /\ (r.api /\ HttpTimeout < AccessLife => now < r.creds.exp)

\* The credentials in the file are some that Keycloak has issued.
FileInv == GoodCreds(file.creds, issued) /\ (file.state = "ok" => 0 < file.creds.exp)

\* The type invariant in its inductive form.
TypeInv == Shapes /\ (\A p \in Cmds : RowInv(p)) /\ FileInv

\* Every step keeps the types.
LEMMA ShapesStep ==
  ASSUME Shapes, [Next]_vars
  PROVE  Shapes'
<1>. USE DEF keycloak
<1>1. CASE UNCHANGED vars
  BY <1>1 DEF vars, Shapes
<1>2. CASE Logout
  BY <1>2, IdleIs DEF Logout, Shapes
<1>3. CASE Tick
  BY <1>3 DEF Tick, Shapes
<1>4. ASSUME NEW p \in Cmds, AnswerStart(p) PROVE Shapes'
  <2>1. proc' \in [Cmds -> Procs] /\ code' \in [Cmds -> Codes]
    BY <1>4, AnswerStartIs DEF Answered, Becomes, CodeBecomes
  <2>. QED BY <1>4, <2>1 DEF Shapes, AnswerStart
<1>5. ASSUME NEW p \in Cmds, AnswerPoll(p) PROVE Shapes'
  <2>1. proc' \in [Cmds -> Procs] /\ code' \in [Cmds -> Codes]
    BY <1>5, AnswerPollIs DEF Answered, Becomes, CodeBecomes, Shapes
  <2>2. issued' \in Nat /\ good' \subseteq 1..issued'
    BY <1>5 DEF AnswerPoll, Shapes, Fresh
  <2>. QED BY <1>5, <2>1, <2>2 DEF Shapes, AnswerPoll
<1>6. ASSUME NEW p \in Cmds, AnswerRefresh(p) PROVE Shapes'
  <2>1. proc' \in [Cmds -> Procs]
    BY <1>6, AnswerRefreshIs DEF Answered, Becomes
  <2>2. issued' \in Nat /\ good' \subseteq 1..issued'
    BY <1>6 DEF AnswerRefresh, Shapes, Fresh
  <2>. QED BY <1>6, <2>1, <2>2 DEF Shapes, AnswerRefresh
<1>7. ASSUME NEW p \in Cmds, Decide(p) PROVE Shapes'
  <2>1. PICK s \in {"approved", "denied"} :
          CodeBecomes(p, s, code[p].exp, now, code[p].polled, code[p].slow)
    BY <1>7, DecideIs
  <2>2. code' \in [Cmds -> Codes]
    BY <2>1 DEF CodeBecomes
  <2>3. UNCHANGED <<now, proc, file, inode, keycloak, lost, started, faults>>
    BY <1>7 DEF Decide
  <2>. QED BY <2>2, <2>3 DEF Shapes
<1>8. ASSUME NEW p \in Cmds, Login(p) PROVE Shapes'
  <2>1. proc' \in [Cmds -> Procs]
    BY <1>8, LoginIs DEF Starts, Becomes
  <2>. QED BY <1>8, <2>1 DEF Shapes, Login
<1>9. ASSUME NEW p \in Cmds, BeginPoll(p) PROVE Shapes'
  <2>1. proc' \in [Cmds -> Procs]
    BY <1>9, BeginPollIs DEF Starts, Becomes
  <2>. QED BY <1>9, <2>1 DEF Shapes, BeginPoll
<1>10. ASSUME NEW p \in Cmds, Poll(p) PROVE Shapes'
  <2>1. proc' \in [Cmds -> Procs] /\ code' \in [Cmds -> Codes]
    BY <1>10, PollIs DEF Ends, Starts, Becomes, Forgotten, CodeBecomes, Shapes
  <2>. QED BY <1>10, <2>1 DEF Shapes, Poll
<1>11. ASSUME NEW p \in Cmds, KeepPolling(p) PROVE Shapes'
  BY <1>11, KeepPollingIs DEF Becomes, Shapes, KeepPolling
<1>12. ASSUME NEW p \in Cmds, LoginRefused(p) PROVE Shapes'
  BY <1>12, EndIs, ForgetIs DEF Ends, Starts, Becomes, Forgotten, CodeBecomes, Shapes, LoginRefused
<1>13. ASSUME NEW p \in Cmds, LoggedIn(p) PROVE Shapes'
  BY <1>13, LoggedInIs DEF Starts, Becomes, Forgotten, CodeBecomes, Shapes, LoggedIn
<1>14. ASSUME NEW p \in Cmds, OpenCredentials(p) PROVE Shapes'
  <2>1. proc' \in [Cmds -> Procs] /\ inode' \in Nat
    BY <1>14, OpenCredentialsIs DEF Becomes
  <2>2. file' \in Files
    BY <1>14, IdleIs DEF OpenCredentials, Files
  <2>. QED BY <1>14, <2>1, <2>2 DEF Shapes, OpenCredentials
<1>15. ASSUME NEW p \in Cmds, SaveCredentials(p) PROVE Shapes'
  <2>1. proc' \in [Cmds -> Procs]
    BY <1>15, SaveCredentialsIs DEF Ends, Starts, Becomes
  <2>2. proc[p].creds \in CredRows
    BY DEF Shapes, Procs
  <2>3. file' \in Files
    BY <1>15, <2>2, IdleIs DEF SaveCredentials, Shapes, Files
  <2>. QED BY <1>15, <2>1, <2>3 DEF Shapes, SaveCredentials
<1>16. ASSUME NEW p \in Cmds, Token(p) PROVE Shapes'
  <2>1. proc' \in [Cmds -> Procs]
    BY <1>16, TokenIs DEF Starts, Becomes, Shapes
  <2>. QED BY <1>16, <2>1 DEF Shapes, Token
<1>17. ASSUME NEW p \in Cmds, Refreshed(p) PROVE Shapes'
  <2>1. proc' \in [Cmds -> Procs]
    BY <1>17, RefreshedIs DEF Starts, Becomes
  <2>. QED BY <1>17, <2>1 DEF Shapes, Refreshed
<1>18. ASSUME NEW p \in Cmds, RefreshRefused(p) PROVE Shapes'
  BY <1>18, EndIs DEF Ends, Starts, Becomes, Shapes, RefreshRefused
<1>19. ASSUME NEW p \in Cmds, Use(p) PROVE Shapes'
  BY <1>19, EndIs DEF Ends, Starts, Becomes, Shapes, Use
<1>20. ASSUME NEW p \in Cmds, Fail(p) PROVE Shapes'
  <2>1. proc' \in [Cmds -> Procs] /\ code' \in [Cmds -> Codes]
    BY <1>20, EndIs, ForgetIs DEF Ends, Starts, Becomes, Forgotten, CodeBecomes, Fail
  <2>. QED BY <1>20, <2>1 DEF Shapes, Fail
<1>. QED BY <1>1, <1>2, <1>3, <1>4, <1>5, <1>6, <1>7, <1>8, <1>9, <1>10, <1>11, <1>12, <1>13,
            <1>14, <1>15, <1>16, <1>17, <1>18, <1>19, <1>20 DEF Next

\* Tokens are only added, and files.
LEMMA CountersGrow ==
  ASSUME Shapes, [Next]_vars
  PROVE  issued' >= issued /\ inode' >= inode /\ issued \in Nat /\ inode \in Nat
<1>1. issued \in Nat /\ inode \in Nat
  BY DEF Shapes
<1>2. issued' = issued \/ issued' = issued + 1
  BY DEF Next, vars, keycloak, AnswerStart, AnswerPoll, AnswerRefresh, Decide, Login, BeginPoll,
         Poll, KeepPolling, LoginRefused, LoggedIn, OpenCredentials, SaveCredentials, Token,
         Refreshed, RefreshRefused, Use, Fail, Logout, Tick, Fresh
<1>3. inode' = inode \/ inode' = inode + 1
  BY DEF Next, vars, keycloak, AnswerStart, AnswerPoll, AnswerRefresh, Decide, Login, BeginPoll,
         Poll, KeepPolling, LoginRefused, LoggedIn, OpenCredentials, SaveCredentials, Token,
         Refreshed, RefreshRefused, Use, Fail, Logout, Tick, Fresh
<1>. QED BY <1>1, <1>2, <1>3

\* A command that takes no part in a step, which is not a tick, keeps its row.
LEMMA RowKept ==
  ASSUME Shapes, NEW q \in Cmds, RowInv(q), proc'[q] = proc[q], now' = now,
         issued' >= issued, inode' >= inode, issued' \in Nat, inode' \in Nat
  PROVE  RowInv(q)'
<1>1. /\ proc[q].creds.refresh \in Nat /\ proc[q].token.refresh \in Nat
      /\ proc[q].fd \in Nat /\ issued \in Nat /\ inode \in Nat
  BY DEF Shapes, Procs, CredRows, TokenRows
<1>. QED BY <1>1 DEF RowInv, GoodCreds

\* A step that leaves the file alone keeps its invariant.
LEMMA FileKept ==
  ASSUME Shapes, FileInv, file' = file, issued' >= issued, issued' \in Nat
  PROVE  FileInv'
<1>1. file.creds.refresh \in Nat /\ issued \in Nat
  BY DEF Shapes, Files, CredRows
<1>. QED BY <1>1 DEF FileInv, GoodCreds

\* A step of the command p, or of Keycloak and the user for it.
StepOf(p) ==
  \/ AnswerStart(p) \/ AnswerPoll(p) \/ AnswerRefresh(p) \/ Decide(p)
  \/ Login(p) \/ BeginPoll(p) \/ Poll(p) \/ KeepPolling(p) \/ LoginRefused(p) \/ LoggedIn(p)
  \/ OpenCredentials(p) \/ SaveCredentials(p)
  \/ Token(p) \/ Refreshed(p) \/ RefreshRefused(p) \/ Use(p)
  \/ Fail(p)

\* No step but a tick moves the clock, and one command moves in it.
LEMMA OneMoves ==
  ASSUME Shapes, NEW p \in Cmds, StepOf(p)
  PROVE  now' = now /\ \A q \in Cmds \ {p} : proc'[q] = proc[q] /\ code'[q] = code[q]
<1>1. now' = now
  BY DEF StepOf, AnswerStart, AnswerPoll, AnswerRefresh, Decide, Login, BeginPoll,
         Poll, KeepPolling, LoginRefused, LoggedIn, OpenCredentials, SaveCredentials, Token,
         Refreshed, RefreshRefused, Use, Fail
<1>2. ASSUME NEW q \in Cmds \ {p} PROVE proc'[q] = proc[q]
  BY DEF StepOf, AnswerStart, AnswerPoll, AnswerRefresh, Decide, Login, BeginPoll,
         Poll, KeepPolling, LoginRefused, LoggedIn, OpenCredentials, SaveCredentials, Token,
         Refreshed, RefreshRefused, Use, Fail, End, Grant, Shapes
<1>3. ASSUME NEW q \in Cmds \ {p} PROVE code'[q] = code[q]
  BY DEF StepOf, AnswerStart, AnswerPoll, AnswerRefresh, Decide, Login, BeginPoll,
         Poll, KeepPolling, LoginRefused, LoggedIn, OpenCredentials, SaveCredentials, Token,
         Refreshed, RefreshRefused, Use, Fail, Forget, Shapes
<1>. QED BY <1>1, <1>2, <1>3

\* A step is one of a command, a logout or a tick.
LEMMA NextIs ==
  ASSUME [Next]_vars
  PROVE  UNCHANGED vars \/ Logout \/ Tick \/ \E p \in Cmds : StepOf(p)
BY DEF Next, StepOf

\* What it takes that a row is as it should be after a step.
LEMMA RowAfter ==
  ASSUME NEW p \in Cmds, NEW pc, NEW since, NEW answer, NEW token, NEW interval,
         NEW deadline, NEW creds, NEW fd, NEW api,
         Becomes(p, pc, since, answer, token, interval, deadline, creds, fd, api),
         GoodCreds(creds, issued'),
         fd <= inode',
         token.exp <= MaxTime + AccessLife, token.refresh <= issued',
         answer = "token" =>
           pc \in {"polling", "refreshing"} /\ 0 < token.exp /\ since + AccessLife <= token.exp,
         pc \in InFlight => since <= now' /\ now' <= since + HttpTimeout,
         pc \in {"save", "write"} =>
           0 < creds.exp /\ (api /\ HttpTimeout < AccessLife => now' < creds.exp)
  PROVE  RowInv(p)'
BY DEF RowInv, Becomes, GoodCreds

\* A step of p keeps the invariant of its row.
LEMMA RowStep ==
  ASSUME TypeInv, NEW p \in Cmds, StepOf(p), Shapes',
         issued' >= issued, inode' >= inode
  PROVE  RowInv(p)'
<1>. DEFINE r == proc[p]
<1>1. /\ r \in Procs /\ RowInv(p) /\ now \in 1..MaxTime /\ now' = now
      /\ issued \in Nat /\ inode \in Nat /\ issued' \in Nat /\ inode' \in Nat
      /\ code[p] \in Codes
  BY OneMoves DEF TypeInv, Shapes
<1>2. GoodCreds(NoCreds, issued') /\ NoToken.exp = 0 /\ NoToken.refresh = 0
  BY <1>1 DEF GoodCreds, NoCreds, NoToken
<1>3. GoodCreds(r.creds, issued')
  BY <1>1 DEF RowInv, GoodCreds, Procs, CredRows
<1>4. /\ r.token.exp \in Nat /\ r.token.refresh \in Nat /\ r.since \in Nat /\ r.fd \in Nat
      /\ r.creds.exp \in Nat /\ r.creds.expiry \in Nat /\ r.creds.refresh \in Nat
  BY <1>1 DEF Procs, CredRows, TokenRows
<1>5. r.fd <= inode' /\ r.token.exp <= MaxTime + AccessLife /\ r.token.refresh <= issued'
  BY <1>1, <1>4 DEF RowInv
<1>6. ASSUME Ends(p) PROVE RowInv(p)'
  BY <1>1, <1>2, <1>6 DEF RowInv, Ends, Starts, Becomes, InFlight
<1>7. ASSUME NEW a \in Answers, a # "token", Answered(p, a, r.token) PROVE RowInv(p)'
  BY <1>1, <1>3, <1>5, <1>7 DEF RowInv, Answered, Becomes, InFlight
<1>8. ASSUME NEW x \in Nat, x <= issued', r.pc \in {"polling", "refreshing"},
             Answered(p, "token", [exp |-> now + AccessLife, refresh |-> x])
      PROVE  RowInv(p)'
  <2>. DEFINE t == [exp |-> now + AccessLife, refresh |-> x]
  <2>1. t.exp = now + AccessLife /\ t.refresh = x /\ now \in Nat /\ 1 <= now /\ now <= MaxTime
    BY <1>1
  <2>2. r.since <= now /\ now <= r.since + HttpTimeout
    BY <1>1, <1>8 DEF RowInv, InFlight
  <2>3. Answered(p, "token", t)
    BY <1>8
  <2>. HIDE DEF t
  <2>. QED BY <1>1, <1>3, <1>4, <1>5, <1>8, <2>1, <2>2, <2>3 DEF RowInv, Answered, Becomes, InFlight
<1>9. CASE AnswerStart(p)
  BY <1>7, <1>9, AnswerStartIs DEF Answers, TypeInv
<1>10. CASE AnswerPoll(p)
  <2>1. r.pc = "polling" /\ Fresh \in Nat
    BY <1>1, <1>10 DEF AnswerPoll, At, Fresh
  <2>2. \/ \E a \in Answers \ {"token"} : Answered(p, a, r.token)
        \/ issued' = Fresh /\ Answered(p, "token", [exp |-> now + AccessLife, refresh |-> Fresh])
    BY <1>10, AnswerPollIs DEF Answers, TypeInv
  <2>. QED BY <1>1, <1>7, <1>8, <2>1, <2>2
<1>11. CASE AnswerRefresh(p)
  <2>1. r.pc = "refreshing" /\ Fresh \in Nat
    BY <1>1, <1>11 DEF AnswerRefresh, At, Fresh
  <2>2. \/ Answered(p, "invalid_grant", r.token)
        \/ issued' = Fresh /\ Answered(p, "token", [exp |-> now + AccessLife, refresh |-> Fresh])
        \/ \E x \in {0, r.creds.refresh} :
             Answered(p, "token", [exp |-> now + AccessLife, refresh |-> x])
    BY <1>11, AnswerRefreshIs DEF TypeInv
  <2>3. r.creds.refresh <= issued' /\ 0 <= issued'
    BY <1>1, <1>3 DEF GoodCreds
  <2>4. "invalid_grant" \in Answers /\ "invalid_grant" # "token"
    BY DEF Answers
  <2>. QED BY <1>1, <1>4, <1>7, <1>8, <2>1, <2>2, <2>3, <2>4
<1>12. CASE Decide(p)
  <2>1. proc'[p] = proc[p]
    BY <1>12 DEF Decide
  <2>. QED BY <1>1, <2>1, RowKept DEF TypeInv
<1>13. CASE Login(p)
  <2>1. Starts(p, "starting", now, 0, 0, NoCreds, FALSE)
    BY <1>13, LoginIs DEF TypeInv
  <2>. QED BY <1>1, <1>2, <2>1 DEF RowInv, Starts, Becomes, InFlight
<1>14. CASE BeginPoll(p)
  <2>1. Starts(p, "sleeping", now, PollInterval, now + ExpiresIn, NoCreds, FALSE)
    BY <1>14, BeginPollIs DEF TypeInv
  <2>. QED BY <1>1, <1>2, <2>1 DEF RowInv, Starts, Becomes, InFlight
<1>15. CASE Poll(p)
  <2>1. r.pc = "sleeping"
    BY <1>15 DEF Poll, Due, At
  <2>2. \/ Ends(p)
        \/ Becomes(p, "polling", now, r.answer, r.token, r.interval, r.deadline, r.creds, r.fd,
             r.api)
    BY <1>15, PollIs DEF TypeInv
  <2>3. r.answer # "token"
    BY <1>1, <2>1 DEF RowInv
  <2>4. CASE Becomes(p, "polling", now, r.answer, r.token, r.interval, r.deadline, r.creds, r.fd,
                     r.api)
    BY <1>1, <1>3, <1>5, <2>3, <2>4 DEF RowInv, Becomes, InFlight
  <2>. QED BY <1>6, <2>2, <2>4
<1>16. CASE KeepPolling(p)
  <2>1. Becomes(p, "sleeping", now + NextInterval(p), "none", r.token, NextInterval(p),
                r.deadline, r.creds, r.fd, r.api)
    BY <1>16, KeepPollingIs DEF TypeInv
  <2>. QED BY <1>1, <1>3, <1>5, <2>1 DEF RowInv, Becomes, InFlight
<1>17. CASE LoginRefused(p) \/ RefreshRefused(p) \/ Use(p) \/ Fail(p)
  <2>1. End(p)
    BY <1>17 DEF LoginRefused, RefreshRefused, Use, Fail
  <2>. QED BY <1>6, <2>1, EndIs DEF TypeInv
<1>18. CASE LoggedIn(p)
  <2>1. Starts(p, "save", 0, 0, 0, Credentials(p), FALSE)
    BY <1>18, LoggedInIs DEF TypeInv
  <2>2. r.answer = "token" /\ r.pc = "polling"
    BY <1>18 DEF LoggedIn, At
  <2>3. /\ Credentials(p).exp = r.token.exp /\ Credentials(p).refresh = r.token.refresh
        /\ Credentials(p).expiry = now + AccessLife
    BY DEF Credentials
  <2>4. r.since + AccessLife <= r.token.exp /\ now <= r.since + HttpTimeout /\ 0 < r.token.exp
    BY <1>1, <2>2 DEF RowInv, InFlight
  <2>5. GoodCreds(Credentials(p), issued')
    BY <1>1, <1>4, <1>5, <2>3, <2>4 DEF GoodCreds
  <2>. QED BY <1>1, <1>2, <2>1, <2>3, <2>4, <2>5 DEF RowInv, Starts, Becomes, InFlight
<1>19. CASE OpenCredentials(p)
  <2>1. /\ inode' \in Nat
        /\ Becomes(p, "write", r.since, r.answer, r.token, r.interval, r.deadline, r.creds,
                   inode', r.api)
    BY <1>19, OpenCredentialsIs DEF TypeInv
  <2>2. r.pc = "save"
    BY <1>19 DEF OpenCredentials, At
  <2>. QED BY <1>1, <1>3, <1>5, <2>1, <2>2 DEF RowInv, Becomes, InFlight
<1>20. CASE SaveCredentials(p)
  <2>1. Ends(p) \/ Starts(p, "use", 0, 0, 0, r.creds, FALSE)
    BY <1>20, SaveCredentialsIs DEF TypeInv
  <2>2. CASE Starts(p, "use", 0, 0, 0, r.creds, FALSE)
    BY <1>1, <1>2, <1>3, <2>2 DEF RowInv, Starts, Becomes, InFlight
  <2>. QED BY <1>6, <2>1, <2>2
<1>21. CASE Token(p)
  <2>1. \/ UNCHANGED proc
        \/ Starts(p, "use", 0, 0, 0, file.creds, FALSE)
        \/ Starts(p, "refreshing", now, 0, 0, file.creds, FALSE)
    BY <1>21, TokenIs DEF TypeInv
  <2>2. file.creds \in CredRows
    BY DEF TypeInv, Shapes, Files
  <2>3. GoodCreds(file.creds, issued')
    BY <1>1, <2>2 DEF TypeInv, FileInv, GoodCreds, CredRows
  <2>4. CASE UNCHANGED proc
    BY <1>1, <2>4, RowKept DEF TypeInv
  <2>5. CASE Starts(p, "use", 0, 0, 0, file.creds, FALSE)
    BY <1>1, <1>2, <2>3, <2>5 DEF RowInv, Starts, Becomes, InFlight
  <2>6. CASE Starts(p, "refreshing", now, 0, 0, file.creds, FALSE)
    BY <1>1, <1>2, <2>3, <2>6 DEF RowInv, Starts, Becomes, InFlight
  <2>. QED BY <2>1, <2>4, <2>5, <2>6
<1>22. CASE Refreshed(p)
  <2>. DEFINE c == FreshCredentials(p)
  <2>1. /\ Starts(p, "save", 0, 0, 0, c, TRUE)
        /\ c.exp = r.token.exp /\ c.expiry = now + AccessLife
        /\ c.refresh \in {r.token.refresh, r.creds.refresh}
    BY <1>22, RefreshedIs DEF TypeInv
  <2>. HIDE DEF c
  <2>2. r.answer = "token" /\ r.pc = "refreshing"
    BY <1>22 DEF Refreshed, At
  <2>3. r.since + AccessLife <= r.token.exp /\ now <= r.since + HttpTimeout /\ 0 < r.token.exp
    BY <1>1, <2>2 DEF RowInv, InFlight
  <2>4. GoodCreds(c, issued')
    BY <1>1, <1>3, <1>4, <1>5, <2>1, <2>3 DEF GoodCreds
  <2>. QED BY <1>1, <1>2, <1>4, <2>1, <2>3, <2>4 DEF RowInv, Starts, Becomes, InFlight
<1>. QED BY <1>9, <1>10, <1>11, <1>12, <1>13, <1>14, <1>15, <1>16, <1>17, <1>18, <1>19, <1>20,
            <1>21, <1>22 DEF StepOf

\* A step of p keeps the invariant of the file.
LEMMA FileStep ==
  ASSUME TypeInv, NEW p \in Cmds, StepOf(p), Shapes', issued' >= issued
  PROVE  FileInv'
<1>1. /\ issued \in Nat /\ issued' \in Nat /\ proc[p] \in Procs /\ RowInv(p)
      /\ FileInv /\ Shapes /\ now \in 1..MaxTime
  BY DEF TypeInv, Shapes
<1>2. CASE file' = file
  BY <1>1, <1>2, FileKept
<1>3. CASE OpenCredentials(p)
  BY <1>1, <1>3 DEF OpenCredentials, FileInv, GoodCreds, NoCreds
<1>4. CASE SaveCredentials(p)
  <2>1. /\ proc[p].creds \in CredRows /\ GoodCreds(proc[p].creds, issued)
        /\ 0 < proc[p].creds.exp
    BY <1>1, <1>4 DEF Procs, RowInv, SaveCredentials, At
  <2>2. GoodCreds(proc[p].creds, issued')
    BY <1>1, <2>1 DEF GoodCreds, CredRows
  <2>3. GoodCreds(NoCreds, issued')
    BY <1>1 DEF GoodCreds, NoCreds
  <2>4. \/ file' = file
        \/ file' = [state |-> "ok", creds |-> proc[p].creds]
        \/ file' = [state |-> "garbled", creds |-> NoCreds]
    BY <1>4 DEF SaveCredentials
  <2>. QED BY <1>2, <2>1, <2>2, <2>3, <2>4 DEF FileInv
<1>5. CASE ~OpenCredentials(p) /\ ~SaveCredentials(p)
  <2>1. file' = file
    BY <1>5 DEF StepOf, AnswerStart, AnswerPoll, AnswerRefresh, Decide, Login, BeginPoll,
         Poll, KeepPolling, LoginRefused, LoggedIn, Token, Refreshed, RefreshRefused, Use, Fail
  <2>. QED BY <1>2, <2>1
<1>. QED BY <1>3, <1>4, <1>5

\* Every step keeps the type invariant.
LEMMA TypeStep ==
  ASSUME TypeInv, [Next]_vars
  PROVE  TypeInv'
<1>1. Shapes /\ Shapes'
  BY ShapesStep DEF TypeInv
<1>2. /\ issued' >= issued /\ inode' >= inode /\ issued \in Nat /\ inode \in Nat
      /\ issued' \in Nat /\ inode' \in Nat
  BY <1>1, CountersGrow DEF Shapes
<1>3. CASE UNCHANGED vars
  BY <1>3 DEF vars, keycloak, TypeInv, Shapes, RowInv, FileInv, GoodCreds
<1>4. CASE Logout
  <2>1. \A q \in Cmds : RowInv(q)'
    BY <1>1, <1>2, <1>4, RowKept DEF Logout, TypeInv
  <2>2. FileInv'
    BY <1>2, <1>4 DEF Logout, FileInv, GoodCreds, NoFile, NoCreds
  <2>. QED BY <1>1, <2>1, <2>2 DEF TypeInv
<1>5. CASE Tick
  <2>1. ASSUME NEW q \in Cmds PROVE RowInv(q)'
    <3>1. /\ proc[q] \in Procs /\ proc' = proc /\ now' = now + 1 /\ now \in Nat
          /\ issued' = issued /\ inode' = inode /\ RowInv(q)
      BY <1>1, <1>5 DEF Tick, keycloak, Shapes, TypeInv
    <3>2. /\ proc[q].pc \notin {"save", "write"}
          /\ proc[q].pc \in InFlight => now < proc[q].since + HttpTimeout
      BY <1>5 DEF Tick, At
    <3>3. proc[q].since \in Nat
      BY <3>1 DEF Procs
    <3>. QED BY <3>1, <3>2, <3>3 DEF RowInv
  <2>2. FileInv'
    BY <1>1, <1>2, <1>5, FileKept DEF Tick, TypeInv
  <2>. QED BY <1>1, <2>1, <2>2 DEF TypeInv
<1>6. ASSUME NEW p \in Cmds, StepOf(p) PROVE TypeInv'
  <2>1. ASSUME NEW q \in Cmds PROVE RowInv(q)'
    <3>1. CASE q = p
      BY <1>1, <1>2, <1>6, <3>1, RowStep
    <3>2. CASE q # p
      <4>1. now' = now /\ proc'[q] = proc[q]
        BY <1>1, <1>6, <3>2, OneMoves
      <4>. QED BY <1>1, <1>2, <4>1, RowKept DEF TypeInv
    <3>. QED BY <3>1, <3>2
  <2>2. FileInv'
    BY <1>1, <1>2, <1>6, FileStep
  <2>. QED BY <1>1, <2>1, <2>2 DEF TypeInv
<1>. QED BY <1>3, <1>4, <1>5, <1>6, NextIs

\* The initial state.
LEMMA TypeInit ==
  ASSUME Init
  PROVE  TypeInv
<1>1. Shapes
  BY IdleIs DEF Init, Shapes
<1>2. ASSUME NEW p \in Cmds PROVE RowInv(p)
  BY DEF Init, RowInv, Idle, NoCreds, NoToken, GoodCreds, InFlight
<1>3. FileInv
  BY DEF Init, FileInv, NoFile, NoCreds, GoodCreds
<1>. QED BY <1>1, <1>2, <1>3 DEF TypeInv

\* The type invariant implies TypeOK.
LEMMA Typed ==
  ASSUME TypeInv
  PROVE  TypeOK
<1>1. Shapes
  BY DEF TypeInv
<1>2. ASSUME NEW c \in CredRows, GoodCreds(c, issued) PROVE c \in Creds
  BY <1>1, <1>2 DEF Shapes, CredRows, GoodCreds, Creds, Times
<1>3. ASSUME NEW p \in Cmds
      PROVE  /\ proc[p].pc \in InFlight \cup {"idle", "sleeping", "save", "write", "use"}
             /\ proc[p].creds \in Creds
             /\ proc[p].fd \in 0..inode
             /\ code[p].state \in {"none", "open", "approved", "denied"}
  <2>1. proc[p] \in Procs /\ code[p] \in Codes /\ RowInv(p) /\ inode \in Nat
    BY <1>1 DEF Shapes, TypeInv
  <2>2. proc[p].creds \in CredRows /\ GoodCreds(proc[p].creds, issued)
    BY <2>1 DEF RowInv, Procs
  <2>3. proc[p].fd \in Nat /\ proc[p].fd <= inode /\ proc[p].pc \in PCs
    BY <2>1 DEF RowInv, Procs
  <2>. QED BY <1>2, <2>1, <2>2, <2>3 DEF Codes, PCs
<1>4. file.creds \in Creds /\ file.state \in {"absent", "empty", "garbled", "ok"}
  BY <1>1, <1>2 DEF TypeInv, FileInv, Shapes, Files
<1>5. file.state = "ok" => file.creds.exp > 0
  <2>1. file.creds.exp \in Nat
    BY <1>1 DEF Shapes, Files, CredRows
  <2>. QED BY <2>1 DEF TypeInv, FileInv
<1>. QED BY <1>1, <1>3, <1>4, <1>5 DEF TypeOK, Shapes

\* The type invariant always holds.
LEMMA TypesAlways ==
  Spec => []TypeInv
<1>1. Init => TypeInv
  BY TypeInit
<1>2. TypeInv /\ [Next]_vars => TypeInv'
  BY TypeStep
<1>. QED BY <1>1, <1>2, PTL DEF Spec

(* Every variable holds a value of its type, for any number of commands:    *)
(* the clock, the rows of the commands, the file and Keycloak's tokens.     *)
THEOREM TypesHold ==
  Spec => []TypeOK
<1>1. TypeInv => TypeOK
  BY Typed
<1>. QED BY <1>1, TypesAlways, PTL

-----------------------------------------------------------------------------
(* Tokens that are handed out *)

(* A token that the file or Keycloak gives to a command has not ended there  *)
(* (TokenSource.Token): the skew makes up for the travel of the answer that  *)
(* brought it, and a token outlives the request that asked for it.           *)
THEOREM HandedOut == HttpTimeout < AccessLife => (Spec => HandedOutIsValid)
<1>. SUFFICES ASSUME HttpTimeout < AccessLife
              PROVE  Spec => HandedOutIsValid
  OBVIOUS
<1>1. TypeInv /\ [Next]_vars =>
        [\A p \in Cmds : ~At(p, "use") /\ proc'[p].pc = "use" => now < proc'[p].creds.exp]_vars
  <2>. SUFFICES ASSUME TypeInv, [Next]_vars,
                       NEW q \in Cmds, ~At(q, "use"), proc'[q].pc = "use"
                PROVE  now < proc'[q].creds.exp
    OBVIOUS
  <2>0. Shapes /\ RowInv(q) /\ now \in Nat
    BY DEF TypeInv, Shapes
  <2>1. PICK p \in Cmds : StepOf(p)
    BY NextIs DEF Logout, Tick, vars, At
  <2>2. q = p
    BY <2>0, <2>1, OneMoves DEF At
  <2>3. CASE SaveCredentials(p)
    <3>1. proc[p].api /\ Starts(p, "use", 0, 0, 0, proc[p].creds, FALSE)
      BY <2>0, <2>2, <2>3, SaveCredentialsIs DEF Ends, Starts, Becomes
    <3>2. now < proc[p].creds.exp
      BY <2>0, <2>2, <2>3, <3>1 DEF RowInv, SaveCredentials, At
    <3>. QED BY <2>2, <3>1, <3>2 DEF Starts, Becomes
  <2>4. CASE Token(p)
    <3>1. /\ file.state = "ok" /\ now + ExpirySkew < file.creds.expiry
          /\ Starts(p, "use", 0, 0, 0, file.creds, FALSE)
      <4>1. CASE Starts(p, "refreshing", now, 0, 0, file.creds, FALSE)
        BY <2>2, <4>1 DEF Starts, Becomes
      <4>2. CASE UNCHANGED proc
        BY <4>2 DEF At
      <4>. QED BY <2>0, <2>4, <4>1, <4>2, TokenIs
    <3>2. file.creds.expiry <= file.creds.exp + HttpTimeout /\ file.creds \in CredRows
      BY <2>0 DEF TypeInv, FileInv, GoodCreds, Shapes, Files
    <3>3. file.creds.expiry \in Nat /\ file.creds.exp \in Nat
      BY <3>2 DEF CredRows
    <3>4. now < file.creds.exp
      BY <2>0, <3>1, <3>2, <3>3, SkewCoversTimeout
    <3>. QED BY <2>2, <3>1, <3>4 DEF Starts, Becomes
  <2>5. CASE ~SaveCredentials(p) /\ ~Token(p)
    <3>1. proc'[p].pc # "use" \/ proc'[p].pc = proc[p].pc
      <4>1. CASE AnswerStart(p) \/ AnswerPoll(p) \/ AnswerRefresh(p)
        BY <2>0, <4>1, AnswerStartIs, AnswerPollIs, AnswerRefreshIs DEF Answered, Becomes
      <4>2. CASE Decide(p)
        BY <4>2 DEF Decide
      <4>3. CASE Login(p) \/ BeginPoll(p) \/ LoggedIn(p) \/ Refreshed(p)
        BY <2>0, <4>3, LoginIs, BeginPollIs, LoggedInIs, RefreshedIs DEF Starts, Becomes
      <4>4. CASE LoginRefused(p) \/ RefreshRefused(p) \/ Use(p) \/ Fail(p)
        BY <2>0, <4>4, EndIs DEF LoginRefused, RefreshRefused, Use, Fail, Ends, Starts, Becomes
      <4>5. CASE Poll(p) \/ KeepPolling(p) \/ OpenCredentials(p)
        BY <2>0, <4>5, PollIs, KeepPollingIs, OpenCredentialsIs DEF Ends, Starts, Becomes
      <4>. QED BY <2>1, <2>5, <4>1, <4>2, <4>3, <4>4, <4>5 DEF StepOf
    <3>. QED BY <2>2, <3>1 DEF At
  <2>. QED BY <2>3, <2>4, <2>5
<1>. QED BY <1>1, TypesAlways, PTL DEF Spec, HandedOutIsValid

-----------------------------------------------------------------------------
(* The session *)

\* A command that has got tokens and has not saved them, and the refresh token
\* that it is going to save.
Holds(p) ==
  \/ proc[p].pc \in {"polling", "refreshing"} /\ proc[p].answer = "token"
  \/ proc[p].pc \in {"save", "write"}

\* The refresh token p is about to save or to use.
Held(p) ==
  LET r == proc[p] IN
  IF r.pc \in {"save", "write"} \/ (r.pc = "refreshing" /\ r.token.refresh = 0)
  THEN r.creds.refresh
  ELSE r.token.refresh

\* A command that asks for new tokens with those of the file.
Asks(p) == proc[p].pc = "refreshing" /\ proc[p].answer = "none"

\* A command that is going to open the file to save the tokens that replaced
\* those in it.  One that has opened it before does not count: its file may be
\* one that a logout removed.
Replaces(p) ==
  \/ proc[p].pc = "refreshing" /\ proc[p].answer = "token"
  \/ proc[p].pc = "save" /\ proc[p].api

\* Where refresh tokens are used once, nobody else knows a held one.
OwnTokens ==
  rotates =>
    \A p \in Cmds : Holds(p) =>
      /\ file.creds.refresh # Held(p)
      /\ \A q \in Cmds \ {p} : Holds(q) => Held(q) # Held(p)
      /\ \A q \in Cmds : Asks(q) => proc[q].creds.refresh # Held(p)

\* Held tokens are good and nobody else knows them under rotation; when the token
\* of the file is dead, an answer was lost or a command is about to replace it.
SessionInv ==
  /\ \A p \in Cmds : Holds(p) => Held(p) \in good
  /\ OwnTokens
  /\ file.state = "ok" /\ file.creds.refresh \notin good =>
       rotates /\ (lost \/ \E p \in Cmds : Replaces(p))

\* A command that a step leaves alone holds and asks for what it did.
LEMMA SameRow ==
  ASSUME NEW q \in Cmds, proc'[q] = proc[q]
  PROVE  /\ Holds(q)' = Holds(q) /\ Held(q)' = Held(q) /\ Asks(q)' = Asks(q)
         /\ Replaces(q)' = Replaces(q) /\ proc'[q].creds.refresh = proc[q].creds.refresh
BY DEF Holds, Held, Asks, Replaces

\* A step in which nobody gets tokens and nobody saves any.
LEMMA SessionQuiet ==
  ASSUME TypeInv, SessionInv, NEW p \in Cmds,
         \A q \in Cmds \ {p} : proc'[q] = proc[q],
         UNCHANGED <<good, rotates>>, lost => lost',
         file' = file \/ (file'.state # "ok" /\ file'.creds.refresh = 0),
         Holds(p)' => Holds(p) /\ Held(p)' = Held(p),
         Asks(p)' => \/ Asks(p) /\ proc'[p].creds.refresh = proc[p].creds.refresh
                     \/ proc'[p].creds.refresh = file.creds.refresh,
         Replaces(p) /\ rotates => Replaces(p)' \/ lost' \/ file'.state # "ok"
  PROVE  SessionInv'
<1>1. ASSUME NEW q \in Cmds, Holds(q)'
      PROVE  Holds(q) /\ Held(q)' = Held(q)
  BY <1>1, SameRow
<1>2. ASSUME NEW q \in Cmds, Holds(q)'
      PROVE  Held(q)' \in good' /\ Held(q)' # 0
  BY <1>1, <1>2 DEF SessionInv, TypeInv, Shapes
<1>3. ASSUME NEW q \in Cmds, NEW h \in Cmds, rotates, Asks(q)', Holds(h)'
      PROVE  proc'[q].creds.refresh # Held(h)'
  <2>1. Holds(h) /\ Held(h)' = Held(h)
    BY <1>1, <1>3
  <2>2. file.creds.refresh # Held(h) /\ (Asks(q) => proc[q].creds.refresh # Held(h))
    BY <1>3, <2>1 DEF SessionInv, OwnTokens
  <2>3. \/ Asks(q) /\ proc'[q].creds.refresh = proc[q].creds.refresh
        \/ proc'[q].creds.refresh = file.creds.refresh
    BY <1>3, SameRow
  <2>. QED BY <2>1, <2>2, <2>3
<1>4. OwnTokens'
  <2>. SUFFICES ASSUME rotates, NEW h \in Cmds, Holds(h)'
                PROVE  /\ file'.creds.refresh # Held(h)'
                       /\ \A q \in Cmds \ {h} : Holds(q)' => Held(q)' # Held(h)'
                       /\ \A q \in Cmds : Asks(q)' => proc'[q].creds.refresh # Held(h)'
    BY DEF OwnTokens
  <2>1. file'.creds.refresh # Held(h)'
    BY <1>1, <1>2 DEF SessionInv, OwnTokens
  <2>2. ASSUME NEW q \in Cmds \ {h}, Holds(q)' PROVE Held(q)' # Held(h)'
    <3>1. Holds(q) /\ Holds(h) /\ Held(q)' = Held(q) /\ Held(h)' = Held(h)
      BY <1>1, <2>2
    <3>. QED BY <2>2, <3>1 DEF SessionInv, OwnTokens
  <2>. QED BY <1>3, <2>1, <2>2
<1>5. ASSUME file'.state = "ok", file'.creds.refresh \notin good'
      PROVE  rotates' /\ (lost' \/ \E q \in Cmds : Replaces(q)')
  <2>1. file' = file
    BY <1>5
  <2>2. rotates /\ (lost \/ \E q \in Cmds : Replaces(q))
    BY <1>5, <2>1 DEF SessionInv
  <2>3. ASSUME NEW q \in Cmds, Replaces(q) PROVE lost' \/ Replaces(q)'
    BY <1>5, <2>2, <2>3, SameRow
  <2>. QED BY <2>2, <2>3
<1>. QED BY <1>2, <1>4, <1>5 DEF SessionInv

\* The step of a command that is not an answer with tokens and does not save.
LEMMA SessionOther ==
  ASSUME TypeInv, SessionInv, NEW p \in Cmds, StepOf(p),
         ~AnswerPoll(p), ~AnswerRefresh(p), ~SaveCredentials(p)
  PROVE  SessionInv'
<1>. DEFINE r == proc[p]
<1>0. Shapes /\ RowInv(p) /\ r \in Procs
  BY DEF TypeInv, Shapes
<1>1. \A q \in Cmds \ {p} : proc'[q] = proc[q]
  BY <1>0, OneMoves
<1>2. UNCHANGED <<good, rotates>> /\ (lost => lost')
  <2>1. CASE Fail(p)
    <3>1. lost => lost'
      BY <2>1, Zenon DEF Fail
    <3>. QED BY <2>1, <3>1 DEF Fail, keycloak
  <2>2. CASE ~Fail(p)
    BY <2>2 DEF StepOf, keycloak, AnswerStart, Decide, Login, BeginPoll, Poll, KeepPolling,
         LoginRefused, LoggedIn, OpenCredentials, Token, Refreshed, RefreshRefused, Use
  <2>. QED BY <2>1, <2>2
<1>3. CASE AnswerStart(p)
  <2>1. Answered(p, "code", r.token) /\ r.pc = "starting" /\ file' = file
    BY <1>0, <1>3, AnswerStartIs DEF AnswerStart, At
  <2>2. ~Holds(p)' /\ ~Asks(p)' /\ ~Replaces(p)
    BY <2>1 DEF Answered, Becomes, Holds, Asks, Replaces
  <2>. QED BY <1>1, <1>2, <2>1, <2>2, SessionQuiet
<1>4. CASE Decide(p)
  <2>1. proc'[p] = proc[p] /\ file' = file
    BY <1>4 DEF Decide
  <2>. QED BY <1>1, <1>2, <2>1, SameRow, SessionQuiet
<1>5. CASE Login(p) \/ BeginPoll(p)
  <2>1. file' = file /\ r.pc \in {"idle", "starting"}
    BY <1>5 DEF Login, BeginPoll, At
  <2>2. \/ Starts(p, "starting", now, 0, 0, NoCreds, FALSE)
        \/ Starts(p, "sleeping", now, PollInterval, now + ExpiresIn, NoCreds, FALSE)
    BY <1>0, <1>5, LoginIs, BeginPollIs
  <2>3. ~Holds(p)' /\ ~Asks(p)' /\ ~Replaces(p)
    BY <2>1, <2>2 DEF Starts, Becomes, Holds, Asks, Replaces
  <2>. QED BY <1>1, <1>2, <2>1, <2>3, SessionQuiet
<1>6. CASE Poll(p)
  <2>1. file' = file /\ r.pc = "sleeping"
    BY <1>6 DEF Poll, Due, At
  <2>2. \/ Ends(p)
        \/ Becomes(p, "polling", now, r.answer, r.token, r.interval, r.deadline, r.creds, r.fd,
             r.api)
    BY <1>0, <1>6, PollIs
  <2>3. r.answer # "token"
    BY <1>0, <2>1 DEF RowInv
  <2>4. ~Holds(p)' /\ ~Asks(p)' /\ ~Replaces(p)
    BY <2>1, <2>2, <2>3 DEF Ends, Starts, Becomes, Holds, Asks, Replaces
  <2>. QED BY <1>1, <1>2, <2>1, <2>4, SessionQuiet
<1>7. CASE KeepPolling(p)
  <2>1. file' = file /\ r.pc = "polling" /\ r.answer # "token"
    BY <1>7 DEF KeepPolling, At
  <2>2. Becomes(p, "sleeping", now + NextInterval(p), "none", r.token, NextInterval(p),
                r.deadline, r.creds, r.fd, r.api)
    BY <1>0, <1>7, KeepPollingIs
  <2>3. ~Holds(p)' /\ ~Asks(p)' /\ ~Replaces(p)
    BY <2>1, <2>2 DEF Becomes, Holds, Asks, Replaces
  <2>. QED BY <1>1, <1>2, <2>1, <2>3, SessionQuiet
<1>8. CASE LoginRefused(p) \/ RefreshRefused(p) \/ Use(p)
  <2>1. file' = file /\ ((r.answer # "token" /\ r.pc # "save") \/ r.pc = "use")
    BY <1>8 DEF LoginRefused, RefreshRefused, Use, At
  <2>2. Ends(p)
    BY <1>0, <1>8, EndIs DEF LoginRefused, RefreshRefused, Use
  <2>3. ~Holds(p)' /\ ~Asks(p)' /\ ~Replaces(p)
    BY <2>1, <2>2 DEF Ends, Starts, Becomes, Holds, Asks, Replaces
  <2>. QED BY <1>1, <1>2, <2>1, <2>3, SessionQuiet
<1>9. CASE LoggedIn(p)
  <2>1. file' = file /\ r.pc = "polling" /\ r.answer = "token"
    BY <1>9 DEF LoggedIn, At
  <2>2. Starts(p, "save", 0, 0, 0, Credentials(p), FALSE)
    BY <1>0, <1>9, LoggedInIs
  <2>3. Credentials(p).refresh = r.token.refresh
    BY DEF Credentials
  <2>4. Holds(p) /\ Held(p)' = Held(p) /\ ~Asks(p)' /\ ~Replaces(p)
    BY <2>1, <2>2, <2>3 DEF Starts, Becomes, Holds, Held, Asks, Replaces
  <2>. QED BY <1>1, <1>2, <2>1, <2>4, SessionQuiet
<1>10. CASE OpenCredentials(p)
  <2>1. file'.state # "ok" /\ file'.creds.refresh = 0 /\ r.pc = "save"
    BY <1>10 DEF OpenCredentials, At, NoCreds
  <2>2. Becomes(p, "write", r.since, r.answer, r.token, r.interval, r.deadline, r.creds,
                inode', r.api)
    BY <1>0, <1>10, OpenCredentialsIs
  <2>3. Holds(p) /\ Held(p)' = Held(p) /\ ~Asks(p)'
    BY <2>1, <2>2 DEF Becomes, Holds, Held, Asks
  <2>. QED BY <1>1, <1>2, <2>1, <2>3, SessionQuiet
<1>11. CASE Token(p)
  <2>1. file' = file /\ r.pc = "idle"
    BY <1>11 DEF Token, At
  <2>2. \/ UNCHANGED proc
        \/ Starts(p, "use", 0, 0, 0, file.creds, FALSE)
        \/ Starts(p, "refreshing", now, 0, 0, file.creds, FALSE)
    BY <1>0, <1>11, TokenIs
  <2>3. ~Holds(p)' /\ ~Replaces(p) /\ (Asks(p)' => proc'[p].creds.refresh = file.creds.refresh)
    BY <2>1, <2>2 DEF Starts, Becomes, Holds, Asks, Replaces
  <2>. QED BY <1>1, <1>2, <2>1, <2>3, SessionQuiet
<1>12. CASE Refreshed(p)
  <2>. DEFINE c == FreshCredentials(p)
  <2>1. file' = file /\ r.pc = "refreshing" /\ r.answer = "token"
    BY <1>12 DEF Refreshed, At
  <2>2. /\ Starts(p, "save", 0, 0, 0, c, TRUE)
        /\ r.token.refresh # 0 => c.refresh = r.token.refresh
        /\ r.token.refresh = 0 => c.refresh = r.creds.refresh
    BY <1>0, <1>12, RefreshedIs
  <2>. HIDE DEF c
  <2>3. Holds(p) /\ Held(p)' = Held(p) /\ ~Asks(p)' /\ Replaces(p)'
    BY <2>1, <2>2 DEF Starts, Becomes, Holds, Held, Asks, Replaces
  <2>. QED BY <1>1, <1>2, <2>1, <2>3, SessionQuiet
<1>13. CASE Fail(p)
  <2>1. file' = file /\ lost' = (lost \/ (rotates /\ Unsaved(p)))
    BY <1>13 DEF Fail
  <2>2. Ends(p)
    BY <1>0, <1>13, EndIs DEF Fail
  <2>3. ~Holds(p)' /\ ~Asks(p)' /\ (Replaces(p) => Unsaved(p))
    BY <2>2 DEF Ends, Starts, Becomes, Holds, Asks, Replaces, Unsaved, At
  <2>4. Replaces(p) /\ rotates => lost'
    BY <2>1, <2>3
  <2>. QED BY <1>1, <1>2, <2>1, <2>3, <2>4, SessionQuiet
<1>. QED BY <1>3, <1>4, <1>5, <1>6, <1>7, <1>8, <1>9, <1>10, <1>11, <1>12, <1>13 DEF StepOf

\* The command p gets the next refresh token; those in gone end, and p replaces
\* them.
LEMMA SessionGranted ==
  ASSUME TypeInv, SessionInv, NEW p \in Cmds, NEW gone,
         \A q \in Cmds \ {p} : proc'[q] = proc[q],
         Answered(p, "token", [exp |-> now + AccessLife, refresh |-> Fresh]),
         proc[p].pc \in {"polling", "refreshing"}, proc[p].answer = "none",
         good' = (good \ gone) \cup {Fresh},
         file' = file, lost' = lost, rotates' = rotates,
         \A q \in Cmds \ {p} : Holds(q) => Held(q) \notin gone,
         gone # {} => rotates /\ proc[p].pc = "refreshing"
  PROVE  SessionInv'
<1>. DEFINE t == [exp |-> now + AccessLife, refresh |-> Fresh]
<1>0. /\ issued \in Nat /\ file' = file /\ lost' = lost /\ rotates' = rotates
      /\ Answered(p, "token", t) /\ t.refresh = Fresh
  BY DEF TypeInv, Shapes
<1>1. \A q \in Cmds \ {p} : proc'[q] = proc[q]
  OBVIOUS
<1>3. good' = (good \ gone) \cup {Fresh}
  OBVIOUS
<1>4. Fresh \in Nat /\ Fresh > issued
  BY <1>0 DEF Fresh
<1>. HIDE DEF t
<1>5. /\ Holds(p)' /\ Held(p)' = Fresh /\ ~Asks(p)' /\ ~Holds(p) /\ ~Replaces(p)
      /\ proc[p].pc = "refreshing" => Replaces(p)'
  BY <1>0, <1>4 DEF Answered, Becomes, Holds, Held, Asks, Replaces
<1>2. /\ \A q \in Cmds \ {p} : Holds(q) => Held(q) \notin gone
      /\ gone # {} => rotates /\ Replaces(p)'
  BY <1>5
<1>6. ASSUME NEW q \in Cmds \ {p}
      PROVE  /\ Holds(q) => Held(q) <= issued /\ Held(q) \in Nat
             /\ proc[q].creds.refresh <= issued /\ proc[q].creds.refresh \in Nat
  <2>1. proc[q] \in Procs /\ RowInv(q)
    BY DEF TypeInv, Shapes
  <2>. QED BY <2>1 DEF RowInv, GoodCreds, Procs, CredRows, TokenRows, Held
<1>7. file.creds.refresh <= issued /\ file.creds.refresh \in Nat
  BY DEF TypeInv, FileInv, GoodCreds, Shapes, Files, CredRows
<1>8. ASSUME NEW q \in Cmds, Holds(q)' PROVE Held(q)' \in good'
  <2>1. CASE q = p
    BY <1>3, <1>5, <2>1
  <2>2. CASE q # p
    <3>1. Holds(q) /\ Held(q)' = Held(q)
      BY <1>1, <1>8, <2>2, SameRow
    <3>. QED BY <1>2, <1>3, <2>2, <3>1 DEF SessionInv
  <2>. QED BY <2>1, <2>2
<1>9. OwnTokens'
  <2>. SUFFICES ASSUME rotates, NEW h \in Cmds, Holds(h)'
                PROVE  /\ file.creds.refresh # Held(h)'
                       /\ \A q \in Cmds \ {h} : Holds(q)' => Held(q)' # Held(h)'
                       /\ \A q \in Cmds : Asks(q)' => proc'[q].creds.refresh # Held(h)'
    BY <1>0 DEF OwnTokens
  <2>1. CASE h = p
    <3>1. file.creds.refresh # Held(p)'
      BY <1>0, <1>4, <1>5, <1>7
    <3>2. ASSUME NEW q \in Cmds \ {p}, Holds(q)' PROVE Held(q)' # Held(p)'
      <4>1. Holds(q) /\ Held(q)' = Held(q)
        BY <1>1, <3>2, SameRow
      <4>. QED BY <1>0, <1>4, <1>5, <1>6, <4>1
    <3>3. ASSUME NEW q \in Cmds, Asks(q)' PROVE proc'[q].creds.refresh # Held(p)'
      <4>1. q # p /\ proc'[q].creds.refresh = proc[q].creds.refresh
        BY <1>1, <1>5, <3>3
      <4>. QED BY <1>0, <1>4, <1>5, <1>6, <4>1
    <3>. QED BY <2>1, <3>1, <3>2, <3>3
  <2>2. CASE h # p
    <3>1. Holds(h) /\ Held(h)' = Held(h)
      BY <1>1, <2>2, SameRow
    <3>2. /\ file.creds.refresh # Held(h)
          /\ \A q \in Cmds \ {h} : Holds(q) => Held(q) # Held(h)
          /\ \A q \in Cmds : Asks(q) => proc[q].creds.refresh # Held(h)
      BY <3>1 DEF SessionInv, OwnTokens
    <3>3. Held(h) <= issued /\ Held(h) \in Nat
      BY <1>6, <2>2, <3>1
    <3>4. ASSUME NEW q \in Cmds \ {h}, Holds(q)' PROVE Held(q)' # Held(h)'
      <4>1. CASE q = p
        BY <1>0, <1>4, <1>5, <3>1, <3>3, <4>1
      <4>2. CASE q # p
        BY <1>1, <3>1, <3>2, <3>4, <4>2, SameRow
      <4>. QED BY <4>1, <4>2
    <3>5. ASSUME NEW q \in Cmds, Asks(q)' PROVE proc'[q].creds.refresh # Held(h)'
      <4>1. q # p
        BY <1>5, <3>5
      <4>2. Asks(q) /\ proc'[q].creds.refresh = proc[q].creds.refresh
        BY <1>1, <3>5, <4>1, SameRow
      <4>. QED BY <3>1, <3>2, <4>2
    <3>. QED BY <3>1, <3>2, <3>4, <3>5
  <2>. QED BY <2>1, <2>2
<1>10. ASSUME file'.state = "ok", file'.creds.refresh \notin good'
      PROVE  rotates' /\ (lost' \/ \E q \in Cmds : Replaces(q)')
  <2>0. CASE file.creds.refresh \in gone
    BY <1>0, <1>2, <2>0
  <2>1. CASE file.creds.refresh \notin gone
    <3>1. rotates /\ (lost \/ \E q \in Cmds : Replaces(q))
      BY <1>0, <1>3, <1>10, <2>1 DEF SessionInv
    <3>2. ASSUME NEW q \in Cmds, Replaces(q) PROVE Replaces(q)'
      BY <1>1, <1>5, <3>2, SameRow
    <3>. QED BY <1>0, <3>1, <3>2
  <2>. QED BY <2>0, <2>1
<1>. QED BY <1>8, <1>9, <1>10 DEF SessionInv

\* Keycloak answers a poll: a login's first tokens are nobody's yet.
LEMMA SessionPolled ==
  ASSUME TypeInv, SessionInv, NEW p \in Cmds, AnswerPoll(p)
  PROVE  SessionInv'
<1>. DEFINE r == proc[p]
<1>0. /\ Shapes /\ r.pc = "polling" /\ r.answer = "none"
      /\ file' = file /\ lost' = lost /\ rotates' = rotates
  BY DEF TypeInv, AnswerPoll, At, keycloak
<1>1. \A q \in Cmds \ {p} : proc'[q] = proc[q]
  BY <1>0, OneMoves DEF StepOf
<1>2. ASSUME NEW a \in Answers, a # "token", Answered(p, a, r.token), UNCHANGED good
      PROVE  SessionInv'
  <2>1. ~Holds(p)' /\ ~Asks(p)' /\ ~Replaces(p)
    BY <1>0, <1>2 DEF Answered, Becomes, Holds, Asks, Replaces
  <2>. QED BY <1>0, <1>1, <1>2, <2>1, SessionQuiet
<1>3. CASE /\ Answered(p, "token", [exp |-> now + AccessLife, refresh |-> Fresh])
           /\ good' = good \cup {Fresh}
  <2>1. PICK gone : gone = {}
    OBVIOUS
  <2>2. good' = (good \ gone) \cup {Fresh}
          /\ (\A q \in Cmds \ {p} : Holds(q) => Held(q) \notin gone)
    BY <1>3, <2>1
  <2>. QED BY <1>0, <1>1, <1>3, <2>1, <2>2, SessionGranted
<1>4. {"authorization_pending", "slow_down", "expired_token", "access_denied"}
        \subseteq Answers \ {"token"}
  BY DEF Answers
<1>. QED BY <1>0, <1>2, <1>3, <1>4, AnswerPollIs DEF keycloak

\* Keycloak answers a refresh: with rotation the tokens that ended are those of
\* the command, which nobody else holds.
LEMMA SessionRefreshed ==
  ASSUME TypeInv, SessionInv, NEW p \in Cmds, AnswerRefresh(p)
  PROVE  SessionInv'
<1>. DEFINE r == proc[p]
            old == r.creds.refresh
<1>0. /\ Shapes /\ r.pc = "refreshing" /\ r.answer = "none"
      /\ file' = file /\ lost' = lost /\ rotates' = rotates
      /\ good \subseteq 1..issued /\ issued \in Nat
  BY DEF TypeInv, Shapes, AnswerRefresh, At
<1>1. \A q \in Cmds \ {p} : proc'[q] = proc[q]
  BY <1>0, OneMoves DEF StepOf
<1>2. CASE /\ old \in good /\ rotates
           /\ Answered(p, "token", [exp |-> now + AccessLife, refresh |-> Fresh])
           /\ good' = (good \ {old}) \cup {Fresh}
  <2>1. \A q \in Cmds \ {p} : Holds(q) => Held(q) \notin {old}
    BY <1>0, <1>2 DEF SessionInv, OwnTokens, Asks
  <2>. QED BY <1>0, <1>1, <1>2, <2>1, SessionGranted
<1>3. ASSUME old \in good, ~rotates, NEW kept \in {0, old}, UNCHANGED good,
             Answered(p, "token", [exp |-> now + AccessLife, refresh |-> kept])
      PROVE  SessionInv'
  <2>. DEFINE t == [exp |-> now + AccessLife, refresh |-> kept]
  <2>1. Answered(p, "token", t) /\ t.refresh = kept /\ old # 0
    BY <1>0, <1>3
  <2>. HIDE DEF t
  <2>2. Held(p)' = old
    BY <1>0, <2>1 DEF Answered, Becomes, Held
  <2>3. ASSUME NEW q \in Cmds, Holds(q)' PROVE Held(q)' \in good'
    <3>1. CASE q = p
      BY <1>3, <2>2, <3>1
    <3>2. CASE q # p
      BY <1>1, <1>3, <2>3, <3>2, SameRow DEF SessionInv
    <3>. QED BY <3>1, <3>2
  <2>. QED BY <1>0, <1>3, <2>3 DEF SessionInv, OwnTokens
<1>4. CASE Answered(p, "invalid_grant", r.token) /\ UNCHANGED good
  <2>1. ~Holds(p)' /\ ~Asks(p)' /\ ~Replaces(p)
    BY <1>0, <1>4 DEF Answered, Becomes, Holds, Asks, Replaces
  <2>. QED BY <1>0, <1>1, <1>4, <2>1, SessionQuiet
<1>. QED BY <1>0, <1>2, <1>3, <1>4, AnswerRefreshIs

\* A command writes the file: its tokens are good and nobody else has them.
LEMMA SessionSaved ==
  ASSUME TypeInv, SessionInv, NEW p \in Cmds, SaveCredentials(p)
  PROVE  SessionInv'
<1>. DEFINE r == proc[p]
<1>0. /\ Shapes /\ r.pc = "write" /\ UNCHANGED <<good, rotates, lost>>
  BY DEF TypeInv, SaveCredentials, At, keycloak
<1>1. \A q \in Cmds \ {p} : proc'[q] = proc[q]
  BY <1>0, OneMoves DEF StepOf
<1>2. Ends(p) \/ Starts(p, "use", 0, 0, 0, r.creds, FALSE)
  BY <1>0, SaveCredentialsIs
<1>3. ~Holds(p)' /\ ~Asks(p)' /\ ~Replaces(p) /\ Holds(p) /\ Held(p) = r.creds.refresh
  BY <1>0, <1>2 DEF Ends, Starts, Becomes, Holds, Held, Asks, Replaces
<1>4. CASE file' = file \/ file' = [state |-> "garbled", creds |-> NoCreds]
  <2>1. file' = file \/ (file'.state # "ok" /\ file'.creds.refresh = 0)
    BY <1>4 DEF NoCreds
  <2>. QED BY <1>0, <1>1, <1>3, <2>1, SessionQuiet
<1>5. CASE file' = [state |-> "ok", creds |-> r.creds]
  <2>1. file'.creds.refresh = Held(p) /\ Held(p) \in good
    BY <1>3, <1>5 DEF SessionInv
  <2>2. ASSUME NEW q \in Cmds, Holds(q)'
        PROVE  q # p /\ Holds(q) /\ Held(q)' = Held(q)
    BY <1>1, <1>3, <2>2, SameRow
  <2>3. ASSUME rotates, NEW h \in Cmds, Holds(h)'
        PROVE  /\ file'.creds.refresh # Held(h)'
               /\ \A q \in Cmds \ {h} : Holds(q)' => Held(q)' # Held(h)'
               /\ \A q \in Cmds : Asks(q)' => proc'[q].creds.refresh # Held(h)'
    <3>1. /\ \A q \in Cmds \ {h} : Holds(q) => Held(q) # Held(h)
          /\ \A q \in Cmds : Asks(q) => proc[q].creds.refresh # Held(h)
      BY <2>2, <2>3 DEF SessionInv, OwnTokens
    <3>2. file'.creds.refresh # Held(h)'
      BY <1>3, <2>1, <2>2, <2>3, <3>1
    <3>3. ASSUME NEW q \in Cmds \ {h}, Holds(q)' PROVE Held(q)' # Held(h)'
      BY <2>2, <2>3, <3>1, <3>3
    <3>4. ASSUME NEW q \in Cmds, Asks(q)' PROVE proc'[q].creds.refresh # Held(h)'
      <4>1. q # p
        BY <1>3, <3>4
      <4>2. Asks(q) /\ proc'[q].creds.refresh = proc[q].creds.refresh
        BY <1>1, <3>4, <4>1, SameRow
      <4>. QED BY <2>2, <2>3, <3>1, <4>2
    <3>. QED BY <3>2, <3>3, <3>4
  <2>4. OwnTokens'
    BY <1>0, <2>3 DEF OwnTokens
  <2>5. \A q \in Cmds : Holds(q)' => Held(q)' \in good'
    BY <1>0, <2>2 DEF SessionInv
  <2>. QED BY <1>0, <2>1, <2>4, <2>5 DEF SessionInv
<1>. QED BY <1>4, <1>5 DEF SaveCredentials

\* Every step keeps the invariant of the session.
LEMMA SessionStep ==
  ASSUME TypeInv, SessionInv, [Next]_vars
  PROVE  SessionInv'
<1>1. CASE UNCHANGED vars
  BY <1>1 DEF vars, keycloak, SessionInv, OwnTokens, Holds, Held, Asks, Replaces
<1>2. CASE Tick
  BY <1>2 DEF Tick, keycloak, SessionInv, OwnTokens, Holds, Held, Asks, Replaces
<1>3. CASE Logout
  <2>1. /\ proc' = proc /\ good' = good /\ rotates' = rotates
        /\ file'.state = "absent" /\ file'.creds.refresh = 0
    BY <1>3 DEF Logout, keycloak, NoFile, NoCreds
  <2>2. \A p \in Cmds : Holds(p) => Held(p) # 0
    BY DEF SessionInv, TypeInv, Shapes
  <2>. QED BY <2>1, <2>2 DEF SessionInv, OwnTokens, Holds, Held, Asks
<1>4. ASSUME NEW p \in Cmds, StepOf(p) PROVE SessionInv'
  BY <1>4, SessionOther, SessionPolled, SessionRefreshed, SessionSaved
<1>. QED BY <1>1, <1>2, <1>3, <1>4, NextIs

(* SessionKept: refreshes of several commands at the same time, logins and   *)
(* logouts never cost the session by themselves (TokenSource.Token and       *)
(* SaveCredentials).                                                         *)
THEOREM SessionSurvives == Spec => []SessionKept
<1>1. Init => SessionInv
  BY DEF Init, SessionInv, OwnTokens, Holds, Idle, NoFile, Asks
<1>2. TypeInv /\ SessionInv /\ [Next]_vars => SessionInv'
  BY SessionStep
<1>3. SessionInv => SessionKept
  <2>1. ASSUME NEW p \in Cmds, Replaces(p) PROVE Unsaved(p)
    BY <2>1 DEF Replaces, Unsaved, At
  <2>. QED BY <2>1 DEF SessionInv, SessionKept
<1>. QED BY <1>1, <1>2, <1>3, TypesAlways, PTL DEF Spec

-----------------------------------------------------------------------------
(* The polls of a login *)

\* The interval between two polls that Keycloak asked for.
Gap(p) == PollInterval + SlowDown * code[p].slow

\* The command is logging in.
Active(p) ==
  \/ proc[p].pc = "starting" /\ proc[p].answer = "code"
  \/ proc[p].pc \in {"sleeping", "polling"}

\* The poll that is due or in flight comes an interval after the one before.
Spaced(p) ==
  LET r == proc[p]  k == code[p] IN
  /\ r.interval = Gap(p)
  /\ k.polled # 0 => k.polled + Gap(p) <= r.since /\ r.since <= k.polled + HttpTimeout + Gap(p)
  /\ k.polled = 0 => r.since + ExpiresIn = r.deadline /\ r.deadline <= k.exp + HttpTimeout

\* What a login knows of its code: when it polled last, when it may poll next,
\* and that the code does not outlast the time the command gives it.
LoginInv(p) ==
  LET r == proc[p]  k == code[p] IN
  /\ k.polled <= now
  /\ r.answer = "expired_token" => r.pc = "polling"
  /\ Active(p) =>
       /\ k.exp <= now + ExpiresIn
       /\ k.state = "approved" => k.polled <= k.approved /\ k.exp <= k.approved + ExpiresIn
  /\ r.pc = "starting" /\ r.answer = "code" =>
       k.polled = 0 /\ k.slow = 0 /\ r.since + ExpiresIn <= k.exp
  /\ r.pc = "sleeping" => r.answer = "none" /\ Spaced(p) /\ now <= r.since /\ k.exp <= r.deadline
  /\ r.pc = "polling" =>
       /\ k.exp <= r.deadline
       /\ r.answer \in {"none", "expired_token"} => Spaced(p)
       /\ r.answer = "expired_token" => k.exp <= now
       /\ r.answer \in {"authorization_pending", "slow_down"} => k.polled # 0 /\ r.since <= k.polled
       /\ r.answer = "authorization_pending" => r.interval = Gap(p)
       /\ r.answer = "slow_down" => r.interval + SlowDown = Gap(p)

\* The interval Keycloak asks for.
LEMMA GapIs ==
  ASSUME NEW p, code[p].slow \in {0, 1}
  PROVE  /\ Gap(p) \in Nat
         /\ code[p].slow = 0 => Gap(p) = PollInterval
         /\ code[p].slow = 1 => Gap(p) = PollInterval + SlowDown
<1>1. CASE code[p].slow = 0
  <2>1. SlowDown * 0 = 0
    OBVIOUS
  <2>. QED BY <1>1, <2>1 DEF Gap
<1>2. CASE code[p].slow = 1
  <2>1. SlowDown * 1 = SlowDown
    OBVIOUS
  <2>. QED BY <1>2, <2>1 DEF Gap
<1>. QED BY <1>1, <1>2

\* The same after a step.
LEMMA GapIsNext ==
  ASSUME NEW p, code'[p].slow \in {0, 1}
  PROVE  /\ Gap(p)' \in Nat
         /\ code'[p].slow = 0 => Gap(p)' = PollInterval
         /\ code'[p].slow = 1 => Gap(p)' = PollInterval + SlowDown
<1>1. CASE code'[p].slow = 0
  <2>1. SlowDown * 0 = 0
    OBVIOUS
  <2>. QED BY <1>1, <2>1 DEF Gap
<1>2. CASE code'[p].slow = 1
  <2>1. SlowDown * 1 = SlowDown
    OBVIOUS
  <2>. QED BY <1>2, <2>1 DEF Gap
<1>. QED BY <1>1, <1>2

\* A command that is not in a login after the step.
LEMMA LoginFree ==
  ASSUME NEW p \in Cmds, proc'[p].pc \notin {"sleeping", "polling"},
         proc'[p].answer # "expired_token",
         ~(proc'[p].pc = "starting" /\ proc'[p].answer = "code"),
         code'[p].polled <= now'
  PROVE  LoginInv(p)'
BY DEF LoginInv, Active

\* A step that leaves a login alone keeps its invariant.
LEMMA LoginKept ==
  ASSUME NEW p \in Cmds, LoginInv(p), proc'[p] = proc[p], code'[p] = code[p], now' = now
  PROVE  LoginInv(p)'
BY DEF LoginInv, Active, Spaced, Gap

\* Time passes.
LEMMA LoginTicks ==
  ASSUME TypeInv, NEW p \in Cmds, LoginInv(p), Tick
  PROVE  LoginInv(p)'
<1>1. /\ proc' = proc /\ code' = code /\ now' = now + 1
      /\ now \in Nat /\ proc[p] \in Procs /\ code[p] \in Codes
      /\ proc[p].pc = "sleeping" => now < proc[p].since
  BY DEF Tick, TypeInv, Shapes, Due, At, Procs
<1>2. /\ proc[p].since \in Nat /\ code[p].exp \in Nat /\ code[p].polled \in Nat
  BY <1>1 DEF Procs, Codes
<1>3. Gap(p)' = Gap(p) /\ Active(p)' = Active(p) /\ Spaced(p)' = Spaced(p)
  BY <1>1 DEF Gap, Active, Spaced
<1>. QED BY <1>1, <1>2, <1>3 DEF LoginInv

\* Every step of a login keeps its invariant.
LEMMA LoginStep ==
  ASSUME TypeInv, NEW p \in Cmds, LoginInv(p), StepOf(p)
  PROVE  LoginInv(p)'
<1>. DEFINE r == proc[p]
            k == code[p]
<1>1. /\ Shapes /\ r \in Procs /\ k \in Codes /\ RowInv(p) /\ now \in Nat /\ 1 <= now /\ now' = now
  BY OneMoves DEF TypeInv, Shapes
<1>2. /\ r.since \in Nat /\ r.interval \in Nat /\ r.deadline \in Nat
      /\ k.exp \in Nat /\ k.polled \in Nat /\ k.approved \in Nat /\ k.slow \in {0, 1}
      /\ k.polled <= now
  BY <1>1 DEF Procs, Codes, LoginInv
<1>3. r.pc \in InFlight => r.since <= now /\ now <= r.since + HttpTimeout
  BY <1>1 DEF RowInv
<1>4. /\ Gap(p) \in Nat
      /\ k.slow = 0 => Gap(p) = PollInterval
      /\ k.slow = 1 => Gap(p) = PollInterval + SlowDown
  BY <1>2, GapIs
<1>5. ASSUME code' = code PROVE Gap(p)' = Gap(p)
  BY <1>5 DEF Gap
<1>6. CASE AnswerStart(p)
  <2>1. r.pc = "starting"
    BY <1>6 DEF AnswerStart, At
  <2>2. Answered(p, "code", r.token) /\ CodeBecomes(p, "open", now + ExpiresIn, 0, 0, 0)
    BY <1>1, <1>6, AnswerStartIs
  <2>. QED BY <1>1, <1>2, <1>3, <2>1, <2>2
         DEF LoginInv, Active, Answered, Becomes, CodeBecomes, InFlight
<1>7. CASE AnswerPoll(p)
  <2>1. r.pc = "polling" /\ r.answer = "none" /\ r.since <= now
    BY <1>3, <1>7 DEF AnswerPoll, At, InFlight
  <2>2. /\ k.exp <= now + ExpiresIn /\ k.exp <= r.deadline /\ Spaced(p) /\ r.interval = Gap(p)
        /\ k.state = "approved" => k.polled <= k.approved /\ k.exp <= k.approved + ExpiresIn
    BY <2>1 DEF LoginInv, Active, Spaced
  <2>3. CASE /\ k.state = "open" /\ Answered(p, "authorization_pending", r.token)
             /\ CodeBecomes(p, k.state, k.exp, k.approved, now, k.slow)
    <3>1. Gap(p)' = Gap(p)
      BY <2>3 DEF Gap, CodeBecomes
    <3>. QED BY <1>1, <1>2, <2>1, <2>2, <2>3, <3>1
           DEF LoginInv, Active, Answered, Becomes, CodeBecomes
  <2>4. CASE /\ k.state = "open" /\ k.slow = 0 /\ Answered(p, "slow_down", r.token)
             /\ CodeBecomes(p, k.state, k.exp, k.approved, now, 1)
    <3>1. Gap(p)' = Gap(p) + SlowDown
      BY <1>4, <2>4, GapIsNext DEF CodeBecomes
    <3>. QED BY <1>1, <1>2, <2>1, <2>2, <2>4, <3>1
           DEF LoginInv, Active, Answered, Becomes, CodeBecomes
  <2>5. CASE /\ Answered(p, "token", [exp |-> now + AccessLife, refresh |-> Fresh])
             /\ UNCHANGED code
    BY <1>1, <1>2, <2>1, <2>2, <2>5 DEF LoginInv, Active, Answered, Becomes
  <2>6. CASE /\ now >= k.exp /\ Answered(p, "expired_token", r.token) /\ UNCHANGED code
    <3>1. Spaced(p)'
      BY <2>2, <2>6, <1>5 DEF Spaced, Answered, Becomes
    <3>. QED BY <1>1, <1>2, <2>1, <2>2, <2>6, <3>1 DEF LoginInv, Active, Answered, Becomes
  <2>7. CASE Answered(p, "access_denied", r.token) /\ UNCHANGED code
    BY <1>1, <1>2, <2>1, <2>2, <2>7 DEF LoginInv, Active, Answered, Becomes
  <2>. QED BY <1>1, <1>7, <2>3, <2>4, <2>5, <2>6, <2>7, AnswerPollIs
<1>8. CASE AnswerRefresh(p)
  <2>1. r.pc = "refreshing" /\ code' = code
    BY <1>8 DEF AnswerRefresh, At
  <2>2. proc'[p].pc = "refreshing" /\ proc'[p].answer \in {"token", "invalid_grant"}
    BY <1>1, <1>8, <2>1, AnswerRefreshIs DEF Answered, Becomes
  <2>. QED BY <1>1, <1>2, <2>1, <2>2, LoginFree
<1>9. CASE Decide(p)
  <2>1. k.state = "open" /\ proc' = proc
    BY <1>9 DEF Decide
  <2>2. PICK s \in {"approved", "denied"} : CodeBecomes(p, s, k.exp, now, k.polled, k.slow)
    BY <1>1, <1>9, DecideIs
  <2>3. Gap(p)' = Gap(p) /\ Active(p)' = Active(p) /\ Spaced(p)' = Spaced(p)
    BY <2>1, <2>2 DEF Gap, Active, Spaced, CodeBecomes
  <2>. QED BY <1>1, <1>2, <2>1, <2>2, <2>3 DEF LoginInv, CodeBecomes
<1>10. CASE Login(p) \/ LoggedIn(p) \/ Refreshed(p) \/ Token(p) \/ SaveCredentials(p)
  <2>0. /\ r.pc # "sleeping" /\ (r.pc = "polling" => LoggedIn(p)) /\ (r.pc = "starting" => FALSE)
    BY <1>10 DEF Login, LoggedIn, Refreshed, Token, SaveCredentials, At
  <2>1. \/ proc' = proc /\ Token(p)
        \/ proc'[p].pc \in {"starting", "save", "use", "refreshing", "idle"}
           /\ proc'[p].answer = "none"
    BY <1>1, <1>10, LoginIs, LoggedInIs, RefreshedIs, TokenIs, SaveCredentialsIs
       DEF Ends, Starts, Becomes
  <2>2. code'[p].polled <= now
    <3>1. code' = code \/ Forgotten(p)
      BY <1>1, <1>10, LoggedInIs DEF Login, Refreshed, Token, SaveCredentials
    <3>. QED BY <1>1, <1>2, <3>1 DEF Forgotten, CodeBecomes
  <2>3. CASE proc' = proc /\ Token(p)
    BY <1>1, <2>3, LoginKept DEF Token
  <2>. QED BY <1>1, <2>1, <2>2, <2>3, LoginFree
<1>11. CASE BeginPoll(p)
  <2>1. r.pc = "starting" /\ r.answer = "code" /\ code' = code
    BY <1>11 DEF BeginPoll, At
  <2>2. Starts(p, "sleeping", now, PollInterval, now + ExpiresIn, NoCreds, FALSE)
    BY <1>1, <1>11, BeginPollIs
  <2>3. /\ k.polled = 0 /\ k.slow = 0 /\ r.since + ExpiresIn <= k.exp /\ k.exp <= now + ExpiresIn
        /\ k.state = "approved" => k.polled <= k.approved /\ k.exp <= k.approved + ExpiresIn
        /\ r.since <= now /\ now <= r.since + HttpTimeout
    BY <1>3, <2>1 DEF LoginInv, Active, InFlight
  <2>4. Gap(p)' = PollInterval
    BY <1>4, <1>5, <2>1, <2>3
  <2>5. Spaced(p)'
    BY <1>1, <1>2, <2>1, <2>2, <2>3, <2>4 DEF Spaced, Starts, Becomes
  <2>. QED BY <1>1, <1>2, <2>1, <2>2, <2>3, <2>5 DEF LoginInv, Active, Starts, Becomes
<1>12. CASE Poll(p)
  <2>1. /\ r.pc = "sleeping" /\ r.since <= now
    BY <1>12 DEF Poll, Due, At
  <2>2. /\ r.answer = "none" /\ Spaced(p) /\ now <= r.since /\ k.exp <= r.deadline
        /\ k.exp <= now + ExpiresIn
        /\ k.state = "approved" => k.polled <= k.approved /\ k.exp <= k.approved + ExpiresIn
    BY <2>1 DEF LoginInv, Active
  <2>3. r.since = now
    BY <1>1, <1>2, <2>1, <2>2
  <2>4. CASE /\ Becomes(p, "polling", now, r.answer, r.token, r.interval, r.deadline, r.creds, r.fd,
                        r.api)
             /\ UNCHANGED code
    <3>1. Spaced(p)'
      BY <1>5, <2>2, <2>3, <2>4 DEF Spaced, Becomes
    <3>. QED BY <1>1, <1>2, <2>2, <2>4, <3>1 DEF LoginInv, Active, Becomes
  <2>5. CASE Ends(p) /\ Forgotten(p)
    <3>1. proc'[p].pc = "idle" /\ proc'[p].answer = "none" /\ code'[p].polled = 0
      BY <2>5 DEF Ends, Starts, Becomes, Forgotten, CodeBecomes
    <3>. QED BY <1>1, <3>1, LoginFree
  <2>. QED BY <1>1, <1>12, <2>4, <2>5, PollIs
<1>13. CASE KeepPolling(p)
  <2>1. /\ r.pc = "polling" /\ r.answer \in {"authorization_pending", "slow_down"} /\ code' = code
    BY <1>13 DEF KeepPolling, At
  <2>2. Becomes(p, "sleeping", now + NextInterval(p), "none", r.token, NextInterval(p),
                r.deadline, r.creds, r.fd, r.api)
    BY <1>1, <1>13, KeepPollingIs
  <2>3. NextInterval(p) = Gap(p)
    BY <1>2, <2>1 DEF LoginInv, NextInterval
  <2>4. /\ k.exp <= now + ExpiresIn /\ k.exp <= r.deadline /\ k.polled # 0 /\ r.since <= k.polled
        /\ k.state = "approved" => k.polled <= k.approved /\ k.exp <= k.approved + ExpiresIn
        /\ now <= r.since + HttpTimeout
    BY <1>3, <2>1 DEF LoginInv, Active, InFlight
  <2>5. Gap(p)' = Gap(p)
    BY <1>5, <2>1
  <2>. HIDE DEF NextInterval
  <2>6. Spaced(p)'
    BY <1>1, <1>2, <1>4, <2>1, <2>2, <2>3, <2>4, <2>5 DEF Spaced, Becomes
  <2>. QED BY <1>1, <1>2, <1>4, <2>1, <2>2, <2>3, <2>4, <2>6 DEF LoginInv, Active, Becomes
<1>14. CASE LoginRefused(p) \/ RefreshRefused(p) \/ Use(p) \/ Fail(p)
  <2>1. Ends(p)
    BY <1>1, <1>14, EndIs DEF LoginRefused, RefreshRefused, Use, Fail
  <2>2. code' = code \/ Forgotten(p)
    BY <1>1, <1>14, ForgetIs DEF LoginRefused, RefreshRefused, Use, Fail
  <2>3. proc'[p].pc = "idle" /\ proc'[p].answer = "none" /\ code'[p].polled <= now
    BY <1>1, <1>2, <2>1, <2>2 DEF Ends, Starts, Becomes, Forgotten, CodeBecomes
  <2>. QED BY <1>1, <2>3, LoginFree
<1>15. CASE OpenCredentials(p)
  <2>1. r.pc = "save" /\ code' = code
    BY <1>15 DEF OpenCredentials, At
  <2>2. proc'[p].pc = "write" /\ proc'[p].answer = r.answer
    BY <1>1, <1>15, OpenCredentialsIs DEF Becomes
  <2>3. r.answer # "expired_token"
    BY <2>1 DEF LoginInv
  <2>. QED BY <1>1, <1>2, <2>1, <2>2, <2>3, LoginFree
<1>. QED BY <1>6, <1>7, <1>8, <1>9, <1>10, <1>11, <1>12, <1>13, <1>14, <1>15 DEF StepOf

\* The invariant of all logins.
Logins == \A p \in Cmds : LoginInv(p)

\* The invariant of all logins always holds.
LEMMA LoginAlways ==
  Spec => [](TypeInv /\ Logins)
<1>1. Init => Logins
  <2>. SUFFICES ASSUME Init, NEW p \in Cmds PROVE LoginInv(p)
    BY DEF Logins
  <2>1. /\ proc[p].pc = "idle" /\ proc[p].answer = "none" /\ code[p].polled = 0 /\ now = 1
    BY DEF Init, Idle, NoCode
  <2>. QED BY <2>1 DEF LoginInv, Active
<1>2. TypeInv /\ Logins /\ [Next]_vars => Logins'
  <2>. SUFFICES ASSUME TypeInv, Logins, [Next]_vars, NEW p \in Cmds PROVE LoginInv(p)'
    BY DEF Logins
  <2>0. LoginInv(p)
    BY DEF Logins
  <2>1. CASE UNCHANGED vars \/ Logout
    BY <2>0, <2>1, LoginKept DEF vars, Logout
  <2>2. CASE Tick
    BY <2>0, <2>2, LoginTicks
  <2>3. ASSUME NEW q \in Cmds, StepOf(q) PROVE LoginInv(p)'
    <3>1. CASE q = p
      BY <2>0, <2>3, <3>1, LoginStep
    <3>2. CASE q # p
      <4>1. proc'[p] = proc[p] /\ code'[p] = code[p] /\ now' = now
        BY <2>0, <2>3, <3>2, OneMoves DEF TypeInv
      <4>. QED BY <2>0, <4>1, LoginKept
    <3>. QED BY <3>1, <3>2
  <2>. QED BY <2>0, <2>1, <2>2, <2>3, NextIs
<1>. QED BY <1>1, <1>2, TypesAlways, PTL DEF Spec

(* PollsSpaced: Keycloak never sees two polls of a login closer than it      *)
(* asked for (Flow.Poll), however long its answers travel, also after the    *)
(* first slow_down.                                                          *)
THEOREM PollsKeepTheInterval == Spec => PollsSpaced
<1>1. TypeInv /\ Logins /\ [Next]_vars =>
        [\A p \in Cmds :
           At(p, "polling") /\ proc[p].answer = "none" /\ proc'[p].answer # "none"
             /\ code[p].polled # 0 =>
               now >= code[p].polled + PollInterval + SlowDown * code[p].slow]_vars
  <2>. SUFFICES ASSUME TypeInv, NEW p \in Cmds, LoginInv(p), At(p, "polling"),
                       proc[p].answer = "none", code[p].polled # 0
                PROVE  now >= code[p].polled + PollInterval + SlowDown * code[p].slow
    BY DEF Logins
  <2>1. /\ proc[p] \in Procs /\ code[p] \in Codes /\ now \in Nat /\ RowInv(p)
    BY DEF TypeInv, Shapes
  <2>2. proc[p].since <= now /\ code[p].polled + Gap(p) <= proc[p].since
    BY <2>1 DEF RowInv, InFlight, At, LoginInv, Spaced
  <2>3. Gap(p) \in Nat /\ code[p].polled \in Nat /\ proc[p].since \in Nat
    BY <2>1, GapIs DEF Codes, Procs
  <2>4. now >= code[p].polled + Gap(p)
    BY <2>1, <2>2, <2>3
  <2>5. SlowDown * code[p].slow \in Nat
    BY <2>1 DEF Codes
  <2>. QED BY <2>1, <2>3, <2>4, <2>5 DEF Gap
<1>. QED BY <1>1, LoginAlways, PTL DEF Spec, PollsSpaced

(* ApprovedIsPickedUp: a login whose code was approved ends without tokens   *)
(* only when the approval came within an interval and the travel of two      *)
(* requests of the end of the code (the deadline and the loop of Flow.Poll). *)
THEOREM ApprovalsArePickedUp == Spec => ApprovedIsPickedUp
<1>1. TypeInv /\ Logins /\ [Next]_vars =>
        [\A p \in Cmds :
           /\ proc'[p].pc = "idle" /\ faults' = faults
           /\ Due(p) \/ proc[p].answer = "expired_token"
           /\ code[p].state = "approved"
           => code[p].approved + PollInterval + SlowDown * code[p].slow + 2 * HttpTimeout
                >= code[p].exp]_vars
  <2>. SUFFICES ASSUME TypeInv, NEW p \in Cmds, LoginInv(p), [Next]_vars,
                       proc'[p].pc = "idle", faults' = faults,
                       Due(p) \/ proc[p].answer = "expired_token",
                       code[p].state = "approved"
                PROVE  code[p].approved + PollInterval + SlowDown * code[p].slow + 2 * HttpTimeout
                         >= code[p].exp
    BY DEF Logins
  <2>. DEFINE r == proc[p]
              k == code[p]
  <2>1. /\ Shapes /\ r \in Procs /\ k \in Codes /\ now \in Nat /\ RowInv(p)
    BY DEF TypeInv, Shapes
  <2>2. /\ Gap(p) \in Nat /\ k.polled \in Nat /\ r.since \in Nat /\ k.exp \in Nat
        /\ r.deadline \in Nat /\ k.approved \in Nat /\ SlowDown * k.slow \in Nat
    BY <2>1, GapIs DEF Codes, Procs
  <2>3. /\ k.polled <= k.approved /\ k.exp <= k.approved + ExpiresIn
    BY DEF LoginInv, Active, Due, At
  <2>4. k.approved + Gap(p) + 2 * HttpTimeout >= k.exp
    <3>1. CASE r.answer = "expired_token"
      <4>1. r.pc = "polling" /\ Spaced(p) /\ k.exp <= now /\ now <= r.since + HttpTimeout
        BY <2>1, <3>1 DEF LoginInv, RowInv, InFlight
      <4>2. CASE k.polled # 0
        <5>1. r.since <= k.polled + HttpTimeout + Gap(p)
          BY <4>1, <4>2 DEF Spaced
        <5>. QED BY <2>1, <2>2, <2>3, <4>1, <5>1
      <4>3. CASE k.polled = 0
        <5>1. r.since + ExpiresIn = r.deadline /\ r.deadline <= k.exp + HttpTimeout
          BY <4>1, <4>3 DEF Spaced
        <5>. QED BY <2>1, <2>2, <2>3, <4>1, <5>1
      <4>. QED BY <4>2, <4>3
    <3>2. CASE Due(p)
      <4>1. r.pc = "sleeping" /\ r.since <= now /\ now <= r.since /\ Spaced(p)
              /\ k.exp <= r.deadline
        BY <3>2 DEF Due, At, LoginInv
      <4>2. now > r.deadline
        <5>1. PICK q \in Cmds : StepOf(q)
          BY <4>1, NextIs DEF vars, Logout, Tick
        <5>2. q = p
          BY <2>1, <4>1, <5>1, OneMoves
        <5>3. CASE Poll(p)
          BY <2>1, <5>3, PollIs DEF Becomes
        <5>4. CASE Decide(p)
          BY <4>1, <5>4 DEF Decide
        <5>5. CASE Fail(p)
          <6>1. faults \in Nat /\ faults' = faults + 1
            BY <2>1, <5>5 DEF Fail, Shapes
          <6>. QED BY <6>1
        <5>. QED BY <4>1, <5>1, <5>2, <5>3, <5>4, <5>5
                 DEF StepOf, AnswerStart, AnswerPoll, AnswerRefresh, Login, BeginPoll, KeepPolling,
                     LoginRefused, LoggedIn, OpenCredentials, SaveCredentials, Token, Refreshed,
                     RefreshRefused, Use, At
      <4>3. CASE k.polled # 0
        <5>1. r.since <= k.polled + HttpTimeout + Gap(p)
          BY <4>1, <4>3 DEF Spaced
        <5>. QED BY <2>1, <2>2, <2>3, <4>1, <4>2, <5>1
      <4>4. CASE k.polled = 0
        <5>1. r.since + ExpiresIn = r.deadline
          BY <4>1, <4>4 DEF Spaced
        <5>. QED BY <2>1, <2>2, <4>1, <4>2, <5>1
      <4>. QED BY <4>3, <4>4
    <3>. QED BY <3>1, <3>2
  <2>. QED BY <2>2, <2>4 DEF Gap
<1>. QED BY <1>1, LoginAlways, PTL DEF Spec, ApprovedIsPickedUp

=============================================================================
