------------------------------- MODULE WalletApi -------------------------------
(***************************************************************************)
(* One request to the wallet service, sent more than once: the caller      *)
(* repeats it while an earlier attempt is still running, after it got no   *)
(* answer, or after it got one.  WalletServer says what is to be done      *)
(* (Serve); here it is done: the transaction wrapper opens a transaction,  *)
(* sets the session up, runs the procedure, commits and tries again, a     *)
(* read is answered, an unmasked read is logged.                           *)
(*                                                                         *)
(* The database is the effect of the request: who put it there, and        *)
(* whether its key is claimed without it.  Statements fail, connections    *)
(* break (also under a COMMIT), the deadline of the request passes, its    *)
(* caller hangs up, the process dies.                                      *)
(***************************************************************************)
EXTENDS Integers, WalletDomain

CONSTANTS
  Served,       \* the requests, as WalletServer!Serve leaves them
  Attempts,     \* the caller's attempts at one
  MaxRetries    \* TX_MAX_RETRIES

H == INSTANCE WalletHandler
R == INSTANCE WalletRepo

ASSUME RetriesAssumption == MaxRetries \in Nat

VARIABLES
  served,    \* the request
  pc,        \* where each attempt is
  tries,     \* its transactions before the present one, counted up to MaxRetries + 1
  gone,      \* why its context has ended: "", "DEADLINE", "CANCELED"
  err,       \* the error it ended with
  found,     \* what the procedure found
  answer,    \* what the caller was told
  rows,      \* committed effects: <<attempt, transaction>>
  claim,     \* the key is committed without an effect
  logged     \* the access log: the attempts with an entry

vars == <<served, pc, tries, gone, err, found, answer, rows, claim, logged>>

plan == served.plan
call == plan.call
class == IF plan.kind = "refuse" THEN "" ELSE call.proc.class
Silence == [status |-> 0, code |-> "", data |-> {}]

Init ==
  /\ served \in Served
  /\ pc = [a \in Attempts |-> "idle"]
  /\ tries = [a \in Attempts |-> 0]
  /\ gone = [a \in Attempts |-> ""]
  /\ err = [a \in Attempts |-> ""]
  /\ found = [a \in Attempts |-> ""]
  /\ answer = [a \in Attempts |-> Silence]
  /\ rows = {}
  /\ claim = FALSE
  /\ logged = {}

Running(a) == pc[a] \notin {"idle", "done", "lost"}
Goto(a, place) == pc' = [pc EXCEPT ![a] = place]

\* The attempt is over, and what its goroutine knew is gone.
End(a, place) ==
  /\ Goto(a, place)
  /\ tries' = [tries EXCEPT ![a] = 0]
  /\ gone' = [gone EXCEPT ![a] = ""]
  /\ found' = [found EXCEPT ![a] = ""]
Tell(a, ans) == answer' = [answer EXCEPT ![a] = ans] /\ End(a, "done")

-----------------------------------------------------------------------------
(* The request arrives *)

Arrive(a) ==
  /\ pc[a] = "idle"
  /\ IF plan.kind = "refuse" THEN Tell(a, plan.problem)
     ELSE /\ Goto(a, IF plan.kind = "read" THEN "read" ELSE "begin")
          /\ UNCHANGED <<tries, gone, found, answer>>
  /\ UNCHANGED <<served, err, rows, claim, logged>>

\* The deadline of the request, or the caller who hangs up.
Expire(a) ==
  /\ Running(a) /\ gone[a] = ""
  /\ \E why \in {"DEADLINE", "CANCELED"} : gone' = [gone EXCEPT ![a] = why]
  /\ UNCHANGED <<served, pc, tries, err, found, answer, rows, claim, logged>>

\* The process is killed: what it had not committed is rolled back, nobody is answered.
Die(a) ==
  /\ Running(a)
  /\ End(a, "lost")
  /\ UNCHANGED <<served, err, answer, rows, claim, logged>>

-----------------------------------------------------------------------------
(* withTx: a transaction has failed and is rolled back.  Once more, after a pause the *)
(* deadline may cut short, or the error to the caller. *)

Stops(a, e) ==
  plan.kind = "read" \/ R!withTx(tries[a], MaxRetries, gone[a] = "", R!mapPgError(e))

Fail(a, e) ==
  \/ /\ ~Stops(a, e)
     /\ tries' = [tries EXCEPT ![a] = IF @ > MaxRetries THEN @ ELSE @ + 1]
     /\ found' = [found EXCEPT ![a] = ""]
     /\ Goto(a, "begin")
     /\ UNCHANGED <<gone, err, answer>>
  \/ /\ err' = [err EXCEPT ![a] = e]
     /\ Tell(a, H!renderError(R!mapPgError(e)))

-----------------------------------------------------------------------------
(* runTx: one transaction *)

\* A context that has ended fails the next statement; any statement may lose its connection.
Errors(a) == {"BROKEN"} \cup ({gone[a]} \ {""})
Interrupt(a) ==
  /\ pc[a] \in {"begin", "procedure", "insert", "read"}
  /\ \E e \in Errors(a) : Fail(a, e)
  /\ UNCHANGED <<served, rows, claim, logged>>

\* The transaction is opened and set up: its timeouts, the audit settings, the key of the
\* personal data.
BeginTx(a) ==
  /\ pc[a] = "begin" /\ gone[a] = ""
  /\ Goto(a, "procedure")
  /\ UNCHANGED <<served, tries, gone, err, found, answer, rows, claim, logged>>

\* Another attempt holds the row, or an entry of the unique index, it has not committed.
Writing(a) == pc[a] = "commit" /\ found[a] \in {"FRESH", "SWEEP"}
Blocked(a) == class # "APPEND" /\ \E b \in Attempts \ {a} : Writing(b)

Find(a, outcome) ==
  /\ found' = [found EXCEPT ![a] = outcome]
  /\ Goto(a, "commit")
  /\ UNCHANGED <<tries, gone, err, answer>>

\* A merchant withdrawal that is short on the settlement account may ask for a sweep first.
MaySweep == call.proc = R!post_merchant_withdraw

\* The procedure does what was asked: it was not done, or doing it again is all the same to it.
Perform(a) ==
  /\ pc[a] = "procedure" /\ gone[a] = "" /\ class # "UNIQUE" /\ ~Blocked(a)
  /\ class \in {"OVERWRITE", "APPEND"} \/ (rows = {} /\ ~claim)
  /\ \E outcome \in {"FRESH"} \cup (IF MaySweep THEN {"SWEEP"} ELSE {}) : Find(a, outcome)
  /\ UNCHANGED <<served, rows, claim, logged>>

\* It was done: the stored answer, a step taken, a refusal.
Recognise(a) ==
  /\ pc[a] = "procedure" /\ gone[a] = "" /\ ~Blocked(a)
  /\ class \notin {"OVERWRITE", "APPEND"} /\ (rows # {} \/ claim)
  /\ IF class \in {"KEYED", "REVERSAL", "STEP"} /\ rows # {} THEN Find(a, "REPEAT")
     ELSE Fail(a, call.proc.again)
  /\ UNCHANGED <<served, rows, claim, logged>>

\* A duplicate is looked for without a lock, then the row inserted: the index settles it.
LookUp(a) ==
  /\ pc[a] = "procedure" /\ gone[a] = "" /\ class = "UNIQUE" /\ rows = {}
  /\ Goto(a, "insert")
  /\ UNCHANGED <<served, tries, gone, err, found, answer, rows, claim, logged>>

Insert(a) ==
  /\ pc[a] = "insert" /\ gone[a] = "" /\ ~Blocked(a)
  /\ IF rows = {} THEN Find(a, "FRESH") ELSE Fail(a, "23505")
  /\ UNCHANGED <<served, rows, claim, logged>>

\* A rule of the business, a conflict with other traffic, a lock or a statement that took too long.
Raise(a) ==
  /\ pc[a] \in {"procedure", "insert"}
  /\ \E e \in call.proc.refusals \cup {"40001", "40P01", "55P03", "57014"} : Fail(a, e)
  /\ UNCHANGED <<served, rows, claim, logged>>

\* What a COMMIT makes of the database.
Effect(a) ==
  /\ rows' = IF found[a] = "FRESH" THEN rows \cup {<<a, tries[a]>>} ELSE rows
  /\ claim' = (claim \/ found[a] = "SWEEP")

Commit(a) ==
  /\ pc[a] = "commit" /\ gone[a] = ""
  /\ Effect(a)
  /\ Tell(a, plan.answers[found[a]])
  /\ UNCHANGED <<served, err, logged>>

\* The COMMIT is sent, and its answer is lost: it took effect or it did not.
CommitUnknown(a) ==
  /\ pc[a] = "commit"
  /\ \E e \in Errors(a) : Fail(a, e)
  /\ Effect(a) \/ UNCHANGED <<rows, claim>>
  /\ UNCHANGED <<served, logged>>

-----------------------------------------------------------------------------
(* Reads *)

Read(a) ==
  /\ pc[a] = "read" /\ gone[a] = ""
  /\ \/ call.missing # "" /\ Fail(a, call.missing)
     \/ Fail(a, "57014")
     \/ Goto(a, "log") /\ UNCHANGED <<tries, gone, err, found, answer>>
  /\ UNCHANGED <<served, rows, claim, logged>>

\* The entry of the access log comes before the answer; failing to write it fails nothing.
AnswerRead(a) ==
  /\ pc[a] = "log"
  /\ \/ plan.log # "" /\ gone[a] = "" /\ logged' = logged \cup {a}
     \/ UNCHANGED logged
  /\ Tell(a, plan.answers.FRESH)
  /\ UNCHANGED <<served, err, rows, claim>>

-----------------------------------------------------------------------------

Advance(a) ==
  \/ Interrupt(a) \/ BeginTx(a)
  \/ Perform(a) \/ Recognise(a) \/ LookUp(a) \/ Insert(a) \/ Raise(a)
  \/ Commit(a) \/ CommitUnknown(a) \/ Read(a) \/ AnswerRead(a)

\* Every attempt that was made is over.
Rest == (\A a \in Attempts : ~Running(a)) /\ UNCHANGED vars

Next == (\E a \in Attempts : Arrive(a) \/ Expire(a) \/ Die(a) \/ Advance(a)) \/ Rest

\* The goroutine of a request runs on; a statement ends, if only by its timeout.
Fairness == \A a \in Attempts : WF_vars(Advance(a))

Spec == Init /\ [][Next]_vars
FairSpec == Spec /\ Fairness

-----------------------------------------------------------------------------

Places == {"idle", "begin", "procedure", "insert", "commit", "read", "log", "done", "lost"}

\* The state has its shape: where each attempt is, how often it tried, whose effects there are.
TypeOK ==
  /\ pc \in [Attempts -> Places]
  /\ tries \in [Attempts -> 0 .. MaxRetries]
  /\ gone \in [Attempts -> {"", "DEADLINE", "CANCELED"}]
  /\ found \in [Attempts -> H!Outcomes \cup {""}]
  /\ rows \subseteq Attempts \X (0 .. MaxRetries)
  /\ claim \in BOOLEAN
  /\ logged \subseteq Attempts

By(a) == {r \in rows : r[1] = a}

\* A request takes effect once: however often the wrapper runs its transaction, with whatever
\* answer a COMMIT was lost, an attempt leaves one effect at most; and where the procedure
\* recognises a repeated call all attempts together leave one (withTx promises the first for
\* the retries it makes, the key, the row lock or the index the second).
OneEffect ==
  /\ \A r, q \in rows : r[1] = q[1] => r = q
  /\ class \notin {"OVERWRITE", "APPEND"} => \A r, q \in rows : r = q

Success(a) == pc[a] = "done" /\ answer[a].code = "00000"
TellsRepeat(a) ==
  CASE class = "KEYED"    -> answer[a].status = 200
    [] class = "REVERSAL" -> "was_already_reversed" \in answer[a].data
    [] class = "STEP"     -> "event_uuid" \notin answer[a].data
    [] OTHER              -> FALSE

\* A caller can rely on the answer.  Told of a success, the effect is committed, and the answer
\* says whether it is this attempt's; PDNG means that nothing was done.  Told of an error of
\* its own (4xx), this attempt has left nothing; a broken connection or a deadline may have.
\* Whatever rule a procedure refuses by reaches the caller by its name, as a 4xx.
AnswersTrue ==
  \A a \in Attempts : pc[a] = "done" /\ plan.kind = "write" =>
    /\ Success(a) =>
         IF "PDNG" \in answer[a].data THEN By(a) = {}
         ELSE rows # {} /\ (TellsRepeat(a) <=> By(a) = {})
    /\ answer[a].status \in 400 .. 498 => By(a) = {}
    /\ err[a] \in call.proc.refusals =>
         /\ answer[a].code = err[a]
         /\ answer[a].status < 500 \/ err[a] = "PII_DEK_NOT_SET"

\* The actor the gateway vouches for.
Claimed(caller) == IF caller.name # "" THEN caller.name ELSE caller.sub

\* What is stored is what was sent, in the name of who sent it: every field a handler takes
\* from the body reaches the procedure through four layers of copying, and the actor of the
\* transaction is the one of the gateway, whatever the headers say.
StoredAsSent ==
  \A r \in rows : /\ plan.taken \cup {"actor"} \subseteq call.args
                  /\ R!setAuditGUCs(served.audit).actor = Claimed(served.caller)

Encrypted == {"phone", "email", "bank_acct_no", "bank_acct_no_masked"}

\* The routes that answer with the account of a client, on the masked side.
NamesUnlogged == {"accounts/one", "clients/accounts", "clients/360"}

\* Raw personal data is answered only on the routes that write the access log, to a caller with
\* the role for it (where the service checks tokens itself), out of the pool of the role that
\* may read it; and what is stored encrypted is read with the key set.  There is one exception:
\* the name of the holder, which a wallet and a linked bank account hold a copy of.  Three
\* masked routes answer with it, and they write no log and ask for no role.
PiiIsLogged ==
  \A a \in Attempts : Success(a) =>
    LET raw == answer[a].data \cap RawPii IN
    /\ raw # {} =>
         \/ /\ plan.log \in PIIAccess
            /\ served.jwt => "wallet.ops.read" \in served.caller.roles
            /\ "pii" \in call.pools
         \/ raw \subseteq HolderName /\ served.route.path \in NamesUnlogged
    /\ served.route.path \in NamesUnlogged => raw # {} /\ plan.log = ""
    /\ plan.kind = "read" /\ call.out \cap Encrypted # {} => call.keys

\* A list can be read to its end: an answer that leaves rows out names the next page.  A search
\* has no next page; and the list of journal entries names none when it is asked for more than
\* a page can hold, so that its first page passes for the last.
Searches == {"accounts/search", "ops/accounts/search"}

PagesGoOn ==
  \A a \in Attempts : Success(a) /\ ~plan.all =>
    ("next_cursor" \in answer[a].data <=>
       /\ served.route.path \notin Searches
       /\ ~(served.route.path = "ops/je" /\ plan.over))

\* Every attempt is answered unless the process dies under it: retries are bounded, and no
\* two attempts wait for each other.
EventuallyAnswered ==
  \A a \in Attempts : Running(a) ~> pc[a] \in {"done", "lost"}

=============================================================================
