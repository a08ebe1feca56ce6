------------------------------ MODULE Checker ------------------------------
(***************************************************************************)
(* checker: whether a proxy works and hides the address of this machine.    *)
(* A page is asked for through the proxy, and a reply is an error or the    *)
(* set of the marks that the page's text shows.  An error is the record of  *)
(* whether it calls itself temporary.  The page asked for is chosen at      *)
(* random, so a check has a set of outcomes.  An HTTP proxy is asked for    *)
(* the page without TLS, which is the same page here.                       *)
(***************************************************************************)
EXTENDS Integers

CONSTANTS
  firstPass,  \* pages that show the address a request came from
  secondPass  \* page -> the mark it must show: pages that show all headers

ASSUME CheckerAssumption == \A page \in DOMAIN secondPass : secondPass[page] # ""

NoError == [failed |-> FALSE, temporary |-> FALSE]
Permanent == [failed |-> TRUE, temporary |-> FALSE]
Temporary == [failed |-> TRUE, temporary |-> TRUE]

\* The marks of a page that mean it was not the page that answered, and the
\* marks of this machine's address and of any address.
ErrorPages == {"client does not have permission to get URL", "Cloudflare"}
ThisIP == "this IP"
AnyIP == "an IP"

Reply(err, marks) == [err |-> err, marks |-> marks]

\* fmt.Errorf("%w"): isTimeout and isTemporary look at the outermost error.
wrapped(err) == IF err.failed THEN Permanent ELSE err

validate(marks, valid) ==
  IF marks \cap ErrorPages # {} THEN Temporary
  ELSE IF ThisIP \in marks THEN Permanent
  ELSE IF valid = "" /\ AnyIP \notin marks THEN Permanent
  ELSE IF valid # "" /\ valid \notin marks THEN Permanent
  ELSE NoError

simpleCheck(reply, valid) ==
  IF reply.err.failed THEN reply.err ELSE validate(reply.marks, valid)

\* A federated is a function from its pages to what they must show.
federatedCheck(pages, web) == {simpleCheck(web[page], pages[page]) : page \in DOMAIN pages}

\* Mutant of pass: every error is wrapped.
passWrapped(err) == wrapped(err)

\* One pass of twoPass.Check.
pass(err) == IF err.temporary THEN err ELSE wrapped(err)

twoPassCheck(first, second, web) ==
  LET one == federatedCheck(first, web)
      two == IF NoError \in one THEN federatedCheck(second, web) ELSE {}
  IN  {pass(err) : err \in (one \ {NoError}) \cup two}

\* newFederated asks the pages of the first pass, whatever sites it is given.
newFederated(sites) == [page \in firstPass |-> ""]

\* Configure sets the strategy when it knows the address of this machine and
\* the name is one of the three; otherwise there is none.
Configure(thisIP, strategyName) ==
  IF thisIP # "" /\ strategyName \in {"simple", "headers", "twopass"}
    THEN strategyName ELSE "none"

Check(strategy, web) ==
  CASE strategy = "simple" -> federatedCheck(newFederated(firstPass), web)
    [] strategy = "headers" -> federatedCheck(newFederated(DOMAIN secondPass), web)
    [] strategy = "twopass" -> twoPassCheck(newFederated(firstPass), secondPass, web)
    [] strategy = "none" -> {Permanent}
=============================================================================
