----------------------------- MODULE MmsReader -----------------------------
(***************************************************************************)
(* The MMS transport (web/glv/transport/mms.py, web/glv/mms_map.py): the   *)
(* bits of the diagrams that share a connection are resolved to leaves of  *)
(* the relay's directory, from the project's SCD or a factory table, and   *)
(* one batched Read per turn asks for those of the open page.               *)
(***************************************************************************)
EXTENDS Integers, FiniteSets

CONSTANTS
    Drawings,   \* diagrams that may join the connection
    WordBits,   \* names of the Relay Word
    DataLeaves, \* LN$FC$DO$DA of the relay
    LeafOf,     \* a bit's leaf; a decorated leaf carries two bits
    RuleOf,     \* the leaf's value that means 1 for the bit
    BitsOf,     \* what a diagram draws
    MmsPages,   \* pages a screen may show, as sets of bits
    MmsTurns    \* bound: turns of the poll

ASSUME MmsAssumption ==
    /\ LeafOf \in [WordBits -> DataLeaves] /\ RuleOf \in [WordBits -> {1, 2}]
    /\ BitsOf \in [Drawings -> SUBSET WordBits] /\ MmsTurns \in Nat

VARIABLES
    client,     \* "none", "up" (associated), "ready" (directory read), "closed"
    directory,  \* the leaves the relay announced
    scd, table, \* bits the SCD and the factory table have an address for
    flaky,      \* the SCD could not be read at some preparation (history)
    gathered,   \* _wanted, of all the diagrams
    points,     \* the map: bits with a leaf
    plan,       \* what the poll reads, published by a preparation
    joined,     \* diagrams that were accepted
    drawn,      \* LiveState.wanted_bits
    mturn,      \* the turn: whether it runs, its bits, how many there were
    mshown      \* LiveState: digitals, error

mmsVars == <<client, directory, scd, table, flaky, gathered, points, plan, joined,
             drawn, mturn, mshown>>

Failed == -2
LeafValues == {0, 1, 2, Failed}
Unread == -1

MmsInit ==
    /\ client = "none" /\ directory \in SUBSET DataLeaves
    /\ scd \in SUBSET WordBits /\ table \in SUBSET WordBits /\ flaky = FALSE
    /\ gathered = {} /\ points = {} /\ plan = {} /\ joined = {}
    /\ drawn \in MmsPages
    /\ mturn = [on |-> FALSE, bits |-> {}, n |-> 0]
    /\ mshown = [digitals |-> [b \in WordBits |-> Unread], error |-> "", read |-> {}]

\* connect(): the association lifts the watchdog; then the directory is read.
\* A relay without logical devices, or one that stops answering, raises.
Associate ==
    /\ client = "none"
    /\ client' \in {"up", "closed"}
    /\ UNCHANGED <<directory, scd, table, flaky, gathered, points, plan, joined, drawn,
                   mturn, mshown>>

ReadDirectory ==
    /\ client = "up"
    /\ client' = IF directory = {} THEN "closed" ELSE "ready"
    /\ UNCHANGED <<directory, scd, table, flaky, gathered, points, plan, joined, drawn,
                   mturn, mshown>>

\* resolve_map(): a leaf that the directory confirms, by either source.
Resolve(bits, s) == {b \in bits : LeafOf[b] \in directory /\ b \in s \cup table}

\* The SCD's points for this IED; an SCD that cannot be read has none.
ScdRead == {scd, {}}

\* prepare_bits(): nothing to do when every bit is in the map; otherwise the
\* map of the union is built anew, but the diagram is refused (MmsSetupError)
\* when neither source exists or none of its own bits is found.
Prepare(d) ==
    /\ client = "ready" /\ d \notin joined
    /\ gathered' = gathered \cup BitsOf[d]
    /\ \/ /\ BitsOf[d] \subseteq points
          /\ joined' = joined \cup {d}
          /\ UNCHANGED <<points, plan, flaky>>
       \/ /\ ~(BitsOf[d] \subseteq points)
          /\ \E s \in ScdRead :
              /\ flaky' = (flaky \/ s # scd)
              /\ IF s = {} /\ table = {}
                 THEN UNCHANGED <<points, plan, joined>>
                 ELSE /\ points' = Resolve(gathered', s)
                      /\ IF points' \cap BitsOf[d] = {}
                         THEN UNCHANGED <<plan, joined>>
                         ELSE plan' = points' /\ joined' = joined \cup {d}
    /\ UNCHANGED <<client, directory, scd, table, drawn, mturn, mshown>>

\* The screen turns its page; an empty one stands for the whole map.
TurnPageMms ==
    /\ drawn' \in MmsPages
    /\ UNCHANGED <<client, directory, scd, table, flaky, gathered, points, plan, joined,
                   mturn, mshown>>

\* A turn takes the plan and the page, once.
TakePlan ==
    /\ client = "ready" /\ joined # {} /\ ~mturn.on /\ mturn.n < MmsTurns
    /\ mturn' = [on |-> TRUE, n |-> mturn.n + 1,
                 bits |-> IF drawn = {} THEN plan ELSE plan \cap drawn]
    /\ UNCHANGED <<client, directory, scd, table, flaky, gathered, points, plan, joined,
                   drawn, mshown>>

\* The values come back, one per leaf, a failed access among them; a value
\* that is none of a decorated bit's alternatives is no reading of it.
Decode(b, v) == IF v = Failed \/ (v = 2 /\ \A c \in WordBits : LeafOf[c] = LeafOf[b] => c = b)
                THEN Unread ELSE IF v = RuleOf[b] THEN 1 ELSE 0

PublishMms ==
    /\ mturn.on /\ mturn' = [mturn EXCEPT !.on = FALSE]
    /\ \E v \in [{LeafOf[b] : b \in mturn.bits} -> LeafValues] :
        LET got == [b \in WordBits |-> IF b \in mturn.bits THEN Decode(b, v[LeafOf[b]])
                                                       ELSE Unread]
        IN  mshown' = [
               digitals |-> IF mturn.bits = {} THEN mshown.digitals ELSE got,
               error    |-> IF \A b \in mturn.bits : got[b] # Unread
                            THEN "" ELSE "partial",
               read     |-> mturn.bits]
    /\ UNCHANGED <<client, directory, scd, table, flaky, gathered, points, plan, joined,
                   drawn>>

\* Any other error is shown, and the loop goes on.
TurnFails ==
    /\ mturn.on /\ mturn' = [mturn EXCEPT !.on = FALSE]
    /\ mshown' = [mshown EXCEPT !.error = "poll"]
    /\ UNCHANGED <<client, directory, scd, table, flaky, gathered, points, plan, joined,
                   drawn>>

\* An error of the protocol ends the poll; abort() and close() close the
\* socket, and the link is gone.
LoseMms ==
    /\ client \in {"up", "ready"}
    /\ client' = "closed"
    /\ mshown' = IF mturn.on THEN [mshown EXCEPT !.error = "mms"] ELSE mshown
    /\ mturn' = [mturn EXCEPT !.on = FALSE]
    /\ UNCHANGED <<directory, scd, table, flaky, gathered, points, plan, joined, drawn>>

MmsNext ==
    \/ Associate \/ ReadDirectory \/ TurnPageMms \/ TakePlan \/ PublishMms \/ TurnFails
    \/ LoseMms
    \/ \E d \in Drawings : Prepare(d)

MmsSpec == MmsInit /\ [][MmsNext]_mmsVars

-----------------------------------------------------------------------------
(* Properties. *)

\* Every variable keeps to its values.
MmsTypeOK ==
    /\ client \in {"none", "up", "ready", "closed"}
    /\ gathered \subseteq WordBits /\ points \subseteq gathered /\ plan \subseteq gathered
    /\ joined \subseteq Drawings /\ mturn.bits \subseteq WordBits
    /\ mshown.digitals \in [WordBits -> {0, 1, Unread}]

(***************************************************************************)
(* Every diagram that was accepted is read whole: what the relay serves of *)
(* its bits is in the plan, whichever diagrams joined, were refused or     *)
(* found their bits mapped before it, unless the SCD could not be read at  *)
(* some preparation (the union is then resolved without it).               *)
(***************************************************************************)
AcceptedIsPlanned ==
    ~flaky => \A d \in joined : Resolve(BitsOf[d], scd) \subseteq plan
=============================================================================
