---------------------------- MODULE LocationApi ----------------------------
(* LocationAPI, the door of the location service: client objects join the   *)
(* GNSS, batching and geofence adapters, which are loaded when first wanted, *)
(* and are taken apart again when each loaded adapter has let go of them.    *)
(* Everything here runs under gDataMutex, except what an adapter does on its *)
(* own thread.                                                               *)
EXTENDS Integers, Sequences, FiniteSets

CONSTANT Apis       \* the LocationAPI objects that may be created

Kinds == {"gnss", "batching", "geofence"}

VARIABLES
  interfaces,       \* gData.*Interface with g*LoadFailed, by kind
  clientData,       \* gData.clientData: the adapters whose callbacks each gave
  destroyClientData,\* gData.destroyClientData: waitAdapterMask, by object
  refCount,         \* gOSFrameworkRefCount
  osUp,             \* the OS framework's instance exists
  heap,             \* each object: not yet created, alive, deleted
  messages,         \* the messages an adapter's thread has not yet handled
  joined,           \* mClientData of each adapter
  undone            \* the objects destroyed with a completion callback, and
                    \* whether it has been called

lifeVars == <<interfaces, clientData, destroyClientData, refCount, osUp, heap,
              messages, joined, undone>>

TypeOKLife ==
  /\ interfaces \in [Kinds -> {"unloaded", "loaded", "failed"}]
  /\ DOMAIN clientData \subseteq Apis
  /\ \A a \in DOMAIN clientData : clientData[a] \subseteq Kinds
  /\ DOMAIN destroyClientData \subseteq Apis
  /\ \A a \in DOMAIN destroyClientData : destroyClientData[a] \subseteq Kinds
  /\ refCount \in Int /\ osUp \in BOOLEAN
  /\ heap \in [Apis -> {"none", "alive", "deleted"}]
  /\ messages \in [Kinds -> Seq([op : {"add", "remove"}, api : Apis])]
  /\ joined \in [Kinds -> SUBSET Apis]
  /\ undone \in [Apis -> {"no", "owed", "told"}]

InitLife ==
  /\ interfaces = [k \in Kinds |-> "unloaded"]
  /\ clientData = <<>> /\ destroyClientData = <<>>
  /\ refCount = 0 /\ osUp = FALSE
  /\ heap = [a \in Apis |-> "none"]
  /\ messages = [k \in Kinds |-> <<>>]
  /\ joined = [k \in Kinds |-> {}]
  /\ undone = [a \in Apis |-> "no"]

Put(f, x, v)   == [y \in DOMAIN f \cup {x} |-> IF y = x THEN v ELSE f[y]]
Erase(f, x)    == [y \in DOMAIN f \ {x} |-> f[y]]
Loaded(f)      == {k \in Kinds : f[k] = "loaded"}

(* An interface a client needs is loaded once; a load that failed is not     *)
(* tried again.                                                              *)
Load(cbs) ==
  interfaces' \in
    {f \in [Kinds -> {"unloaded", "loaded", "failed"}] :
       \A k \in Kinds : IF k \in cbs /\ interfaces[k] = "unloaded"
                          THEN f[k] \in {"loaded", "failed"}
                          ELSE f[k] = interfaces[k]}

(* addClientCommand: the client joins on the adapter's own thread.           *)
AddClient(a, cbs) ==
  messages' = [k \in Kinds |-> IF k \in cbs /\ interfaces'[k] = "loaded"
                 THEN Append(messages[k], [op |-> "add", api |-> a])
                 ELSE messages[k]]

(* The mandatory callbacks are given.  The first object brings up the OS     *)
(* framework.                                                                *)
CreateInstance(a, cbs) ==
  /\ heap[a] = "none"
  /\ heap' = [heap EXCEPT ![a] = "alive"]
  /\ refCount' = refCount + 1
  /\ osUp' = (osUp \/ refCount' = 1)
  /\ Load(cbs)
  /\ AddClient(a, cbs)
  /\ clientData' = Put(clientData, a, cbs)
  /\ UNCHANGED <<destroyClientData, joined, undone>>

(* The client joins what it gave callbacks for; it leaves nothing.           *)
UpdateCallbacks(a, cbs) ==
  /\ a \in DOMAIN clientData
  /\ Load(cbs)
  /\ AddClient(a, cbs)
  /\ clientData' = Put(clientData, a, cbs)
  /\ UNCHANGED <<destroyClientData, refCount, osUp, heap, joined, undone>>

ReleaseFramework ==
  /\ refCount' = refCount - 1
  /\ osUp' = (osUp /\ refCount # 1)

(* destroy(cb): the object leaves every adapter that is loaded, also those   *)
(* it never joined.  With a callback it is put down as waiting for them; an  *)
(* object without adapters is deleted at once.  The callback itself is only  *)
(* called when there is none to call (!destroyCompleteCb).                   *)
Destroy(a, cb) ==
  LET wait == Loaded(interfaces) # {} IN
  /\ a \in DOMAIN clientData
  /\ destroyClientData' = IF cb /\ wait
                            THEN Put(destroyClientData, a, Loaded(interfaces))
                            ELSE destroyClientData
  /\ messages' = [k \in Kinds |-> IF interfaces[k] = "loaded"
                    THEN Append(messages[k], [op |-> "remove", api |-> a])
                    ELSE messages[k]]
  /\ clientData' = Erase(clientData, a)
  /\ ReleaseFramework
  /\ heap' = IF wait THEN heap ELSE [heap EXCEPT ![a] = "deleted"]
  /\ undone' = IF cb THEN [undone EXCEPT ![a] = "owed"] ELSE undone
  /\ UNCHANGED <<interfaces, joined>>

(* A mutant of the next definition: the first adapter that is done deletes   *)
(* the object.                                                               *)
OnFirstRemoveClientCompleteCb(a, k) ==
  IF a \in DOMAIN destroyClientData
    THEN /\ destroyClientData' = Erase(destroyClientData, a)
         /\ heap' = [heap EXCEPT ![a] = "deleted"]
    ELSE UNCHANGED <<destroyClientData, heap>>

(* The last adapter that was waited for has the object deleted.              *)
OnRemoveClientCompleteCb(a, k) ==
  IF a \in DOMAIN destroyClientData
    THEN LET left == destroyClientData[a] \ {k} IN
         IF left = {}
           THEN /\ destroyClientData' = Erase(destroyClientData, a)
                /\ heap' = [heap EXCEPT ![a] = "deleted"]
           ELSE /\ destroyClientData' = Put(destroyClientData, a, left)
                /\ UNCHANGED heap
    ELSE UNCHANGED <<destroyClientData, heap>>

(* MsgAddClient and MsgRemoveClient, on the thread of adapter k.             *)
AdapterRuns(k) ==
  /\ messages[k] # <<>>
  /\ messages' = [messages EXCEPT ![k] = Tail(@)]
  /\ LET m == Head(messages[k]) IN
     IF m.op = "add"
       THEN /\ joined' = [joined EXCEPT ![k] = @ \cup {m.api}]
            /\ UNCHANGED <<destroyClientData, heap>>
       ELSE /\ joined' = [joined EXCEPT ![k] = @ \ {m.api}]
            /\ OnRemoveClientCompleteCb(m.api, k)
  /\ UNCHANGED <<interfaces, clientData, refCount, osUp, undone>>

(* No adapter holds, or is about to take in or let go, an object that has    *)
(* been deleted: an adapter calls the callbacks of what it holds.            *)
AdaptersHoldLiveObjects ==
  \A a \in Apis : heap[a] # "alive" =>
    /\ \A k \in Kinds : a \notin joined[k]
    /\ \A k \in Kinds : \A i \in DOMAIN messages[k] : messages[k][i].api # a

(* The OS framework is up exactly while some object is in use.               *)
FrameworkServesObjects == osUp <=> clientData # <<>>

=============================================================================
