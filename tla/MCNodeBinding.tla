--------------------------- MODULE MCNodeBinding ---------------------------
(* The instance of NodeBinding that TLC checks: one object of each class that *)
(* takes part in a call, and a lock.                                          *)
EXTENDS NodeBinding

CONSTANTS http, dispatcher, lock, observer, response, api, handle, list

MCClass ==
    [o \in {http, dispatcher, lock, observer, response, api, handle, list} |->
        CASE o = http -> "Http"
          [] o = dispatcher -> "ThreadDispatcher"
          [] o = lock -> "Lock"
          [] o = observer -> "TransactionListVmObserver"
          [] o = response -> "HandleResponse"
          [] o = api -> "Api"
          [] o = handle -> "TransactionListVmHandle"
          [] o = list -> "TransactionListVm"]
=============================================================================
