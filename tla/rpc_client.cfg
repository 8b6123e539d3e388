\* Two calls, one other message of the plugin and two of the server: all orders of
\* answers, failed writes and reads, panic and close.
SPECIFICATION FairSpec
CONSTANTS
  MaxCalls = 2
  MaxNotes = 1
  MaxPeer = 2
INVARIANTS
  EachCallOnce
  MessagesInOrder
PROPERTIES
  ImplementsRpcCalls
  CallsSettled
  NoneWaitsOnTheDead
CHECK_DEADLOCK FALSE
