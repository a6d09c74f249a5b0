SPECIFICATION FairSpec
CONSTANTS
  Senders = {runner}
  Dispatcher = dispatcher
  Frames = {f, zero}
  Zero = zero
  TxLen = 2
  RxLen = 1
  Mailboxes <- TwoMailboxes
INVARIANTS TypeOK NoFrameForgotten
PROPERTIES ImplementsChannel QueueDrains DispatcherMovesOn
