SPECIFICATION FairSpec
CONSTANTS
  reply = reply
  ctrl = ctrl
  status_ = status_
  function = function
  abort = abort
  poll = poll
  web_func = web_func
  status_func = status_func
  update_func = update_func
  timer_func = timer_func
  None = None
  Queue = {reply, ctrl, status_}
  Header = {function, abort, poll}
  Function = {web_func, status_func, update_func, timer_func}
  HeadersOf <- Clients
  FunctionOf <- HeaderFunctions
  AbortHeaders = {abort}
  Item <- Items
  WebApi = {web_func}
  UpdateForms = {web_func, status_func, timer_func}
  AfterUpdate = update_func
  Asks = {web_func}
  MayFail = {web_func}
  Timed = {timer_func}
  MaxPending = 1
  Interrupts = {}
  Trigger = {1}
  MaxAborts = 1
INVARIANT TypeOK
PROPERTY ImplementsReplySafely
PROPERTY LostOnlyWithFailure
PROPERTY AnsweredOrLost
