CONSTANTS
  KBD_MAX_CONN = 2
  Hosts = {h1, h2, h3}
  Public = {h1}
  None = none
SPECIFICATION Spec
INVARIANTS TypeOK RoutedToOwner OneSlotPerHost AcceptedIsTracked SecureIsFresh
INVARIANTS HostInvited FlashCurrent
PROPERTIES InvitesAgain
