CONSTANTS
  Hosts = {h1, h2}
  None = none
  TextMax = 1
  MaxCmds = 2
SPECIFICATION Spec
PROPERTIES TypingEnds LeftHostInvited MqttStops
