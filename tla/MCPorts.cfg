\* Two UDP clients of two pads each on the four ports of the console.
SPECIFICATION Spec
CONSTANTS
  MaxClients = 2
  NPads = 2
  NPorts = 4
  Udp = Udp
  Web = Web
  Nobody = Nobody
  Admitters <- UdpOnly
  Shown <- TwoShown
  MacroPads <- OneMacro
INVARIANTS PortsInv
PROPERTIES EverybodyPlays LosesOnlyToThoseBefore AdmittedFit
