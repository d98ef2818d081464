SPECIFICATION CameraSpec
CONSTANTS
  Types = {"soc", "bayer"}
  Requests <- MCRequests
  MaxUsers = 2
INVARIANTS TorchAsWanted ExposureSettles
